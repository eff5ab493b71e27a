------------------------------ MODULE Schedule -------------------------------
(***************************************************************************)
(* What a cron schedule promises to somebody who only looks at the         *)
(* activations, however many processes drive it and die: an activation is  *)
(* noted no earlier than it is due, a noted one gets exactly one run or is *)
(* called off, and that is its end.  The cursor moves over one activation  *)
(* at a time, a noted one, or to behind one that got its run; it starts    *)
(* from the clock when it is unset or the plan is changed.                 *)
(***************************************************************************)
EXTENDS Naturals

CONSTANT Activations   \* 1, 2, ... in the order in which they are due

VARIABLES
    clock,     \* the last activation that is due
    item,      \* per activation: "none", "queued", "dispatched" or "canceled"
    runs,      \* per activation: the runs made for it
    plan,      \* the expression in force and its switches
    cursor     \* the activation that comes next; 0 when unset

scheduleVars == <<clock, item, runs, plan, cursor>>

ScheduleInit ==
    /\ clock = 0
    /\ item = [s \in Activations |-> "none"]
    /\ runs = [s \in Activations |-> 0]
    /\ cursor = 0

TimePasses ==
    /\ clock' = clock + 1
    /\ UNCHANGED <<item, runs, plan, cursor>>

Note(s) ==
    /\ item[s] = "none" /\ s <= clock
    /\ item' = [item EXCEPT ![s] = "queued"]
    /\ UNCHANGED <<clock, runs, plan, cursor>>

Dispatch(s) ==
    /\ item[s] = "queued"
    /\ item' = [item EXCEPT ![s] = "dispatched"]
    /\ runs' = [runs EXCEPT ![s] = @ + 1]
    /\ UNCHANGED <<clock, plan, cursor>>

\* Some of the queue is called off.
CallOff ==
    /\ \E S \in SUBSET {s \in Activations : item[s] = "queued"} :
         item' = [s \in Activations |-> IF s \in S THEN "canceled" ELSE item[s]]
    /\ UNCHANGED <<clock, runs, plan, cursor>>

\* The cursor leaves an activation that is noted.
Pass ==
    /\ cursor \in Activations /\ item[cursor] # "none"
    /\ cursor' = cursor + 1
    /\ UNCHANGED <<clock, item, runs, plan>>

\* A run that is skipped takes the cursor along, wherever it was before.
SkipOver(s) ==
    /\ item[s] = "dispatched" /\ cursor <= s
    /\ cursor' = s + 1
    /\ UNCHANGED <<clock, item, runs, plan>>

Start ==
    /\ cursor = 0
    /\ cursor' = clock + 1
    /\ UNCHANGED <<clock, item, runs, plan>>

\* A new plan starts over or rests; the queue may go with the old one.
Replan ==
    /\ plan' # plan
    /\ cursor' \in {0, clock + 1}
    /\ item' \in {item, [s \in Activations |-> IF item[s] = "queued" THEN "canceled" ELSE item[s]]}
    /\ UNCHANGED <<clock, runs>>

ScheduleNext ==
    \/ TimePasses \/ CallOff \/ Pass \/ Start \/ Replan
    \/ \E s \in Activations : Note(s) \/ Dispatch(s) \/ SkipOver(s)

ScheduleSpec == ScheduleInit /\ [][ScheduleNext]_scheduleVars
=============================================================================
