---------------------------- MODULE Notification -----------------------------
(***************************************************************************)
(* What an alert's channels and its operators may rely on, however many    *)
(* processes route, escalate and deliver and wherever they die: the alert  *)
(* is decided once; its levels fire one by one while it is open, each with *)
(* its own messages; direct messages are made before the first level only. *)
(* A message is reported sent only after its channel took a copy, and the  *)
(* copies beyond the first are accounted for by mishaps.                   *)
(***************************************************************************)
EXTENDS Naturals

CONSTANT Messages   \* <<0, channel>> is direct, <<n, channel>> belongs to the n-th level fired

VARIABLES
    stage,      \* "none", "open" or "closed"
    decision,   \* "pending" until it is made
    levels,     \* how many levels have fired
    message,    \* per message: "none", "open", "sent" or "failed"
    copies,     \* per message: how often the channel took it
    mishaps     \* per message: answers that were lost and leases that ran out

notificationVars == <<stage, decision, levels, message, copies, mishaps>>

NotificationInit ==
    /\ stage = "none"
    /\ decision = "pending"
    /\ levels = 0
    /\ message = [m \in Messages |-> "none"]
    /\ copies = [m \in Messages |-> 0]
    /\ mishaps = [m \in Messages |-> 0]

Unmade(n) == {m \in Messages : m[1] = n /\ message[m] = "none"}
Make(M) == message' = [m \in Messages |-> IF m \in M THEN "open" ELSE message[m]]

Raise ==
    /\ stage = "none"
    /\ stage' = "open"
    /\ UNCHANGED <<decision, levels, message, copies, mishaps>>

Close ==
    /\ stage = "open"
    /\ stage' = "closed"
    /\ UNCHANGED <<decision, levels, message, copies, mishaps>>

\* The first decision stands; a direct one makes direct messages.
Decide ==
    /\ stage # "none"
    /\ decision = "pending" \/ decision' = decision
    /\ \E M \in SUBSET Unmade(0) :
         /\ M # {} => levels = 0 /\ decision' = "direct"
         /\ Make(M)
    /\ UNCHANGED <<stage, levels, copies, mishaps>>

\* An operator asks for a direct message nobody made.
Ask(m) ==
    /\ stage # "none" /\ levels = 0 /\ decision \in {"pending", "direct"}
    /\ m \in Unmade(0)
    /\ Make({m})
    /\ UNCHANGED <<stage, decision, levels, copies, mishaps>>

FireLevel ==
    /\ stage = "open"
    /\ levels' = levels + 1
    /\ \E M \in SUBSET Unmade(levels + 1) : Make(M)
    /\ UNCHANGED <<stage, decision, copies, mishaps>>

\* The channel takes a copy; its answer may get lost.
Take(m) ==
    /\ message[m] # "none"
    /\ copies' = [copies EXCEPT ![m] = @ + 1]
    /\ mishaps' \in {mishaps, [mishaps EXCEPT ![m] = @ + 1]}
    /\ copies'[m] <= 1 + mishaps'[m]
    /\ UNCHANGED <<stage, decision, levels, message>>

RunOut(m) ==
    /\ message[m] = "open"
    /\ mishaps' = [mishaps EXCEPT ![m] = @ + 1]
    /\ UNCHANGED <<stage, decision, levels, message, copies>>

\* The outcome is reported; only a failure is ever tried again.
Report(m) ==
    /\ \/ message[m] = "open" /\ copies[m] > 0 /\ message' = [message EXCEPT ![m] = "sent"]
       \/ message[m] = "open" /\ message' = [message EXCEPT ![m] = "failed"]
       \/ message[m] = "failed" /\ message' = [message EXCEPT ![m] = "open"]
    /\ UNCHANGED <<stage, decision, levels, copies, mishaps>>

NotificationNext ==
    \/ Raise \/ Close \/ Decide \/ FireLevel
    \/ \E m \in Messages : Ask(m) \/ Take(m) \/ RunOut(m) \/ Report(m)

NotificationSpec == NotificationInit /\ [][NotificationNext]_notificationVars
=============================================================================
