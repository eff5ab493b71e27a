----------------------- MODULE CronOccurrences_proofs -----------------------
(***************************************************************************)
(* Proofs about CronOccurrences for any number of cores, activations,      *)
(* operator requests and faults.  The inductive invariant says, besides    *)
(* types and the agreement of occurrences with runs, that whoever is about *)
(* to move the cursor from an activation has seen its occurrence recorded. *)
(***************************************************************************)
EXTENDS CronOccurrences, TLAPS

\* Local state of dispatches, scheduler entries and syncs.
LocalInv ==
    /\ \A c \in Cores, k \in Kinds :
         /\ job[c][k].pc # "idle" => job[c][k].slot \in Slots
         /\ job[c][k].pc = "advance" => occ[job[c][k].slot].state # "none"
    /\ \A c \in Cores :
         /\ reg[c].spec # NoSpec => reg[c].at # 0
         /\ sync[c].pc \in {"record", "advance"} => sync[c].due \in Slots
         /\ sync[c].pc = "advance" => occ[sync[c].due].state # "none"

IInv == TypeOK /\ LocalInv /\ OneRunPerActivation

\* What steps do to occurrences: none disappears, and none becomes or stops
\* being dispatched.
Grows ==
    /\ occ' \in [Slots -> OccurrenceRows]
    /\ \A s \in Slots : /\ occ[s].state # "none" => occ'[s].state # "none"
                        /\ occ'[s].state = "dispatched" <=> occ[s].state = "dispatched"

LEMMA Sorts ==
    /\ Slots \subseteq 0..MaxSlot /\ Slots \subseteq Cursors /\ 0 \in Cursors /\ 0 \notin Slots
    /\ \A s \in Slots : s + 1 \in Cursors
    /\ \A n \in 0..MaxSlot : n + 1 \in Cursors /\ n + 1 # 0
    /\ \A n \in Cursors, m \in 0..MaxSlot : n # 0 /\ n <= m => n \in Slots
    /\ NoJob \in Jobs /\ NoRun \in Runs /\ NoEntry \in Entries /\ NoSync \in Syncs
BY CronAssumption DEF Slots, Cursors, NoJob, NoRun, NoEntry, NoSync, Jobs, Runs, Entries, Syncs, JobPcs, SyncPcs

LEMMA SameGrows == ASSUME IInv, occ' = occ PROVE Grows
BY DEF IInv, TypeOK, Grows

LEMMA RecordedGrows ==
    ASSUME IInv, NEW s \in Slots, occ' = Recorded(s) PROVE Grows /\ occ'[s].state # "none"
BY DEF IInv, TypeOK, Grows, Recorded, OccurrenceRows

\* One occurrence changes hands, or a queued one is canceled.
LEMMA RowGrows ==
    ASSUME IInv, NEW s \in Slots, NEW row \in OccurrenceRows, occ' = [occ EXCEPT ![s] = row],
           row.state = occ[s].state \/ (occ[s].state = "queued" /\ row.state = "canceled")
    PROVE  Grows
<1>1. occ \in [Slots -> OccurrenceRows] BY DEF IInv, TypeOK
<1>2. occ' \in [Slots -> OccurrenceRows] BY <1>1
<1>3. \A x \in Slots : occ'[x] = IF x = s THEN row ELSE occ[x] BY <1>1
<1> QED BY <1>2, <1>3 DEF Grows

\* The lease of an occurrence is taken or given back.
LEMMA LeaseGrows ==
    ASSUME IInv, NEW s \in Slots, NEW o \in Cores \cup {NoCore, Dead}, NEW b \in BOOLEAN,
           occ' = [occ EXCEPT ![s].owner = o, ![s].live = b]
    PROVE  Grows /\ \A x \in Slots : occ'[x].state = occ[x].state
<1>1. occ \in [Slots -> OccurrenceRows] BY DEF IInv, TypeOK
<1> DEFINE row == [occ[s] EXCEPT !.owner = o, !.live = b]
<1>2. row \in OccurrenceRows /\ row.state = occ[s].state BY <1>1 DEF OccurrenceRows
<1>3. occ' = [x \in Slots |-> IF x = s THEN row ELSE occ[x]] BY <1>1
<1> HIDE DEF row
<1>4. occ' \in [Slots -> OccurrenceRows] BY <1>1, <1>2, <1>3
<1> QED BY <1>2, <1>3, <1>4 DEF Grows

LEMMA CanceledGrows == ASSUME IInv, occ' = CanceledQueue PROVE Grows
BY DEF IInv, TypeOK, Grows, CanceledQueue, OccurrenceRows

\* The three parts of the invariant, from what a step does to each variable.
LEMMA KeepOneRun == ASSUME IInv, Grows, made' = made PROVE OneRunPerActivation'
BY DEF IInv, Grows, OneRunPerActivation

JobsFit ==
    /\ job' \in [Cores -> [Kinds -> Jobs]]
    /\ \A c \in Cores, k \in Kinds :
         /\ job'[c][k].pc # "idle" => job'[c][k].slot \in Slots
         /\ job'[c][k].pc = "advance" => occ'[job'[c][k].slot].state # "none"
EntriesFit ==
    /\ reg' \in [Cores -> Entries]
    /\ \A c \in Cores : reg'[c].spec # NoSpec => reg'[c].at # 0
SyncsFit ==
    /\ sync' \in [Cores -> Syncs]
    /\ \A c \in Cores :
         /\ sync'[c].pc \in {"record", "advance"} => sync'[c].due \in Slots
         /\ sync'[c].pc = "advance" => occ'[sync'[c].due].state # "none"

LEMMA SameJobs == ASSUME IInv, Grows, job' = job PROVE JobsFit
BY DEF IInv, TypeOK, LocalInv, Grows, JobsFit

LEMMA SameEntries == ASSUME IInv, reg' = reg PROVE EntriesFit
BY DEF IInv, TypeOK, LocalInv, EntriesFit

LEMMA SameSyncs == ASSUME IInv, Grows, sync' = sync PROVE SyncsFit
BY DEF IInv, TypeOK, LocalInv, Grows, SyncsFit

\* One dispatch moves on or ends.
LEMMA JobMoves ==
    ASSUME IInv, Grows, NEW c \in Cores, NEW k \in Kinds, job[c][k].pc # "idle",
           \/ End(c, k)
           \/ \E to \in JobPcs \ {"advance"} : Goto(c, k, to)
           \/ Goto(c, k, "advance") /\ occ'[job[c][k].slot].state # "none"
    PROVE  JobsFit
<1>1. /\ job \in [Cores -> [Kinds -> Jobs]]
      /\ \A d \in Cores, l \in Kinds : job[d][l] \in Jobs
  BY DEF IInv, TypeOK
<1>2. job[c][k].slot \in Slots BY DEF IInv, LocalInv
<1>3. ASSUME NEW v \in Jobs, job' = [job EXCEPT ![c][k] = v],
             v.pc # "idle" => v.slot \in Slots,
             v.pc = "advance" => occ'[v.slot].state # "none"
      PROVE  JobsFit
  <2>1. job' \in [Cores -> [Kinds -> Jobs]] BY <1>1, <1>3
  <2>2. \A d \in Cores, l \in Kinds : job'[d][l] = job[d][l] \/ job'[d][l] = v BY <1>1, <1>3
  <2>3. SUFFICES ASSUME NEW d \in Cores, NEW l \in Kinds
                 PROVE  /\ job'[d][l].pc # "idle" => job'[d][l].slot \in Slots
                        /\ job'[d][l].pc = "advance" => occ'[job'[d][l].slot].state # "none"
    BY <2>1 DEF JobsFit
  <2> QED BY <1>3, <2>2 DEF IInv, LocalInv, Grows
<1>4. CASE End(c, k) BY <1>3, <1>4, Sorts DEF End, NoJob
<1>5. ASSUME NEW to \in JobPcs, Goto(c, k, to), to = "advance" => occ'[job[c][k].slot].state # "none"
      PROVE  JobsFit
  <2> DEFINE v == [job[c][k] EXCEPT !.pc = to]
  <2>1. v \in Jobs /\ v.pc = to /\ v.slot = job[c][k].slot BY <1>1 DEF Jobs
  <2>2. job' = [job EXCEPT ![c][k] = v] BY <1>1, <1>5 DEF Goto
  <2> QED BY <1>2, <1>3, <1>5, <2>1, <2>2
<1> QED BY <1>4, <1>5 DEF JobPcs

\* The variables a step leaves alone or changes within their types.
Rest ==
    /\ now' \in 0..MaxSlot /\ task' \in TaskRows
    /\ made' \in [Slots -> Nat] /\ run' \in Runs
    /\ admit' \in [Cores -> Kinds \cup {"free", "run"}]
    /\ page' \in [Cores -> SUBSET Slots]
    /\ pausing' \in [Cores -> {"no", "yes", "retrying"}]
    /\ ops' \in 0..MaxOps /\ faults' \in 0..MaxFaults

LEMMA Assemble ==
    ASSUME IInv, Rest, occ' \in [Slots -> OccurrenceRows], JobsFit, EntriesFit, SyncsFit, OneRunPerActivation'
    PROVE  IInv'
BY DEF IInv, Rest, JobsFit, EntriesFit, SyncsFit, TypeOK, LocalInv

LEMMA FaultType == ASSUME IInv, NEW f, Fault(f) PROVE faults' \in 0..MaxFaults
BY CronAssumption DEF IInv, TypeOK, Fault

LEMMA OperatorType == ASSUME IInv, Operator PROVE ops' \in 0..MaxOps
BY CronAssumption DEF IInv, TypeOK, Operator


LEMMA Quiet ==
    ASSUME IInv, Grows, made' = made, Rest, JobsFit, EntriesFit, SyncsFit PROVE IInv'
BY Assemble, KeepOneRun DEF Grows

LEMMA EntryMoves ==
    ASSUME IInv, NEW c \in Cores, NEW g \in Specs \cup {NoSpec}, NEW n \in Cursors,
           reg' \in {reg, Registered(c, g, n), [reg EXCEPT ![c] = NoEntry]}
    PROVE  EntriesFit
<1>1. /\ reg \in [Cores -> Entries] /\ now + 1 \in Cursors /\ now + 1 # 0
      /\ \A d \in Cores : reg[d].spec # NoSpec => reg[d].at # 0
  BY Sorts DEF IInv, TypeOK, LocalInv
<1> DEFINE v == [spec |-> g, at |-> IF n = 0 THEN now + 1 ELSE n]
<1>2. v \in Entries /\ v.at # 0 BY <1>1 DEF Entries
<1>3. reg' = reg \/ reg' = [reg EXCEPT ![c] = NoEntry] \/ reg' = [reg EXCEPT ![c] = v]
  BY DEF Registered
<1> HIDE DEF v
<1>4. CASE reg' = reg BY <1>1, <1>4 DEF EntriesFit
<1>5. CASE reg' = [reg EXCEPT ![c] = NoEntry] BY <1>1, <1>5, Sorts DEF EntriesFit, NoEntry
<1>6. CASE reg' = [reg EXCEPT ![c] = v] BY <1>1, <1>2, <1>6 DEF EntriesFit
<1> QED BY <1>3, <1>4, <1>5, <1>6

LEMMA SyncMoves ==
    ASSUME IInv, Grows, NEW c \in Cores, NEW v \in Syncs, sync' = [sync EXCEPT ![c] = v],
           v.pc \in {"record", "advance"} => v.due \in Slots,
           v.pc = "advance" => occ'[v.due].state # "none"
    PROVE  SyncsFit
<1>1. sync \in [Cores -> Syncs] BY DEF IInv, TypeOK
<1>2. sync' \in [Cores -> Syncs] BY <1>1
<1>3. \A d \in Cores : sync'[d] = sync[d] \/ sync'[d] = v BY <1>1
<1>4. SUFFICES ASSUME NEW d \in Cores
               PROVE  /\ sync'[d].pc \in {"record", "advance"} => sync'[d].due \in Slots
                      /\ sync'[d].pc = "advance" => occ'[sync'[d].due].state # "none"
  BY <1>2 DEF SyncsFit
<1> QED BY <1>3 DEF IInv, LocalInv, Grows

LEMMA SyncEnds == ASSUME IInv, Grows, NEW c \in Cores, SyncEnd(c) PROVE SyncsFit
BY SyncMoves, Sorts DEF SyncEnd, NoSync

\* The cursor after a compare-and-set.
LEMMA AdvanceType ==
    ASSUME IInv, NEW g, NEW s \in Slots PROVE Advance(g, s) \in TaskRows
BY Sorts DEF IInv, TypeOK, Advance, TaskRows

\* Steps of a dispatch.
LEMMA DispatchSteps ==
    ASSUME IInv, NEW c \in Cores, NEW k \in Kinds,
           AdvanceCursor(c, k) \/ Claim(c, k) \/ LoadTask(c, k) \/ SettleOccurrence(c, k) \/ Release(c, k)
    PROVE  IInv'
<1>1. /\ job[c][k].pc # "idle" /\ UNCHANGED <<now, made, run, reg, page, sync, pausing, ops, faults>>
      /\ job[c][k].slot \in Slots
  BY DEF AdvanceCursor, Claim, LoadTask, SettleOccurrence, Release, At, IInv, LocalInv
<1> DEFINE s == job[c][k].slot
<1> DEFINE Shape ==
    /\ Grows
    /\ task' \in TaskRows /\ admit' \in [Cores -> Kinds \cup {"free", "run"}]
    /\ End(c, k) \/ \E to \in JobPcs \ {"advance"} : Goto(c, k, to)
<1>2. ASSUME AdvanceCursor(c, k) PROVE Shape
  <2>1. task' \in TaskRows BY <1>1, <1>2, AdvanceType DEF AdvanceCursor
  <2>2. Goto(c, k, "claim") /\ UNCHANGED <<occ, admit>> BY <1>2 DEF AdvanceCursor
  <2> QED BY <2>1, <2>2, SameGrows DEF JobPcs, IInv, TypeOK
<1>3. ASSUME Claim(c, k) PROVE Shape
  <2>1. CASE occ' = [occ EXCEPT ![s].owner = c, ![s].live = TRUE] /\ admit' = [admit EXCEPT ![c] = k] /\ Goto(c, k, "load")
    <3>1. Grows BY <1>1, <2>1, LeaseGrows
    <3> QED BY <1>3, <2>1, <3>1 DEF Claim, JobPcs, IInv, TypeOK
  <2>2. CASE End(c, k) /\ UNCHANGED <<occ, admit>>
    BY <1>3, <2>2, SameGrows DEF Claim, IInv, TypeOK
  <2> QED BY <1>3, <2>1, <2>2 DEF Claim
<1>4. ASSUME LoadTask(c, k) PROVE Shape
  <2>1. UNCHANGED <<task, occ>> /\ (UNCHANGED admit \/ admit' = [admit EXCEPT ![c] = "free"])
    BY <1>4 DEF LoadTask, GiveUp
  <2>2. Goto(c, k, "cancel") \/ Goto(c, k, "release") \/ Goto(c, k, "reserve")
    BY <1>4 DEF LoadTask, GiveUp
  <2> QED BY <2>1, <2>2, SameGrows DEF JobPcs, IInv, TypeOK
<1>5. ASSUME SettleOccurrence(c, k) PROVE Shape
  <2> DEFINE row == [state |-> "canceled", owner |-> NoCore, live |-> FALSE]
  <2>0. row \in OccurrenceRows /\ row.state = "canceled" BY DEF OccurrenceRows
  <2>1. Grows
    <3>1. CASE occ[s].state = "queued"
      <4>1. occ' = [occ EXCEPT ![s] = row] BY <1>5, <3>1 DEF SettleOccurrence
      <4> QED BY <1>1, <2>0, <3>1, <4>1, RowGrows
    <3>2. CASE occ[s].state # "queued" BY <1>5, <3>2, SameGrows DEF SettleOccurrence
    <3> QED BY <3>1, <3>2
  <2>2. UNCHANGED task /\ admit' = [admit EXCEPT ![c] = "free"] /\ Goto(c, k, "release")
    BY <1>5 DEF SettleOccurrence, GiveUp
  <2> QED BY <2>1, <2>2 DEF JobPcs, IInv, TypeOK
<1>6. ASSUME Release(c, k) PROVE Shape
  <2>1. Grows
    <3>1. CASE Mine(c, s)
      <4>1. occ' = [occ EXCEPT ![s].owner = NoCore, ![s].live = FALSE] BY <1>6, <3>1 DEF Release
      <4> QED BY <1>1, <4>1, LeaseGrows
    <3>2. CASE ~Mine(c, s) BY <1>6, <3>2, SameGrows DEF Release
    <3> QED BY <3>1, <3>2
  <2>2. UNCHANGED <<task, admit>> /\ End(c, k) BY <1>6 DEF Release
  <2> QED BY <2>1, <2>2 DEF IInv, TypeOK
<1>7. Shape BY <1>2, <1>3, <1>4, <1>5, <1>6
<1>8. Rest BY <1>1, <1>7 DEF Rest, IInv, TypeOK
<1>9. JobsFit /\ EntriesFit /\ SyncsFit BY <1>1, <1>7, JobMoves, SameEntries, SameSyncs
<1> QED BY <1>1, <1>7, <1>8, <1>9, Quiet

\* The one step that creates a run.
LEMMA ReserveStep == ASSUME IInv, NEW c \in Cores, NEW k \in Kinds, Reserve(c, k) PROVE IInv'
<1>1. /\ job[c][k].pc # "idle" /\ UNCHANGED <<now, task, reg, page, sync, pausing, ops>>
      /\ job[c][k].slot \in Slots /\ job[c][k].pc # "advance"
  BY DEF Reserve, At, IInv, LocalInv
<1> DEFINE s == job[c][k].slot
<1>2. CASE /\ Reservable(s) /\ Mine(c, s) /\ occ' = Dispatched(s) /\ made' = [made EXCEPT ![s] = @ + 1]
           /\ run' = [st |-> "pending", slot |-> s, core |-> c]
           /\ admit' = [admit EXCEPT ![c] = "run"] /\ End(c, k) /\ UNCHANGED faults
  <2>1. occ' \in [Slots -> OccurrenceRows] /\ occ'[s].state = "dispatched"
        /\ \A t \in Slots \ {s} : occ'[t] = occ[t]
    BY <1>1, <1>2 DEF IInv, TypeOK, Dispatched, OccurrenceRows
  <2>2. made' \in [Slots -> Nat] /\ made'[s] = 1 /\ \A t \in Slots \ {s} : made'[t] = made[t]
    BY <1>1, <1>2 DEF IInv, TypeOK, Reservable
  <2>3. OneRunPerActivation' BY <2>1, <2>2 DEF IInv, OneRunPerActivation
  <2>4. Rest
    <3>1. run' \in Runs BY <1>1, <1>2, Sorts DEF Runs
    <3>2. admit' \in [Cores -> Kinds \cup {"free", "run"}] BY <1>2 DEF IInv, TypeOK
    <3> QED BY <1>1, <1>2, <2>2, <3>1, <3>2 DEF Rest, IInv, TypeOK
  <2>5. \A t \in Slots : occ[t].state # "none" => occ'[t].state # "none" BY <2>1
  <2>6. JobsFit
    <3>1. /\ job \in [Cores -> [Kinds -> Jobs]] /\ job' = [job EXCEPT ![c][k] = NoJob]
      BY <1>2 DEF IInv, TypeOK, End
    <3>2. job' \in [Cores -> [Kinds -> Jobs]] BY <3>1, Sorts
    <3>3. \A d \in Cores, l \in Kinds : job'[d][l] = job[d][l] \/ job'[d][l] = NoJob BY <3>1
    <3>4. SUFFICES ASSUME NEW d \in Cores, NEW l \in Kinds
                   PROVE  /\ job'[d][l].pc # "idle" => job'[d][l].slot \in Slots
                          /\ job'[d][l].pc = "advance" => occ'[job'[d][l].slot].state # "none"
      BY <3>2 DEF JobsFit
    <3> QED BY <2>5, <3>3 DEF IInv, LocalInv, NoJob
  <2>7. SyncsFit BY <1>1, <2>5 DEF SyncsFit, IInv, TypeOK, LocalInv
  <2>8. EntriesFit BY <1>1, SameEntries
  <2> QED BY <2>1, <2>3, <2>4, <2>6, <2>7, <2>8, Assemble
<1>3. CASE GiveUp(c, k) /\ UNCHANGED <<occ, made, run>> /\ (UNCHANGED faults \/ Fault("refuse"))
  <2>1. Grows BY <1>3, SameGrows
  <2>2. faults' \in 0..MaxFaults BY <1>3, FaultType DEF IInv, TypeOK
  <2>3. admit' = [admit EXCEPT ![c] = "free"] /\ Goto(c, k, "release") BY <1>3 DEF GiveUp
  <2>4. Rest BY <1>1, <1>3, <2>2, <2>3 DEF Rest, IInv, TypeOK
  <2>5. JobsFit /\ EntriesFit /\ SyncsFit
    BY <1>1, <2>1, <2>3, JobMoves, SameEntries, SameSyncs DEF JobPcs
  <2> QED BY <1>3, <2>1, <2>4, <2>5, Quiet
<1> QED BY <1>2, <1>3 DEF Reserve

\* A dispatch starts: by the scheduler or by the drain.
LEMMA JobStarts ==
    ASSUME IInv, Grows, NEW c \in Cores, NEW k \in Kinds, NEW v \in Jobs, job' = [job EXCEPT ![c][k] = v],
           v.slot \in Slots, v.pc = "advance" => occ[v.slot].state # "none"
    PROVE  JobsFit
<1>1. job \in [Cores -> [Kinds -> Jobs]] BY DEF IInv, TypeOK
<1>2. job' \in [Cores -> [Kinds -> Jobs]] BY <1>1
<1>3. \A d \in Cores, l \in Kinds : job'[d][l] = job[d][l] \/ job'[d][l] = v BY <1>1
<1>4. SUFFICES ASSUME NEW d \in Cores, NEW l \in Kinds
               PROVE  /\ job'[d][l].pc # "idle" => job'[d][l].slot \in Slots
                      /\ job'[d][l].pc = "advance" => occ'[job'[d][l].slot].state # "none"
  BY <1>2 DEF JobsFit
<1> QED BY <1>3 DEF IInv, LocalInv, Grows

LEMMA TickStep == ASSUME IInv, NEW c \in Cores, Tick(c) PROVE IInv'
<1> DEFINE v == [pc |-> "ensure", slot |-> reg[c].at, spec |-> reg[c].spec]
<1>1. /\ reg \in [Cores -> Entries] /\ reg[c].spec # NoSpec /\ reg[c].at <= now /\ reg[c].at # 0
      /\ now \in 0..MaxSlot /\ reg[c].at \in Cursors /\ reg[c].spec \in Specs \cup {NoSpec}
  BY DEF Tick, IInv, TypeOK, LocalInv, Entries
<1>2. reg[c].at \in Slots BY <1>1, Sorts
<1>3. v \in Jobs BY <1>1, <1>2, Sorts DEF Jobs, JobPcs
<1>4. job' = [job EXCEPT ![c]["tick"] = v] /\ reg' = [reg EXCEPT ![c].at = @ + 1] BY DEF Tick
<1>5. Grows BY SameGrows DEF Tick
<1>6. JobsFit
  <2>1. v.slot \in Slots /\ v.pc # "advance" BY <1>2
  <2> QED BY <1>3, <1>4, <1>5, <2>1, JobStarts DEF Kinds
<1>7. EntriesFit
  <2>1. reg[c].at + 1 \in Cursors /\ reg[c].at + 1 # 0 BY <1>2, Sorts
  <2>2. [reg[c] EXCEPT !.at = reg[c].at + 1] \in Entries BY <1>1, <2>1 DEF Entries
  <2>3. reg' \in [Cores -> Entries] BY <1>1, <1>4, <2>2
  <2>4. reg'[c].at # 0 /\ \A d \in Cores \ {c} : reg'[d] = reg[d] BY <1>1, <1>4, <2>1 DEF Entries
  <2> QED BY <2>3, <2>4 DEF EntriesFit, IInv, LocalInv
<1>8. SyncsFit BY <1>5, SameSyncs DEF Tick
<1>9. Rest BY DEF Tick, Rest, IInv, TypeOK
<1> QED BY <1>5, <1>6, <1>7, <1>8, <1>9, Quiet DEF Tick

LEMMA DrainSteps == ASSUME IInv, NEW c \in Cores, DrainPage(c) \/ DrainNext(c) PROVE IInv'
<1>1. UNCHANGED <<now, task, occ, made, run, reg, admit, sync, pausing, ops, faults>>
  BY DEF DrainPage, DrainNext
<1>2. Grows BY <1>1, SameGrows
<1>3. page' \in [Cores -> SUBSET Slots] BY DEF DrainPage, DrainNext, IInv, TypeOK
<1>4. Rest BY <1>1, <1>3 DEF Rest, IInv, TypeOK
<1>5. JobsFit
  <2>1. CASE job' = job BY <1>2, <2>1, SameJobs
  <2>2. CASE job' # job
    <3>1. PICK s \in page[c] : /\ occ[s].state = "queued"
                               /\ job' = [job EXCEPT ![c]["drain"] = [pc |-> "advance", slot |-> s, spec |-> NoSpec]]
      BY <2>2 DEF DrainPage, DrainNext
    <3> DEFINE v == [pc |-> "advance", slot |-> s, spec |-> NoSpec]
    <3>2. s \in Slots BY DEF IInv, TypeOK
    <3>3. v \in Jobs /\ v.slot = s /\ v.pc = "advance" BY <3>2, Sorts DEF Jobs, JobPcs
    <3> QED BY <1>2, <3>1, <3>2, <3>3, JobStarts DEF Kinds
  <2> QED BY <2>1, <2>2
<1> QED BY <1>1, <1>2, <1>4, <1>5, SameEntries, SameSyncs, Quiet

LEMMA EnsureStep == ASSUME IInv, NEW c \in Cores, Ensure(c) PROVE IInv'
<1>1. /\ job[c]["tick"].pc # "idle" /\ UNCHANGED <<now, task, made, run, reg, admit, page, sync, pausing, ops>>
      /\ job[c]["tick"].slot \in Slots /\ "tick" \in Kinds
  BY DEF Ensure, At, IInv, LocalInv, Kinds
<1> DEFINE s == job[c]["tick"].slot
<1>2. \/ occ' = Recorded(s) /\ (Goto(c, "tick", "advance") \/ End(c, "tick")) /\ UNCHANGED faults
      \/ occ' = occ /\ End(c, "tick") /\ (UNCHANGED faults \/ Fault("db"))
  BY DEF Ensure
<1>3. Grows BY <1>1, <1>2, SameGrows, RecordedGrows
<1>4. JobsFit
  <2>1. CASE End(c, "tick") BY <1>1, <1>3, <2>1, JobMoves
  <2>2. CASE occ' = Recorded(s) /\ Goto(c, "tick", "advance") BY <1>1, <1>3, <2>2, JobMoves, RecordedGrows
  <2> QED BY <1>2, <2>1, <2>2
<1>5. faults' \in 0..MaxFaults BY <1>2, FaultType DEF IInv, TypeOK
<1>6. Rest BY <1>1, <1>5 DEF Rest, IInv, TypeOK
<1> QED BY <1>1, <1>3, <1>4, <1>6, SameEntries, SameSyncs, Quiet

LEMMA LapseStep == ASSUME IInv, NEW s \in Slots, LeaseLapses(s) PROVE IInv'
<1>1. Grows BY DEF LeaseLapses, IInv, TypeOK, OccurrenceRows, Grows
<1>2. faults' \in 0..MaxFaults BY FaultType DEF LeaseLapses, IInv, TypeOK
<1>3. Rest BY <1>2 DEF LeaseLapses, Rest, IInv, TypeOK
<1> QED BY <1>1, <1>3, SameJobs, SameEntries, SameSyncs, Quiet DEF LeaseLapses

\* Steps of the run and of operators: occurrences are left alone or canceled,
\* nothing local moves but scheduler entries.
LEMMA CalmStep ==
    ASSUME IInv, occ' = occ \/ occ' = CanceledQueue, Rest, EntriesFit, UNCHANGED <<made, job, sync>>
    PROVE  IInv'
<1>1. Grows BY SameGrows, CanceledGrows
<1> QED BY <1>1, SameJobs, SameSyncs, Quiet

LEMMA VacatedType == ASSUME IInv PROVE Vacated \in [Cores -> Kinds \cup {"free", "run"}]
BY DEF IInv, TypeOK, Vacated

LEMMA RunSteps == ASSUME IInv, Enter \/ RunEnds \/ RetryEnds PROVE IInv'
<1>1. UNCHANGED <<now, occ, made, reg, job, page, sync, pausing, ops>> BY DEF Enter, RunEnds, RetryEnds
<1>2. \A st \in {"idle", "retrying"} : Ended(st) \in TaskRows BY Sorts DEF Ended, IInv, TypeOK, TaskRows
<1>3. task' \in TaskRows
  <2>1. CASE Enter
    <3>1. task \in TaskRows /\ run.slot + 1 \in Cursors BY Sorts DEF IInv, TypeOK, Runs
    <3> DEFINE n == IF task.next <= run.slot THEN run.slot + 1 ELSE task.next
    <3>2. n \in Cursors BY <3>1 DEF TaskRows
    <3>3. \/ task' = task \/ task' = [task EXCEPT !.status = "running"]
          \/ task' = [task EXCEPT !.skip = FALSE, !.next = n]
      BY <2>1 DEF Enter
    <3> HIDE DEF n
    <3> QED BY <3>1, <3>2, <3>3 DEF TaskRows
  <2>2. CASE RunEnds BY <1>2, <2>2 DEF RunEnds, IInv, TypeOK
  <2>3. CASE RetryEnds BY <1>2, <2>3 DEF RetryEnds
  <2> QED BY <2>1, <2>2, <2>3
<1>4. run' \in Runs BY Sorts DEF Enter, RunEnds, RetryEnds, IInv, TypeOK, Runs
<1>5. admit' \in [Cores -> Kinds \cup {"free", "run"}]
  BY VacatedType DEF Enter, RunEnds, RetryEnds, IInv, TypeOK
<1>6. faults' \in 0..MaxFaults BY FaultType DEF Enter, RunEnds, RetryEnds, IInv, TypeOK
<1>7. Rest BY <1>1, <1>3, <1>4, <1>5, <1>6 DEF Rest, IInv, TypeOK
<1> QED BY <1>1, <1>7, CalmStep, SameEntries

LEMMA Successor == \A n \in 0..MaxSlot : n < MaxSlot => n + 1 \in 0..MaxSlot
BY CronAssumption

LEMMA OperatorSteps ==
    ASSUME IInv,
           \/ \E c \in Cores : Pause(c) \/ PauseCancels(c)
           \/ Resume \/ SetSkipNext \/ DisablePolicy \/ EnablePolicy \/ CancelOccurrences
           \/ \E g \in Specs \cup {NoSpec} : EditSpec(g)
           \/ Clock
    PROVE  IInv'
<1> USE DEF Resume, SetSkipNext, DisablePolicy, EnablePolicy, CancelOccurrences, EditSpec, Clock
<1>1. UNCHANGED <<made, job, sync, page, faults>> /\ (occ' = occ \/ occ' = CanceledQueue)
  BY DEF Pause, PauseCancels
<1>2. ops' \in 0..MaxOps BY OperatorType DEF Pause, PauseCancels, IInv, TypeOK
<1>3. now' \in 0..MaxSlot
  <2>1. now' = now \/ (now < MaxSlot /\ now' = now + 1) BY DEF Pause, PauseCancels
  <2>2. now \in 0..MaxSlot BY DEF IInv, TypeOK
  <2> QED BY <2>1, <2>2, Successor
<1>4. task' \in TaskRows
  <2>1. task \in TaskRows /\ 0 \in Cursors /\ now + 1 \in Cursors BY Sorts DEF IInv, TypeOK
  <2>2. CASE \E c \in Cores : Pause(c) \/ PauseCancels(c)
    <3>1. \/ task' = [task EXCEPT !.enabled = FALSE, !.skip = FALSE, !.next = 0]
          \/ task' = [task EXCEPT !.status = "idle"]
          \/ task' = task
      BY <2>2 DEF Pause, PauseCancels
    <3> QED BY <2>1, <3>1 DEF TaskRows
  <2>3. CASE Resume \/ SetSkipNext \/ DisablePolicy \/ EnablePolicy BY <2>1, <2>3 DEF TaskRows
  <2>4. CASE \E g \in Specs \cup {NoSpec} : EditSpec(g) BY <2>1, <2>4 DEF TaskRows
  <2>5. CASE CancelOccurrences \/ Clock BY <2>1, <2>5
  <2> QED BY <2>2, <2>3, <2>4, <2>5
<1>5. run' \in Runs BY Sorts DEF Pause, PauseCancels, IInv, TypeOK
<1>6. admit' \in [Cores -> Kinds \cup {"free", "run"}]
  BY VacatedType DEF Pause, PauseCancels, IInv, TypeOK
<1>7. pausing' \in [Cores -> {"no", "yes", "retrying"}]
  <2>1. pausing \in [Cores -> {"no", "yes", "retrying"}] BY DEF IInv, TypeOK
  <2>2. \/ pausing' = pausing
        \/ \E c \in Cores, x \in {"no", "yes", "retrying"} : pausing' = [pausing EXCEPT ![c] = x]
    BY DEF Pause, PauseCancels
  <2> QED BY <2>1, <2>2
<1>8. Rest BY <1>1, <1>2, <1>3, <1>4, <1>5, <1>6, <1>7 DEF Rest, IInv, TypeOK
<1>9. EntriesFit
  <2>1. CASE reg' = reg BY <2>1, SameEntries
  <2>2. CASE \E c \in Cores : reg' = [reg EXCEPT ![c] = NoEntry] BY <2>2, EntryMoves, Sorts
  <2> QED BY <2>1, <2>2 DEF Pause, PauseCancels
<1> QED BY <1>1, <1>8, <1>9, CalmStep

LEMMA CrashStep == ASSUME IInv, NEW c \in Cores, Crash(c) PROVE IInv'
<1> USE DEF Crash
<1>1. Grows
  <2>1. occ \in [Slots -> OccurrenceRows] BY DEF IInv, TypeOK
  <2>2. \A s \in Slots : [occ[s] EXCEPT !.owner = Dead] \in OccurrenceRows
    BY <2>1 DEF OccurrenceRows
  <2>3. \A s \in Slots : [occ[s] EXCEPT !.owner = Dead].state = occ[s].state
    BY <2>1 DEF OccurrenceRows
  <2>4. occ' \in [Slots -> OccurrenceRows] BY <2>1, <2>2
  <2> QED BY <2>3, <2>4 DEF Grows
<1>2. JobsFit
  <2>1. /\ job \in [Cores -> [Kinds -> Jobs]] /\ job' = [job EXCEPT ![c] = [k \in Kinds |-> NoJob]]
    BY DEF IInv, TypeOK
  <2>2. job' \in [Cores -> [Kinds -> Jobs]] BY <2>1, Sorts
  <2>3. \A d \in Cores, l \in Kinds : job'[d][l] = job[d][l] \/ job'[d][l] = NoJob BY <2>1
  <2>4. SUFFICES ASSUME NEW d \in Cores, NEW l \in Kinds
                 PROVE  /\ job'[d][l].pc # "idle" => job'[d][l].slot \in Slots
                        /\ job'[d][l].pc = "advance" => occ'[job'[d][l].slot].state # "none"
    BY <2>2 DEF JobsFit
  <2> QED BY <1>1, <2>3 DEF IInv, LocalInv, Grows, NoJob
<1>3. EntriesFit BY EntryMoves, Sorts
<1>4. SyncsFit BY <1>1, SyncMoves, Sorts DEF NoSync
<1>5. Rest
  <2>1. faults' \in 0..MaxFaults BY FaultType
  <2>2. admit' \in [Cores -> Kinds \cup {"free", "run"}] BY DEF IInv, TypeOK
  <2>3. page' \in [Cores -> SUBSET Slots] BY DEF IInv, TypeOK
  <2>4. pausing' \in [Cores -> {"no", "yes", "retrying"}] BY DEF IInv, TypeOK
  <2> QED BY <2>1, <2>2, <2>3, <2>4 DEF Rest, IInv, TypeOK
<1> QED BY <1>1, <1>2, <1>3, <1>4, <1>5, Quiet

\* Reconciliation.
LEMMA SyncSteps == ASSUME IInv, NEW c \in Cores, SyncStep(c) PROVE IInv'
<1>1. UNCHANGED <<now, made, run, job, admit, page, pausing, ops>>
  BY DEF SyncStep, SyncRead, SyncInit, SyncRecord, SyncAdvance
<1>2. /\ sync[c] \in Syncs /\ sync[c].due \in Cursors /\ sync[c].spec \in Specs \cup {NoSpec}
      /\ task \in TaskRows /\ task.next \in Cursors /\ task.spec \in Specs \cup {NoSpec}
      /\ now \in 0..MaxSlot /\ now + 1 \in Cursors
      /\ sync[c].pc \in {"record", "advance"} => sync[c].due \in Slots
  BY Sorts DEF IInv, TypeOK, Syncs, TaskRows, LocalInv
<1> DEFINE Shape == Grows /\ task' \in TaskRows /\ EntriesFit /\ SyncsFit /\ faults' \in 0..MaxFaults
<1>3. ASSUME SyncAgain(c), Grows PROVE EntriesFit /\ SyncsFit
  BY <1>2, <1>3, EntryMoves, SyncEnds DEF SyncAgain
<1>4. ASSUME SyncRead(c) PROVE Shape
  <2>1. Grows /\ task' \in TaskRows /\ faults' \in 0..MaxFaults
    BY <1>2, <1>4, SameGrows DEF SyncRead, IInv, TypeOK
  <2>2. reg' \in {reg, Registered(c, task.spec, task.next), [reg EXCEPT ![c] = NoEntry]}
    BY <1>4 DEF SyncRead
  <2>3. EntriesFit BY <1>2, <2>2, EntryMoves
  <2>4. CASE sync' = sync BY <2>1, <2>3, <2>4, SameSyncs
  <2>5. CASE sync' # sync
    <3> DEFINE v == [pc |-> IF task.next = 0 THEN "init" ELSE "record", spec |-> task.spec, due |-> task.next]
    <3>1. sync' = [sync EXCEPT ![c] = v] /\ ~(task.next > now)
      BY <1>4, <2>5 DEF SyncRead, SyncTo
    <3>2. v \in Syncs BY <1>2 DEF Syncs, SyncPcs
    <3>3. task.next # 0 => task.next \in Slots BY <1>2, <3>1, Sorts DEF Cursors
    <3>4. v.pc # "advance" /\ (v.pc = "record" => v.due \in Slots) BY <3>3
    <3>5. SyncsFit BY <2>1, <3>1, <3>2, <3>4, SyncMoves
    <3> QED BY <2>1, <2>3, <3>5
  <2> QED BY <2>4, <2>5
<1>5. ASSUME SyncInit(c) PROVE Shape
  <2>1. Grows /\ faults' \in 0..MaxFaults BY <1>5, SameGrows DEF SyncInit, IInv, TypeOK
  <2>2. task' \in TaskRows BY <1>2, <1>5 DEF SyncInit, TaskRows
  <2>3. CASE reg' = Registered(c, sync[c].spec, now + 1) /\ SyncEnd(c)
    BY <1>2, <2>1, <2>2, <2>3, EntryMoves, SyncEnds
  <2>4. CASE SyncAgain(c) BY <1>3, <2>1, <2>2, <2>4
  <2> QED BY <1>5, <2>3, <2>4 DEF SyncInit
<1>6. ASSUME SyncRecord(c) PROVE Shape
  <2>1. sync[c].due \in Slots /\ task' = task BY <1>2, <1>6 DEF SyncRecord
  <2>2. faults' \in 0..MaxFaults BY <1>6, FaultType DEF SyncRecord, IInv, TypeOK
  <2>3. CASE occ' = Recorded(sync[c].due) /\ sync' = [sync EXCEPT ![c].pc = "advance"] /\ reg' = reg
    <3> DEFINE v == [sync[c] EXCEPT !.pc = "advance"]
    <3>1. Grows /\ occ'[sync[c].due].state # "none" BY <2>1, <2>3, RecordedGrows
    <3>2. v \in Syncs /\ v.pc = "advance" /\ v.due = sync[c].due BY <1>2 DEF Syncs, SyncPcs
    <3>3. sync' = [sync EXCEPT ![c] = v] BY <2>3 DEF IInv, TypeOK
    <3>4. SyncsFit BY <2>1, <3>1, <3>2, <3>3, SyncMoves
    <3> QED BY <1>2, <2>1, <2>2, <2>3, <3>1, <3>4, SameEntries
  <2>4. CASE occ' = occ /\ SyncEnd(c) /\ reg' \in {reg, [reg EXCEPT ![c] = NoEntry]}
    <3>1. Grows BY <2>4, SameGrows
    <3>2. EntriesFit BY <1>2, <2>4, EntryMoves
    <3> QED BY <1>2, <2>1, <2>2, <2>4, <3>1, <3>2, SyncEnds
  <2> QED BY <1>6, <2>3, <2>4 DEF SyncRecord
<1>7. ASSUME SyncAdvance(c) PROVE Shape
  <2>1. Grows /\ faults' \in 0..MaxFaults BY <1>7, SameGrows DEF SyncAdvance, IInv, TypeOK
  <2>2. sync[c].due \in Slots BY <1>2, <1>7 DEF SyncAdvance
  <2>3. task' \in TaskRows BY <1>7, <2>2, AdvanceType DEF SyncAdvance
  <2>4. CASE reg' = Registered(c, sync[c].spec, sync[c].due + 1) /\ SyncEnd(c)
    BY <1>2, <2>1, <2>2, <2>3, <2>4, Sorts, EntryMoves, SyncEnds
  <2>5. CASE SyncAgain(c) BY <1>3, <2>1, <2>3, <2>5
  <2> QED BY <1>7, <2>4, <2>5 DEF SyncAdvance
<1>8. Shape BY <1>4, <1>5, <1>6, <1>7 DEF SyncStep
<1>9. Rest BY <1>1, <1>8 DEF Rest, IInv, TypeOK
<1> QED BY <1>1, <1>8, <1>9, SameJobs, Quiet

LEMMA InitInv == Init => IInv
<1> SUFFICES ASSUME Init PROVE IInv OBVIOUS
<1>1. TypeOK
  <2> USE DEF Init
  <2>1. now \in 0..MaxSlot /\ ops \in 0..MaxOps /\ faults \in 0..MaxFaults BY CronAssumption
  <2>2. task \in TaskRows BY Sorts DEF TaskRows
  <2>3. occ \in [Slots -> OccurrenceRows] BY DEF NoOccurrence, OccurrenceRows
  <2>4. /\ made \in [Slots -> Nat] /\ run \in Runs /\ reg \in [Cores -> Entries]
        /\ job \in [Cores -> [Kinds -> Jobs]] /\ sync \in [Cores -> Syncs]
    BY Sorts
  <2>5. /\ admit \in [Cores -> Kinds \cup {"free", "run"}] /\ page \in [Cores -> SUBSET Slots]
        /\ pausing \in [Cores -> {"no", "yes", "retrying"}]
    OBVIOUS
  <2> QED BY <2>1, <2>2, <2>3, <2>4, <2>5 DEF TypeOK
<1>2. LocalInv BY DEF Init, LocalInv, NoJob, NoEntry, NoSync
<1>3. OneRunPerActivation BY DEF Init, OneRunPerActivation, NoOccurrence
<1> QED BY <1>1, <1>2, <1>3 DEF IInv

LEMMA NextInv == IInv /\ [Next]_vars => IInv'
<1> SUFFICES ASSUME IInv, [Next]_vars PROVE IInv' OBVIOUS
<1>1. CASE UNCHANGED vars
  BY <1>1 DEF vars, IInv, TypeOK, LocalInv, OneRunPerActivation
<1>2. CASE \E c \in Cores, k \in Kinds : JobStep(c, k)
  BY <1>2, DispatchSteps, ReserveStep DEF JobStep
<1>3. CASE \E c \in Cores : Tick(c) \/ DrainPage(c) \/ DrainNext(c) \/ Ensure(c) \/ SyncStep(c) \/ Crash(c)
  BY <1>3, TickStep, DrainSteps, EnsureStep, SyncSteps, CrashStep
<1>4. CASE Enter \/ RunEnds \/ RetryEnds BY <1>4, RunSteps
<1>5. CASE \E s \in Slots : LeaseLapses(s) BY <1>5, LapseStep
<1>6. CASE \/ \E c \in Cores : Pause(c) \/ PauseCancels(c)
           \/ Resume \/ SetSkipNext \/ DisablePolicy \/ EnablePolicy \/ CancelOccurrences
           \/ \E g \in Specs \cup {NoSpec} : EditSpec(g)
           \/ Clock
  BY <1>6, OperatorSteps
<1> QED BY <1>1, <1>2, <1>3, <1>4, <1>5, <1>6 DEF Next

LEMMA Invariance == Spec => []IInv
BY InitInv, NextInv, PTL DEF Spec

\* Every row and every local variable stays well formed.
THEOREM CronTypes == Spec => []TypeOK
<1>1. IInv => TypeOK BY DEF IInv
<1> QED BY <1>1, Invariance, PTL

\* reserveTaskRun gives an activation at most one run, and exactly the
\* dispatched occurrences have one, for any number of cores and activations.
THEOREM CronOneRun == Spec => []OneRunPerActivation
<1>1. IInv => OneRunPerActivation BY DEF IInv
<1> QED BY <1>1, Invariance, PTL

\* Only a compare-and-set moves the cursor of a schedule that stays in force,
\* and it moves it over one recorded activation.
LEMMA CursorStep ==
    ASSUME IInv, [Next]_vars, task'.spec = task.spec, task'.policy = task.policy,
           task.next # 0, ~(task.skip /\ ~task'.skip)
    PROVE  \/ task'.next = task.next \/ task'.next = 0
           \/ /\ task.next \in Slots /\ task'.next = task.next + 1 /\ occ'[task.next].state # "none"
<1> DEFINE Goal == \/ task'.next = task.next \/ task'.next = 0
                   \/ /\ task.next \in Slots /\ task'.next = task.next + 1 /\ occ'[task.next].state # "none"
<1>1. task \in TaskRows BY DEF IInv, TypeOK
<1>2. ASSUME NEW g, NEW s \in Slots, task' = Advance(g, s), occ' = occ, occ[s].state # "none" PROVE Goal
  BY <1>1, <1>2 DEF Advance, TaskRows
<1>3. CASE UNCHANGED task BY <1>3
<1>4. CASE \E c \in Cores, k \in Kinds : AdvanceCursor(c, k)
  <2>1. PICK c \in Cores, k \in Kinds : AdvanceCursor(c, k) BY <1>4
  <2>2. job[c][k].slot \in Slots /\ occ[job[c][k].slot].state # "none"
    BY <2>1 DEF AdvanceCursor, At, IInv, LocalInv
  <2> QED BY <1>2, <2>1, <2>2 DEF AdvanceCursor
<1>5. CASE \E c \in Cores : SyncAdvance(c)
  <2>1. PICK c \in Cores : SyncAdvance(c) BY <1>5
  <2>2. sync[c].due \in Slots /\ occ[sync[c].due].state # "none"
    BY <2>1 DEF SyncAdvance, IInv, LocalInv
  <2> QED BY <1>2, <2>1, <2>2 DEF SyncAdvance
<1>6. CASE \E c \in Cores : SyncInit(c) BY <1>6 DEF SyncInit
<1>7. CASE Enter BY <1>1, <1>7 DEF Enter, TaskRows
<1>8. CASE RunEnds \/ RetryEnds BY <1>1, <1>8 DEF RunEnds, RetryEnds, Ended, TaskRows
<1>9. CASE \E c \in Cores : Pause(c) \/ PauseCancels(c) BY <1>1, <1>9 DEF Pause, PauseCancels, TaskRows
<1>10. CASE Resume \/ SetSkipNext BY <1>1, <1>10 DEF Resume, SetSkipNext, TaskRows
<1>11. CASE DisablePolicy \/ EnablePolicy BY <1>1, <1>11 DEF DisablePolicy, EnablePolicy, TaskRows
<1>12. CASE \E g \in Specs \cup {NoSpec} : EditSpec(g) BY <1>1, <1>12 DEF EditSpec, TaskRows
<1>13. CASE \E c \in Cores, k \in Kinds : Claim(c, k) \/ LoadTask(c, k) \/ SettleOccurrence(c, k) \/ Reserve(c, k) \/ Release(c, k)
  <2>0. PICK c \in Cores, k \in Kinds :
          Claim(c, k) \/ LoadTask(c, k) \/ SettleOccurrence(c, k) \/ Reserve(c, k) \/ Release(c, k)
    BY <1>13
  <2>1. /\ Claim(c, k) => UNCHANGED task
        /\ LoadTask(c, k) => UNCHANGED task
        /\ SettleOccurrence(c, k) => UNCHANGED task
        /\ Reserve(c, k) => UNCHANGED task
        /\ Release(c, k) => UNCHANGED task
    BY DEF Claim, LoadTask, SettleOccurrence, Reserve, Release
  <2> QED BY <1>3, <2>0, <2>1
<1>14. CASE \E c \in Cores : Tick(c) \/ DrainPage(c) \/ DrainNext(c) \/ Ensure(c) \/ SyncRead(c) \/ SyncRecord(c) \/ Crash(c)
  BY <1>3, <1>14 DEF Tick, DrainPage, DrainNext, Ensure, SyncRead, SyncRecord, Crash
<1>15. CASE (\E s \in Slots : LeaseLapses(s)) \/ CancelOccurrences \/ Clock
  BY <1>3, <1>15 DEF LeaseLapses, CancelOccurrences, Clock
<1>16. CASE UNCHANGED vars BY <1>3, <1>16 DEF vars
<1> QED
  BY <1>4, <1>5, <1>6, <1>7, <1>8, <1>9, <1>10, <1>11, <1>12, <1>13, <1>14, <1>15, <1>16
  DEF Next, JobStep, SyncStep

\* advanceCronScheduleCursor and SyncSchedule leave no activation without an
\* occurrence behind, whatever crashed or failed in between.
THEOREM CronIntent == Spec => IntentBeforeCursor
<1> DEFINE Kept == (task'.spec = task.spec /\ task'.policy = task.policy /\ task.next # 0 /\ ~(task.skip /\ ~task'.skip))
                   => \A s \in Slots : task.next <= s /\ s < task'.next => occ'[s].state # "none"
<1>1. IInv /\ [Next]_vars => [Kept]_vars
  <2> SUFFICES ASSUME IInv, [Next]_vars,
                      task'.spec = task.spec, task'.policy = task.policy, task.next # 0, ~(task.skip /\ ~task'.skip),
                      NEW s \in Slots, task.next <= s, s < task'.next
               PROVE  occ'[s].state # "none"
    OBVIOUS
  <2>1. task.next \in Cursors /\ task'.next \in Cursors BY NextInv DEF IInv, TypeOK, TaskRows
  <2>2. s \in Nat /\ task.next \in Nat /\ task'.next \in Nat BY <2>1, CronAssumption DEF Slots, Cursors
  <2>3. task'.next # task.next /\ task'.next # 0 BY <2>2
  <2>4. task'.next = task.next + 1 /\ occ'[task.next].state # "none" BY <2>3, CursorStep
  <2>5. s = task.next BY <2>2, <2>4
  <2> QED BY <2>4, <2>5
<1>2. Spec => [][Kept]_vars BY <1>1, Invariance, PTL DEF Spec
<1> QED BY <1>2 DEF IntentBeforeCursor

-----------------------------------------------------------------------------
(* The refinement of Schedule. *)

\* What the refinement rests on besides IInv: a paused task has no cursor,
\* nothing is recorded, and nobody is about to record anything, before it is
\* due, and the active run belongs to a dispatched occurrence.
DueInv ==
    /\ ~task.enabled => task.next = 0
    /\ \A s \in Slots : occ[s].state # "none" => s <= now
    /\ \A c \in Cores :
         /\ job[c]["tick"].pc # "idle" => job[c]["tick"].slot <= now
         /\ sync[c].pc \in {"record", "advance"} => sync[c].due <= now
    /\ run.st # "none" => run.slot \in Slots /\ occ[run.slot].state = "dispatched"

\* What steps do to the states of the occurrences.
StatesStill == \A x \in Slots : occ'[x].state = occ[x].state
StateMoves(s, from, to) ==
    /\ occ[s].state = from
    /\ \A x \in Slots : occ'[x].state = IF x = s THEN to ELSE occ[x].state
CalledOff ==
    \A x \in Slots : occ'[x].state = IF occ[x].state = "queued" THEN "canceled" ELSE occ[x].state

\* What steps do to the plan and to the cursor.
SamePlan == task'.spec = task.spec /\ task'.enabled = task.enabled /\ task'.policy = task.policy
SameTask == SamePlan /\ task'.next = task.next

\* The kinds of steps, as Schedule tells them apart.
StillStep == StatesStill /\ SameTask /\ UNCHANGED <<now, made>>
NoteStep == /\ \E s \in Slots : s <= now /\ StateMoves(s, "none", "queued")
            /\ SameTask /\ UNCHANGED <<now, made>>
RunStep == /\ \E s \in Slots : StateMoves(s, "queued", "dispatched") /\ made' = [made EXCEPT ![s] = @ + 1]
           /\ SameTask /\ UNCHANGED now
DropStep == /\ CalledOff \/ \E s \in Slots : StateMoves(s, "queued", "canceled")
            /\ SameTask /\ UNCHANGED <<now, made>>
PassStep == /\ task.next \in Slots /\ occ[task.next].state # "none" /\ task'.next = task.next + 1
            /\ StatesStill /\ SamePlan /\ task.enabled /\ UNCHANGED <<now, made>>
SkipStep == /\ \E s \in Slots : occ[s].state = "dispatched" /\ task.next <= s /\ task'.next = s + 1
            /\ StatesStill /\ SamePlan /\ task.enabled /\ UNCHANGED <<now, made>>
StartStep == /\ task.next = 0 /\ task'.next = now + 1
             /\ StatesStill /\ SamePlan /\ task.enabled /\ UNCHANGED <<now, made>>
PlanStep == /\ ~SamePlan
            /\ task'.next = 0 \/ (task'.enabled /\ task'.next = now + 1)
            /\ StatesStill \/ CalledOff
            /\ UNCHANGED <<now, made>>
TimeStep == now' = now + 1 /\ StatesStill /\ SameTask /\ UNCHANGED made

KnownStep == \/ StillStep \/ NoteStep \/ RunStep \/ DropStep \/ PassStep
             \/ SkipStep \/ StartStep \/ PlanStep \/ TimeStep

\* Steps that leave alone all that Schedule speaks of.
LEMMA StillSteps ==
    ASSUME UNCHANGED <<now, task, occ, made>> PROVE KnownStep
BY DEF KnownStep, StillStep, StatesStill, SameTask, SamePlan

\* An occurrence is recorded, or was before.
LEMMA NoteSteps ==
    ASSUME IInv, NEW s \in Slots, s <= now, occ' = Recorded(s), UNCHANGED <<now, task, made>>
    PROVE  KnownStep
<1>1. occ \in [Slots -> OccurrenceRows] BY DEF IInv, TypeOK
<1>2. CASE occ[s].state = "none"
  <2>1. occ' = [occ EXCEPT ![s].state = "queued"] BY <1>2 DEF Recorded
  <2>2. StateMoves(s, "none", "queued") BY <1>1, <1>2, <2>1 DEF StateMoves, OccurrenceRows
  <2> QED BY <2>2 DEF KnownStep, NoteStep, SameTask, SamePlan
<1>3. CASE occ[s].state # "none" BY <1>3, StillSteps DEF Recorded
<1> QED BY <1>2, <1>3

\* The compare-and-set on the cursor of a recorded activation.
LEMMA PassSteps ==
    ASSUME IInv, NEW g, NEW s \in Slots, occ[s].state # "none", task' = Advance(g, s),
           UNCHANGED <<now, occ, made>>
    PROVE  KnownStep
<1>1. task \in TaskRows BY DEF IInv, TypeOK
<1>2. CASE task' = task BY <1>2, StillSteps
<1>3. CASE task' # task
  <2>1. task.enabled /\ task.next = s /\ task' = [task EXCEPT !.next = s + 1] BY <1>3 DEF Advance
  <2>2. SamePlan /\ task'.next = s + 1 BY <1>1, <2>1 DEF SamePlan, TaskRows
  <2> QED BY <2>1, <2>2 DEF KnownStep, PassStep, StatesStill
<1> QED BY <1>2, <1>3

\* Steps of a dispatch.
LEMMA JobKnown ==
    ASSUME IInv, DueInv, NEW c \in Cores, NEW k \in Kinds, JobStep(c, k) PROVE KnownStep
<1> DEFINE s == job[c][k].slot
<1>1. ASSUME job[c][k].pc # "idle" PROVE s \in Slots BY <1>1 DEF IInv, LocalInv
<1>2. occ \in [Slots -> OccurrenceRows] BY DEF IInv, TypeOK
<1>3. CASE AdvanceCursor(c, k)
  <2>1. s \in Slots /\ occ[s].state # "none" BY <1>1, <1>3 DEF AdvanceCursor, At, IInv, LocalInv
  <2> QED BY <1>3, <2>1, PassSteps DEF AdvanceCursor
<1>4. CASE LoadTask(c, k) BY <1>4, StillSteps DEF LoadTask
<1>5. CASE Claim(c, k) \/ Release(c, k)
  <2>1. s \in Slots BY <1>1, <1>5 DEF Claim, Release, At
  <2>2. \/ occ' = occ
        \/ \E o \in {c, NoCore}, b \in BOOLEAN : occ' = [occ EXCEPT ![s].owner = o, ![s].live = b]
    BY <1>5 DEF Claim, Release
  <2>3. StatesStill BY <2>1, <2>2, LeaseGrows DEF StatesStill
  <2>4. UNCHANGED <<now, task, made>> BY <1>5 DEF Claim, Release
  <2> QED BY <2>3, <2>4 DEF KnownStep, StillStep, SameTask, SamePlan
<1>6. CASE SettleOccurrence(c, k)
  <2>1. s \in Slots BY <1>1, <1>6 DEF SettleOccurrence, At
  <2>2. UNCHANGED <<now, task, made>> BY <1>6 DEF SettleOccurrence
  <2>3. CASE occ[s].state = "queued"
    <3>1. occ' = [occ EXCEPT ![s] = [state |-> "canceled", owner |-> NoCore, live |-> FALSE]]
      BY <1>6, <2>3 DEF SettleOccurrence
    <3>2. StateMoves(s, "queued", "canceled") BY <1>2, <2>3, <3>1 DEF StateMoves
    <3> QED BY <2>1, <2>2, <3>2 DEF KnownStep, DropStep, SameTask, SamePlan
  <2>4. CASE occ[s].state # "queued" BY <1>6, <2>2, <2>4, StillSteps DEF SettleOccurrence
  <2> QED BY <2>3, <2>4
<1>7. CASE Reserve(c, k)
  <2>1. s \in Slots /\ UNCHANGED <<now, task>> BY <1>1, <1>7 DEF Reserve, At
  <2>2. CASE Mine(c, s) /\ occ' = Dispatched(s) /\ made' = [made EXCEPT ![s] = @ + 1]
    <3>1. StateMoves(s, "queued", "dispatched") BY <1>2, <2>2 DEF StateMoves, Mine, Dispatched
    <3> QED BY <2>1, <2>2, <3>1 DEF KnownStep, RunStep, SameTask, SamePlan
  <2>3. CASE UNCHANGED <<occ, made>> BY <2>1, <2>3, StillSteps
  <2> QED BY <1>7, <2>2, <2>3 DEF Reserve
<1> QED BY <1>3, <1>4, <1>5, <1>6, <1>7 DEF JobStep

\* Steps of callbacks, drains, reconciliation and crashes.
LEMMA CoreKnown ==
    ASSUME IInv, DueInv, NEW c \in Cores,
           Tick(c) \/ DrainPage(c) \/ DrainNext(c) \/ SyncStep(c) \/ Ensure(c) \/ Crash(c)
    PROVE  KnownStep
<1>1. CASE Tick(c) \/ DrainPage(c) \/ DrainNext(c) \/ SyncRead(c)
  <2>1. UNCHANGED <<now, task, occ, made>> BY <1>1 DEF Tick, DrainPage, DrainNext, SyncRead
  <2> QED BY <2>1, StillSteps
<1>2. CASE SyncInit(c)
  <2>1. CASE task' = task BY <1>2, <2>1, StillSteps DEF SyncInit
  <2>2. CASE task' # task
    <3>1. task.next = 0 /\ task.enabled /\ task' = [task EXCEPT !.next = now + 1] BY <1>2, <2>2 DEF SyncInit
    <3>2. SamePlan /\ task'.next = now + 1 BY <3>1 DEF SamePlan, IInv, TypeOK, TaskRows
    <3> QED BY <1>2, <3>1, <3>2 DEF SyncInit, KnownStep, StartStep, StatesStill
  <2> QED BY <2>1, <2>2
<1>3. CASE SyncRecord(c)
  <2>1. sync[c].due \in Slots /\ sync[c].due <= now BY <1>3 DEF SyncRecord, IInv, LocalInv, DueInv
  <2>2. UNCHANGED <<now, task, made>> /\ (occ' = Recorded(sync[c].due) \/ occ' = occ) BY <1>3 DEF SyncRecord
  <2> QED BY <2>1, <2>2, NoteSteps, StillSteps
<1>4. CASE SyncAdvance(c)
  <2>1. sync[c].due \in Slots /\ occ[sync[c].due].state # "none" BY <1>4 DEF SyncAdvance, IInv, LocalInv
  <2> QED BY <1>4, <2>1, PassSteps DEF SyncAdvance
<1>5. CASE Ensure(c)
  <2> DEFINE s == job[c]["tick"].slot
  <2>1. s \in Slots /\ s <= now BY <1>5 DEF Ensure, At, IInv, LocalInv, DueInv, Kinds
  <2>2. UNCHANGED <<now, task, made>> /\ (occ' = Recorded(s) \/ occ' = occ) BY <1>5 DEF Ensure
  <2> QED BY <2>1, <2>2, NoteSteps, StillSteps
<1>6. CASE Crash(c)
  <2>1. occ \in [Slots -> OccurrenceRows] BY DEF IInv, TypeOK
  <2>2. UNCHANGED <<now, task, made>>
        /\ occ' = [s \in Slots |-> IF occ[s].owner = c THEN [occ[s] EXCEPT !.owner = Dead] ELSE occ[s]]
    BY <1>6 DEF Crash
  <2>3. \A s \in Slots : [occ[s] EXCEPT !.owner = Dead].state = occ[s].state BY <2>1 DEF OccurrenceRows
  <2>4. StatesStill BY <2>2, <2>3 DEF StatesStill
  <2> QED BY <2>2, <2>4 DEF KnownStep, StillStep, SameTask, SamePlan
<1> QED BY <1>1, <1>2, <1>3, <1>4, <1>5, <1>6 DEF SyncStep

\* Steps of the run and of its retry.
LEMMA RunKnown ==
    ASSUME IInv, DueInv, Enter \/ RunEnds \/ RetryEnds PROVE KnownStep
<1>1. task \in TaskRows /\ run.slot \in 0..MaxSlot BY DEF IInv, TypeOK, Runs
<1>2. UNCHANGED <<now, occ, made>> BY DEF Enter, RunEnds, RetryEnds
<1>3. ASSUME SameTask PROVE KnownStep BY <1>2, <1>3 DEF KnownStep, StillStep, StatesStill
<1>4. CASE Enter
  <2>1. run.slot \in Slots /\ occ[run.slot].state = "dispatched" BY <1>4 DEF Enter, DueInv
  <2>2. CASE task' = task \/ task' = [task EXCEPT !.status = "running"]
    BY <1>1, <1>3, <2>2 DEF SameTask, SamePlan, TaskRows
  <2>3. CASE /\ task.enabled
             /\ task' = [task EXCEPT !.skip = FALSE, !.next = IF @ <= run.slot THEN run.slot + 1 ELSE @]
    <3>1. SamePlan BY <1>1, <2>3 DEF SamePlan, TaskRows
    <3>2. task'.next = IF task.next <= run.slot THEN run.slot + 1 ELSE task.next BY <1>1, <2>3 DEF TaskRows
    <3>3. CASE task.next <= run.slot
      BY <1>2, <2>1, <2>3, <3>1, <3>2, <3>3 DEF KnownStep, SkipStep, StatesStill
    <3>4. CASE ~(task.next <= run.slot) BY <1>3, <3>1, <3>2, <3>4 DEF SameTask
    <3> QED BY <3>3, <3>4
  <2> QED BY <1>4, <2>2, <2>3 DEF Enter, Scheduled
<1>5. CASE RunEnds \/ RetryEnds
  <2>1. task' = task \/ \E st \in {"idle", "retrying"} : task' = Ended(st) BY <1>5 DEF RunEnds, RetryEnds
  <2>2. ASSUME NEW st \in {"idle", "retrying"}, task' = Ended(st) PROVE SameTask
    BY <1>1, <2>2 DEF Ended, SameTask, SamePlan, TaskRows, DueInv
  <2>3. CASE task' = task BY <1>3, <2>3 DEF SameTask, SamePlan
  <2> QED BY <1>3, <2>1, <2>2, <2>3
<1> QED BY <1>4, <1>5

\* What cancelQueuedCronOccurrencesTx does to the states.
LEMMA QueueCalledOff == ASSUME IInv, occ' = CanceledQueue PROVE CalledOff
BY DEF IInv, TypeOK, CanceledQueue, CalledOff

\* Steps of operators, leases and the clock.
LEMMA OperatorKnown ==
    ASSUME IInv, DueInv,
           \/ \E c \in Cores : Pause(c) \/ PauseCancels(c)
           \/ Resume \/ SetSkipNext \/ DisablePolicy \/ EnablePolicy \/ CancelOccurrences
           \/ \E g \in Specs \cup {NoSpec} : EditSpec(g)
           \/ \E s \in Slots : LeaseLapses(s)
           \/ Clock
    PROVE  KnownStep
<1>1. task \in TaskRows BY DEF IInv, TypeOK
<1>2. CASE \E c \in Cores : Pause(c)
  <2>1. /\ task.enabled /\ task' = [task EXCEPT !.enabled = FALSE, !.skip = FALSE, !.next = 0]
        /\ UNCHANGED <<now, occ, made>>
    BY <1>2 DEF Pause
  <2>2. ~task'.enabled /\ task'.next = 0 BY <1>1, <2>1 DEF TaskRows
  <2> QED BY <2>1, <2>2 DEF KnownStep, PlanStep, SamePlan, StatesStill
<1>3. CASE \E c \in Cores : PauseCancels(c)
  <2>1. /\ task' = task \/ task' = [task EXCEPT !.status = "idle"]
        /\ occ' = CanceledQueue /\ UNCHANGED <<now, made>>
    BY <1>3 DEF PauseCancels
  <2>2. SameTask BY <1>1, <2>1 DEF SameTask, SamePlan, TaskRows
  <2> QED BY <2>1, <2>2, QueueCalledOff DEF KnownStep, DropStep
<1>4. CASE Resume
  <2>1. ~task.enabled /\ task' = [task EXCEPT !.enabled = TRUE] /\ UNCHANGED <<now, occ, made>>
    BY <1>4 DEF Resume
  <2>2. task'.enabled /\ task'.next = task.next BY <1>1, <2>1 DEF TaskRows
  <2>3. task'.next = 0 BY <2>1, <2>2 DEF DueInv
  <2> QED BY <2>1, <2>2, <2>3 DEF KnownStep, PlanStep, SamePlan, StatesStill
<1>5. CASE SetSkipNext
  <2>1. task' = [task EXCEPT !.skip = TRUE] /\ UNCHANGED <<now, occ, made>> BY <1>5 DEF SetSkipNext
  <2>2. SameTask BY <1>1, <2>1 DEF SameTask, SamePlan, TaskRows
  <2> QED BY <2>1, <2>2 DEF KnownStep, StillStep, StatesStill
<1>6. CASE DisablePolicy
  <2>1. /\ task.policy /\ task' = [task EXCEPT !.policy = FALSE, !.next = 0]
        /\ occ' = CanceledQueue /\ UNCHANGED <<now, made>>
    BY <1>6 DEF DisablePolicy
  <2>2. ~task'.policy /\ task'.next = 0 BY <1>1, <2>1 DEF TaskRows
  <2> QED BY <2>1, <2>2, QueueCalledOff DEF KnownStep, PlanStep, SamePlan
<1>7. CASE EnablePolicy
  <2>1. /\ ~task.policy /\ UNCHANGED <<now, occ, made>>
        /\ task' = [task EXCEPT !.policy = TRUE,
                                !.next = IF task.enabled /\ task.spec # NoSpec THEN now + 1 ELSE 0]
    BY <1>7 DEF EnablePolicy
  <2>2. /\ task'.policy /\ task'.enabled = task.enabled
        /\ task'.next = IF task.enabled /\ task.spec # NoSpec THEN now + 1 ELSE 0
    BY <1>1, <2>1 DEF TaskRows
  <2> QED BY <2>1, <2>2 DEF KnownStep, PlanStep, SamePlan, StatesStill
<1>8. CASE \E g \in Specs \cup {NoSpec} : EditSpec(g)
  <2>1. PICK g \in Specs \cup {NoSpec} :
          /\ g # task.spec /\ UNCHANGED <<now, occ, made>>
          /\ task' = [task EXCEPT !.spec = g,
                                  !.next = IF task.enabled /\ g # NoSpec THEN now + 1 ELSE 0]
    BY <1>8 DEF EditSpec
  <2>2. /\ task'.spec = g /\ task'.enabled = task.enabled
        /\ task'.next = IF task.enabled /\ g # NoSpec THEN now + 1 ELSE 0
    BY <1>1, <2>1 DEF TaskRows
  <2> QED BY <2>1, <2>2 DEF KnownStep, PlanStep, SamePlan, StatesStill
<1>9. CASE CancelOccurrences
  <2>1. occ' = CanceledQueue /\ UNCHANGED <<now, task, made>> BY <1>9 DEF CancelOccurrences
  <2> QED BY <2>1, QueueCalledOff DEF KnownStep, DropStep, SameTask, SamePlan
<1>10. CASE \E s \in Slots : LeaseLapses(s)
  <2>1. PICK s \in Slots : occ' = [occ EXCEPT ![s].live = FALSE] BY <1>10 DEF LeaseLapses
  <2>2. StatesStill BY <2>1 DEF StatesStill, IInv, TypeOK, OccurrenceRows
  <2>3. UNCHANGED <<now, task, made>> BY <1>10 DEF LeaseLapses
  <2> QED BY <2>2, <2>3 DEF KnownStep, StillStep, SameTask, SamePlan
<1>11. CASE Clock
  BY <1>11 DEF Clock, KnownStep, TimeStep, StatesStill, SameTask, SamePlan
<1> QED BY <1>2, <1>3, <1>4, <1>5, <1>6, <1>7, <1>8, <1>9, <1>10, <1>11

\* Every step is one of them.
LEMMA NextKnown == ASSUME IInv, DueInv, [Next]_vars PROVE KnownStep
<1>1. CASE UNCHANGED vars BY <1>1, StillSteps DEF vars
<1>2. CASE \E c \in Cores, k \in Kinds : JobStep(c, k) BY <1>2, JobKnown
<1>3. CASE \E c \in Cores : Tick(c) \/ DrainPage(c) \/ DrainNext(c) \/ SyncStep(c) \/ Ensure(c) \/ Crash(c)
  BY <1>3, CoreKnown
<1>4. CASE Enter \/ RunEnds \/ RetryEnds BY <1>4, RunKnown
<1>5. CASE \/ \E c \in Cores : Pause(c) \/ PauseCancels(c)
           \/ Resume \/ SetSkipNext \/ DisablePolicy \/ EnablePolicy \/ CancelOccurrences
           \/ \E g \in Specs \cup {NoSpec} : EditSpec(g)
           \/ \E s \in Slots : LeaseLapses(s)
           \/ Clock
  BY <1>5, OperatorKnown
<1> QED BY <1>1, <1>2, <1>3, <1>4, <1>5 DEF Next

\* A callback keeps the activation it was started with, one that is due.
LEMMA TickKept ==
    ASSUME IInv, [Next]_vars, NEW d \in Cores, job'[d]["tick"].pc # "idle"
    PROVE  \/ job[d]["tick"].pc # "idle" /\ job'[d]["tick"].slot = job[d]["tick"].slot
           \/ job'[d]["tick"].slot <= now
<1> DEFINE Goal == \/ job[d]["tick"].pc # "idle" /\ job'[d]["tick"].slot = job[d]["tick"].slot
                   \/ job'[d]["tick"].slot <= now
<1>1. job \in [Cores -> [Kinds -> Jobs]] /\ "tick" \in Kinds /\ "drain" \in Kinds
  BY DEF IInv, TypeOK, Kinds
<1>2. ASSUME NEW c \in Cores, NEW k \in Kinds, job[c][k].pc # "idle",
             End(c, k) \/ \E to \in JobPcs : Goto(c, k, to)
      PROVE  Goal
  <2>1. CASE End(c, k)
    <3>1. job'[d]["tick"] = NoJob \/ job'[d]["tick"] = job[d]["tick"] BY <1>1, <2>1 DEF End
    <3> QED BY <3>1 DEF NoJob
  <2>2. CASE \E to \in JobPcs : Goto(c, k, to)
    <3>1. PICK to \in JobPcs : job' = [job EXCEPT ![c][k].pc = to] BY <2>2 DEF Goto
    <3>2. CASE c = d /\ k = "tick"
      <4>1. job'[d]["tick"] = [job[d]["tick"] EXCEPT !.pc = to] BY <1>1, <3>1, <3>2
      <4>2. job'[d]["tick"].slot = job[d]["tick"].slot BY <1>1, <4>1 DEF Jobs
      <4> QED BY <1>2, <3>2, <4>2
    <3>3. CASE ~(c = d /\ k = "tick")
      <4>1. job'[d]["tick"] = job[d]["tick"] BY <1>1, <3>1, <3>3
      <4> QED BY <4>1
    <3> QED BY <3>2, <3>3
  <2> QED BY <1>2, <2>1, <2>2
<1>3. CASE job' = job BY <1>3
<1>4. CASE \E c \in Cores : Tick(c)
  <2>1. PICK c \in Cores : Tick(c) BY <1>4
  <2> DEFINE v == [pc |-> "ensure", slot |-> reg[c].at, spec |-> reg[c].spec]
  <2>2. job' = [job EXCEPT ![c]["tick"] = v] /\ v.slot <= now BY <2>1 DEF Tick
  <2> HIDE DEF v
  <2>3. job'[d]["tick"] = v \/ job'[d]["tick"] = job[d]["tick"] BY <1>1, <2>2
  <2> QED BY <2>2, <2>3
<1>5. CASE \E c \in Cores : DrainNext(c)
  <2>1. PICK c \in Cores : job' = job \/ \E v : job' = [job EXCEPT ![c]["drain"] = v]
    BY <1>5 DEF DrainNext
  <2>2. job'[d]["tick"] = job[d]["tick"] BY <1>1, <2>1
  <2> QED BY <2>2
<1>6. CASE \E c \in Cores : Ensure(c)
  <2>1. PICK c \in Cores : Ensure(c) BY <1>6
  <2>2. job[c]["tick"].pc # "idle" /\ (End(c, "tick") \/ Goto(c, "tick", "advance"))
    BY <2>1 DEF Ensure, At
  <2> QED BY <1>1, <1>2, <2>2 DEF JobPcs
<1>7. CASE \E c \in Cores, k \in Kinds : JobStep(c, k)
  <2>1. PICK c \in Cores, k \in Kinds : JobStep(c, k) BY <1>7
  <2>2. job[c][k].pc # "idle"
    BY <2>1 DEF JobStep, AdvanceCursor, Claim, LoadTask, SettleOccurrence, Reserve, Release, At
  <2>3. CASE AdvanceCursor(c, k) BY <1>2, <2>2, <2>3 DEF AdvanceCursor, JobPcs
  <2>4. CASE Claim(c, k)
    <3>1. End(c, k) \/ Goto(c, k, "load") BY <2>4 DEF Claim
    <3> QED BY <1>2, <2>2, <3>1 DEF JobPcs
  <2>5. CASE LoadTask(c, k)
    <3>1. Goto(c, k, "cancel") \/ Goto(c, k, "release") \/ Goto(c, k, "reserve") BY <2>5 DEF LoadTask, GiveUp
    <3> QED BY <1>2, <2>2, <3>1 DEF JobPcs
  <2>6. CASE SettleOccurrence(c, k) BY <1>2, <2>2, <2>6 DEF SettleOccurrence, GiveUp, JobPcs
  <2>7. CASE Reserve(c, k)
    <3>1. End(c, k) \/ Goto(c, k, "release") BY <2>7 DEF Reserve, GiveUp
    <3> QED BY <1>2, <2>2, <3>1 DEF JobPcs
  <2>8. CASE Release(c, k) BY <1>2, <2>2, <2>8 DEF Release
  <2> QED BY <2>1, <2>3, <2>4, <2>5, <2>6, <2>7, <2>8 DEF JobStep
<1>8. CASE \E c \in Cores : Crash(c)
  <2>1. PICK c \in Cores : job' = [job EXCEPT ![c] = [k \in Kinds |-> NoJob]] BY <1>8 DEF Crash
  <2>2. job'[d]["tick"] = job[d]["tick"] \/ job'[d]["tick"] = NoJob BY <1>1, <2>1
  <2> QED BY <2>2 DEF NoJob
<1>9. CASE \E c \in Cores : DrainPage(c) \/ SyncStep(c) \/ Pause(c) \/ PauseCancels(c)
  <2>1. job' = job
    BY <1>9 DEF DrainPage, SyncStep, SyncRead, SyncInit, SyncRecord, SyncAdvance, Pause, PauseCancels
  <2> QED BY <2>1
<1>10. CASE \/ \E s \in Slots : LeaseLapses(s)
            \/ Enter \/ RunEnds \/ RetryEnds
            \/ Resume \/ SetSkipNext \/ DisablePolicy \/ EnablePolicy \/ CancelOccurrences
            \/ \E g \in Specs \cup {NoSpec} : EditSpec(g)
            \/ Clock \/ UNCHANGED vars
  <2>1. job' = job
    BY <1>10 DEF LeaseLapses, Enter, RunEnds, RetryEnds, Resume, SetSkipNext, DisablePolicy, EnablePolicy,
                 CancelOccurrences, EditSpec, Clock, vars
  <2> QED BY <2>1
<1> QED BY <1>4, <1>5, <1>6, <1>7, <1>8, <1>9, <1>10 DEF Next

\* SyncSchedule keeps the activation it read as overdue.
LEMMA SyncKept ==
    ASSUME IInv, [Next]_vars, NEW d \in Cores, sync'[d].pc \in {"record", "advance"}
    PROVE  \/ sync[d].pc \in {"record", "advance"} /\ sync'[d].due = sync[d].due
           \/ sync'[d].due <= now
<1> DEFINE Goal == \/ sync[d].pc \in {"record", "advance"} /\ sync'[d].due = sync[d].due
                   \/ sync'[d].due <= now
<1>1. sync \in [Cores -> Syncs] BY DEF IInv, TypeOK
<1>2. CASE sync' = sync BY <1>2
<1>3. ASSUME NEW c \in Cores, sync' = [sync EXCEPT ![c] = NoSync] PROVE Goal
  <2>1. sync'[d] = NoSync \/ sync'[d] = sync[d] BY <1>1, <1>3
  <2> QED BY <2>1 DEF NoSync
<1>4. CASE \E c \in Cores : SyncRead(c)
  <2>1. PICK c \in Cores : SyncRead(c) BY <1>4
  <2>2. CASE sync' # sync
    <3> DEFINE v == [pc |-> IF task.next = 0 THEN "init" ELSE "record", spec |-> task.spec, due |-> task.next]
    <3>1. sync' = [sync EXCEPT ![c] = v] /\ ~(task.next > now) BY <2>1, <2>2 DEF SyncRead, SyncTo
    <3>2. v.due <= now BY <3>1, CronAssumption DEF IInv, TypeOK, TaskRows, Cursors
    <3> HIDE DEF v
    <3>3. sync'[d] = v \/ sync'[d] = sync[d] BY <1>1, <3>1
    <3> QED BY <3>2, <3>3
  <2> QED BY <1>2, <2>2
<1>5. CASE \E c \in Cores : SyncInit(c) \/ SyncAdvance(c) \/ Crash(c)
  <2>1. \E c \in Cores : sync' = [sync EXCEPT ![c] = NoSync]
    BY <1>5 DEF SyncInit, SyncAdvance, SyncEnd, SyncAgain, Crash
  <2> QED BY <1>3, <2>1
<1>6. CASE \E c \in Cores : SyncRecord(c)
  <2>1. PICK c \in Cores : SyncRecord(c) BY <1>6
  <2>2. CASE sync' = [sync EXCEPT ![c] = NoSync] BY <1>3, <2>2
  <2>3. CASE sync' = [sync EXCEPT ![c].pc = "advance"]
    <3>1. CASE c = d
      <4>1. sync'[d] = [sync[d] EXCEPT !.pc = "advance"] /\ sync[d].pc = "record"
        BY <1>1, <2>1, <2>3, <3>1 DEF SyncRecord
      <4>2. sync'[d].due = sync[d].due BY <1>1, <4>1 DEF Syncs
      <4> QED BY <4>1, <4>2
    <3>2. CASE c # d
      <4>1. sync'[d] = sync[d] BY <1>1, <2>3, <3>2
      <4> QED BY <4>1
    <3> QED BY <3>1, <3>2
  <2> QED BY <2>1, <2>2, <2>3 DEF SyncRecord, SyncEnd
<1>7. CASE \E c \in Cores : \/ Tick(c) \/ DrainPage(c) \/ DrainNext(c) \/ Ensure(c) \/ Pause(c) \/ PauseCancels(c)
  <2>1. sync' = sync BY <1>7 DEF Tick, DrainPage, DrainNext, Ensure, Pause, PauseCancels
  <2> QED BY <1>2, <2>1
<1>8. CASE \E c \in Cores, k \in Kinds : JobStep(c, k)
  <2>1. PICK c \in Cores, k \in Kinds : JobStep(c, k) BY <1>8
  <2>2. /\ AdvanceCursor(c, k) => sync' = sync
        /\ Claim(c, k) => sync' = sync
        /\ LoadTask(c, k) => sync' = sync
        /\ SettleOccurrence(c, k) => sync' = sync
        /\ Reserve(c, k) => sync' = sync
        /\ Release(c, k) => sync' = sync
    BY DEF AdvanceCursor, Claim, LoadTask, SettleOccurrence, Reserve, Release
  <2> QED BY <1>2, <2>1, <2>2 DEF JobStep
<1>9. CASE \/ \E s \in Slots : LeaseLapses(s)
           \/ Enter \/ RunEnds \/ RetryEnds
           \/ Resume \/ SetSkipNext \/ DisablePolicy \/ EnablePolicy \/ CancelOccurrences
           \/ \E g \in Specs \cup {NoSpec} : EditSpec(g)
           \/ Clock \/ UNCHANGED vars
  <2>1. sync' = sync
    BY <1>9 DEF LeaseLapses, Enter, RunEnds, RetryEnds, Resume, SetSkipNext, DisablePolicy, EnablePolicy,
                CancelOccurrences, EditSpec, Clock, vars
  <2> QED BY <1>2, <2>1
<1> QED BY <1>4, <1>5, <1>6, <1>7, <1>8, <1>9 DEF Next, SyncStep

\* A run keeps the activation it was reserved for, a dispatched one.
LEMMA RunKept ==
    ASSUME IInv, [Next]_vars, run'.st # "none"
    PROVE  \/ run.st # "none" /\ run'.slot = run.slot
           \/ run'.slot \in Slots /\ occ'[run'.slot].state = "dispatched"
<1> DEFINE Goal == \/ run.st # "none" /\ run'.slot = run.slot
                   \/ run'.slot \in Slots /\ occ'[run'.slot].state = "dispatched"
<1>1. CASE run' = run \/ run' = NoRun BY <1>1 DEF NoRun
<1>2. CASE \E c \in Cores, k \in Kinds : Reserve(c, k)
  <2>1. PICK c \in Cores, k \in Kinds : Reserve(c, k) BY <1>2
  <2> DEFINE s == job[c][k].slot
  <2>2. s \in Slots BY <2>1 DEF Reserve, At, IInv, LocalInv
  <2>3. CASE occ' = Dispatched(s) /\ run' = [st |-> "pending", slot |-> s, core |-> c]
    <3>1. occ'[s].state = "dispatched" BY <2>2, <2>3 DEF Dispatched, IInv, TypeOK
    <3> QED BY <2>2, <2>3, <3>1
  <2>4. CASE run' = run BY <1>1, <2>4
  <2> QED BY <2>1, <2>3, <2>4 DEF Reserve
<1>3. CASE Enter
  <2>1. run.st # "none" /\ (run' = NoRun \/ run' = [run EXCEPT !.st = "running"]) BY <1>3 DEF Enter
  <2>2. CASE run' = [run EXCEPT !.st = "running"] BY <2>1, <2>2 DEF IInv, TypeOK, Runs
  <2> QED BY <1>1, <2>1, <2>2
<1>4. CASE RunEnds \/ RetryEnds \/ DisablePolicy BY <1>1, <1>4 DEF RunEnds, RetryEnds, DisablePolicy
<1>5. CASE \E c \in Cores : \/ Tick(c) \/ DrainPage(c) \/ DrainNext(c) \/ SyncStep(c)
                            \/ Ensure(c) \/ Pause(c) \/ PauseCancels(c) \/ Crash(c)
  <2>1. PICK c \in Cores : \/ Tick(c) \/ DrainPage(c) \/ DrainNext(c) \/ SyncStep(c)
                           \/ Ensure(c) \/ Pause(c) \/ PauseCancels(c) \/ Crash(c)
    BY <1>5
  <2>2. /\ Tick(c) \/ DrainPage(c) \/ DrainNext(c) => run' = run
        /\ SyncStep(c) => run' = run
        /\ Ensure(c) \/ Pause(c) \/ PauseCancels(c) \/ Crash(c) => run' = run
    BY DEF Tick, DrainPage, DrainNext, SyncStep, SyncRead, SyncInit, SyncRecord, SyncAdvance,
           Ensure, Pause, PauseCancels, Crash
  <2> QED BY <1>1, <2>1, <2>2
<1>6. CASE \E c \in Cores, k \in Kinds : JobStep(c, k) /\ ~Reserve(c, k)
  <2>1. PICK c \in Cores, k \in Kinds : JobStep(c, k) /\ ~Reserve(c, k) BY <1>6
  <2>2. /\ AdvanceCursor(c, k) => run' = run
        /\ Claim(c, k) => run' = run
        /\ LoadTask(c, k) => run' = run
        /\ SettleOccurrence(c, k) => run' = run
        /\ Release(c, k) => run' = run
    BY DEF AdvanceCursor, Claim, LoadTask, SettleOccurrence, Release
  <2> QED BY <1>1, <2>1, <2>2 DEF JobStep
<1>7. CASE \/ \E s \in Slots : LeaseLapses(s)
           \/ Resume \/ SetSkipNext \/ EnablePolicy \/ CancelOccurrences
           \/ \E g \in Specs \cup {NoSpec} : EditSpec(g)
           \/ Clock \/ UNCHANGED vars
  <2>1. run' = run
    BY <1>7 DEF LeaseLapses, Resume, SetSkipNext, EnablePolicy, CancelOccurrences, EditSpec, Clock, vars
  <2> QED BY <1>1, <2>1
<1> QED BY <1>2, <1>3, <1>4, <1>5, <1>6, <1>7 DEF Next

\* What every kind of step keeps.
LEMMA KnownKeeps ==
    ASSUME IInv, DueInv, KnownStep
    PROVE  /\ now' = now \/ now' = now + 1
           /\ \A x \in Slots : occ[x].state = "dispatched" => occ'[x].state = "dispatched"
           /\ \A x \in Slots : occ'[x].state # "none" => occ[x].state # "none" \/ x <= now
           /\ ~task'.enabled => task'.next = 0
<1> USE DEF SameTask, SamePlan, StatesStill
<1>1. CASE StillStep \/ TimeStep BY <1>1 DEF StillStep, TimeStep, DueInv
<1>2. CASE NoteStep BY <1>2 DEF NoteStep, StateMoves, DueInv
<1>3. CASE RunStep BY <1>3 DEF RunStep, StateMoves, DueInv
<1>4. CASE DropStep
  <2>1. CASE CalledOff BY <1>4, <2>1 DEF DropStep, CalledOff, DueInv
  <2>2. CASE \E s \in Slots : StateMoves(s, "queued", "canceled") BY <1>4, <2>2 DEF DropStep, StateMoves, DueInv
  <2> QED BY <1>4, <2>1, <2>2 DEF DropStep
<1>5. CASE PassStep \/ SkipStep \/ StartStep BY <1>5 DEF PassStep, SkipStep, StartStep
<1>6. CASE PlanStep BY <1>6 DEF PlanStep, CalledOff
<1> QED BY <1>1, <1>2, <1>3, <1>4, <1>5, <1>6 DEF KnownStep

LEMMA DueNext == IInv /\ DueInv /\ [Next]_vars => DueInv'
<1> SUFFICES ASSUME IInv, DueInv, [Next]_vars PROVE DueInv' OBVIOUS
<1>1. KnownStep BY NextKnown
<1>2. now \in 0..MaxSlot /\ \A x \in Slots : x \in Nat BY CronAssumption DEF IInv, TypeOK, Slots
<1>3. \A x \in Nat : x <= now => x <= now' BY <1>1, <1>2, KnownKeeps
<1>4. \A s \in Slots : occ'[s].state # "none" => s <= now' BY <1>1, <1>2, <1>3, KnownKeeps DEF DueInv
<1>5. ASSUME NEW c \in Cores, job'[c]["tick"].pc # "idle" PROVE job'[c]["tick"].slot <= now'
  <2>1. job'[c]["tick"].slot <= now BY <1>5, TickKept DEF DueInv
  <2>2. job'[c]["tick"].slot \in Nat BY NextInv, CronAssumption DEF IInv, TypeOK, Jobs, Kinds
  <2> QED BY <1>3, <2>1, <2>2
<1>6. ASSUME NEW c \in Cores, sync'[c].pc \in {"record", "advance"} PROVE sync'[c].due <= now'
  <2>1. sync'[c].due <= now BY <1>6, SyncKept DEF DueInv
  <2>2. sync'[c].due \in Nat BY NextInv, CronAssumption DEF IInv, TypeOK, Syncs, Cursors
  <2> QED BY <1>3, <2>1, <2>2
<1>7. run'.st # "none" => run'.slot \in Slots /\ occ'[run'.slot].state = "dispatched"
  BY <1>1, RunKept, KnownKeeps DEF DueInv
<1>8. ~task'.enabled => task'.next = 0 BY <1>1, KnownKeeps
<1> QED BY <1>4, <1>5, <1>6, <1>7, <1>8 DEF DueInv

LEMMA DueInit == Init => DueInv
BY DEF Init, DueInv, NoOccurrence, NoJob, NoSync, NoRun, Kinds

\* Nothing is recorded before it is due.
LEMMA Dueness == Spec => [](IInv /\ DueInv)
BY InitInv, NextInv, DueInit, DueNext, PTL DEF Spec

\* Every kind of step is a step of Schedule, or leaves all it speaks of alone.
LEMMA KnownRefines ==
    ASSUME IInv, KnownStep PROVE S!ScheduleNext \/ UNCHANGED S!scheduleVars
<1> DEFINE item == [x \in Slots |-> occ[x].state]
<1>1. StatesStill => item' = item BY DEF StatesStill
<1>2. SamePlan => <<task'.spec, task'.enabled, task'.policy>> = <<task.spec, task.enabled, task.policy>>
  BY DEF SamePlan
<1>3. \A s \in Slots : \A from, to : StateMoves(s, from, to) => item[s] = from /\ item' = [item EXCEPT ![s] = to]
  BY DEF StateMoves
<1>4. CalledOff => item' = [x \in Slots |-> IF item[x] = "queued" THEN "canceled" ELSE item[x]]
  BY DEF CalledOff
<1>5. CASE StillStep BY <1>1, <1>2, <1>5 DEF StillStep, SameTask, S!scheduleVars
<1>6. CASE NoteStep
  <2>1. PICK s \in Slots : s <= now /\ StateMoves(s, "none", "queued") BY <1>6 DEF NoteStep
  <2>2. S!Note(s) BY <1>2, <1>3, <1>6, <2>1 DEF NoteStep, SameTask, S!Note
  <2> QED BY <2>2 DEF S!ScheduleNext
<1>7. CASE RunStep
  <2>1. PICK s \in Slots : StateMoves(s, "queued", "dispatched") /\ made' = [made EXCEPT ![s] = @ + 1]
    BY <1>7 DEF RunStep
  <2>2. S!Dispatch(s) BY <1>2, <1>3, <1>7, <2>1 DEF RunStep, SameTask, S!Dispatch
  <2> QED BY <2>2 DEF S!ScheduleNext
<1>8. CASE DropStep
  <2>1. PICK Q \in SUBSET {x \in Slots : item[x] = "queued"} :
          item' = [x \in Slots |-> IF x \in Q THEN "canceled" ELSE item[x]]
    <3>1. CASE CalledOff
      <4> WITNESS {x \in Slots : item[x] = "queued"} \in SUBSET {x \in Slots : item[x] = "queued"}
      <4> QED BY <1>4, <3>1
    <3>2. CASE \E s \in Slots : StateMoves(s, "queued", "canceled")
      <4>1. PICK s \in Slots : StateMoves(s, "queued", "canceled") BY <3>2
      <4>2. item[s] = "queued" /\ item' = [item EXCEPT ![s] = "canceled"] BY <1>3, <4>1
      <4>3. {s} \in SUBSET {x \in Slots : item[x] = "queued"} BY <4>2
      <4>4. item' = [x \in Slots |-> IF x \in {s} THEN "canceled" ELSE item[x]] BY <4>2
      <4> QED BY <4>3, <4>4
    <3> QED BY <1>8, <3>1, <3>2 DEF DropStep
  <2>2. S!CallOff BY <1>2, <1>8, <2>1 DEF DropStep, SameTask, S!CallOff
  <2> QED BY <2>2 DEF S!ScheduleNext
<1>9. CASE PassStep
  <2>1. S!Pass BY <1>1, <1>2, <1>9 DEF PassStep, S!Pass
  <2> QED BY <2>1 DEF S!ScheduleNext
<1>10. CASE SkipStep
  <2>1. PICK s \in Slots : occ[s].state = "dispatched" /\ task.next <= s /\ task'.next = s + 1
    BY <1>10 DEF SkipStep
  <2>2. S!SkipOver(s) BY <1>1, <1>2, <1>10, <2>1 DEF SkipStep, S!SkipOver
  <2> QED BY <2>2 DEF S!ScheduleNext
<1>11. CASE StartStep
  <2>1. S!Start BY <1>1, <1>2, <1>11 DEF StartStep, S!Start
  <2> QED BY <2>1 DEF S!ScheduleNext
<1>12. CASE PlanStep
  <2>1. <<task'.spec, task'.enabled, task'.policy>> # <<task.spec, task.enabled, task.policy>>
    BY <1>12 DEF PlanStep, SamePlan
  <2>2. S!Replan BY <1>1, <1>4, <1>12, <2>1 DEF PlanStep, S!Replan
  <2> QED BY <2>2 DEF S!ScheduleNext
<1>13. CASE TimeStep
  <2>1. S!TimePasses BY <1>1, <1>2, <1>13 DEF TimeStep, SameTask, S!TimePasses
  <2> QED BY <2>1 DEF S!ScheduleNext
<1> QED BY <1>5, <1>6, <1>7, <1>8, <1>9, <1>10, <1>11, <1>12, <1>13 DEF KnownStep

\* The cron engine, on any number of cores with any faults, implements the
\* abstract Schedule: an activation is recorded no earlier than it is due, ends
\* once, with one run or canceled, and the cursor leaves recorded activations only.
THEOREM CronRefinement == Spec => RefinesSchedule
<1>1. Init => S!ScheduleInit
  BY DEF Init, S!ScheduleInit, NoOccurrence
<1>2. IInv /\ DueInv /\ [Next]_vars => [S!ScheduleNext]_(S!scheduleVars)
  BY NextKnown, KnownRefines
<1> QED BY <1>1, <1>2, Dueness, PTL DEF Spec, RefinesSchedule, S!ScheduleSpec
=============================================================================
