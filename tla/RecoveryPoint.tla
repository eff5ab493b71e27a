---------------------------- MODULE RecoveryPoint ----------------------------
(***************************************************************************)
(* What retention promises about one recovery point, whoever carries it    *)
(* out and however often it fails: the stored bytes go away only after the *)
(* point was closed to new readers, every reader has left and no hold      *)
(* protects it; a point reported gone really is gone; a retired point can  *)
(* only be purged, never read again.                                       *)
(***************************************************************************)
CONSTANT Readers

VARIABLES
    status,   \* "open" to readers, "closing", "retired" or "gone"
    readers,  \* who may still be reading
    held,     \* an administrator's hold protects the point
    stored    \* the provider still has the bytes

pointVars == <<status, readers, held, stored>>

PointInit ==
    /\ status = "open"
    /\ readers = {}
    /\ held = FALSE
    /\ stored = TRUE

Open(r) ==
    /\ status = "open"
    /\ readers' = readers \cup {r}
    /\ UNCHANGED <<status, held, stored>>

\* Some readers leave, by themselves or because their time is up.
Leave ==
    /\ readers' \in SUBSET readers
    /\ UNCHANGED <<status, held, stored>>

Hold ==
    /\ status = "open"
    /\ held' = TRUE
    /\ UNCHANGED <<status, readers, stored>>

Unhold ==
    /\ held' = FALSE
    /\ UNCHANGED <<status, readers, stored>>

Close ==
    /\ status \in {"open", "retired"}
    /\ status' = "closing"
    /\ UNCHANGED <<readers, held, stored>>

Retire ==
    /\ status = "closing"
    /\ readers = {} /\ ~held
    /\ status' = "retired"
    /\ UNCHANGED <<readers, held, stored>>

Destroy ==
    /\ status = "closing"
    /\ readers = {} /\ ~held
    /\ stored' = FALSE
    /\ UNCHANGED <<status, readers, held>>

Finish ==
    /\ status = "closing"
    /\ ~stored
    /\ status' = "gone"
    /\ UNCHANGED <<readers, held, stored>>

PointNext ==
    \/ \E r \in Readers : Open(r)
    \/ Leave \/ Hold \/ Unhold \/ Close \/ Retire \/ Destroy \/ Finish

PointSpec == PointInit /\ [][PointNext]_pointVars
=============================================================================
