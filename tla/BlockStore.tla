----------------------------- MODULE BlockStore -----------------------------
(***************************************************************************)
(* What the buffer cache promises (the comment at the head of              *)
(* kernel/bio.c): bread() gives one process at a time the block, with what *)
(* its last holder left there, however few buffers there are.              *)
(***************************************************************************)
CONSTANTS Procs, Blocks, Vals, NULL

VARIABLES
    view,       \* content of each block
    holder      \* process that has the block locked, or NULL

svars == <<view, holder>>

SInit == view \in [Blocks -> Vals] /\ holder = [k \in Blocks |-> NULL]

Get(p, k) == holder[k] = NULL /\ holder' = [holder EXCEPT ![k] = p] /\ UNCHANGED view

Update(p, k, v) == holder[k] = p /\ view' = [view EXCEPT ![k] = v] /\ UNCHANGED holder

Put(p, k) == holder[k] = p /\ holder' = [holder EXCEPT ![k] = NULL] /\ UNCHANGED view

SNext ==
    \E p \in Procs, k \in Blocks : Get(p, k) \/ Put(p, k) \/ \E v \in Vals : Update(p, k, v)

SSpec == SInit /\ [][SNext]_svars
=============================================================================
