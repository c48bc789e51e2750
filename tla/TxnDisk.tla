-------------------------------- MODULE TxnDisk --------------------------------
(***************************************************************************)
(* What the log promises to the file system: a disk that changes by whole  *)
(* transactions.  System calls read and write the current contents; a      *)
(* commit makes them durable and happens only when no system call is in    *)
(* progress; a crash brings back the contents of the last commit, in which *)
(* every system call is present entirely or not at all.                    *)
(***************************************************************************)
CONSTANTS Procs, Blocks, Vals

VARIABLES
    durable,   \* contents that survive a crash
    current,   \* contents that system calls see
    ops        \* system calls in progress

vars == <<durable, current, ops>>

Init ==
    /\ durable \in [Blocks -> Vals]
    /\ current = durable
    /\ ops = {}

Begin(p) ==
    /\ p \notin ops
    /\ ops' = ops \cup {p}
    /\ UNCHANGED <<durable, current>>

Write(p, b, v) ==
    /\ p \in ops
    /\ current' = [current EXCEPT ![b] = v]
    /\ UNCHANGED <<durable, ops>>

End(p) ==
    /\ p \in ops
    /\ ops' = ops \ {p}
    /\ UNCHANGED <<durable, current>>

Commit ==
    /\ ops = {}
    /\ durable' = current
    /\ UNCHANGED <<current, ops>>

Crash ==
    /\ current' = durable
    /\ ops' = {}
    /\ UNCHANGED durable

Next ==
    \/ \E p \in Procs : Begin(p) \/ End(p)
    \/ \E p \in Procs, b \in Blocks, v \in Vals : Write(p, b, v)
    \/ Commit
    \/ Crash

Spec == Init /\ [][Next]_vars

=============================================================================
