---------------------------- MODULE ReplicatedLog ----------------------------
(***************************************************************************)
(* What replication promises of one node, whatever the network and the     *)
(* processes do: the node walks the log one event at a time; it leaves the *)
(* walk only behind a closed gate and only for a consistency point of the  *)
(* coordinator; and after that it opens the gate only where it has every   *)
(* event that the log had when it was given a stream again.                *)
(*                                                                         *)
(* RevokerNode.tla implements this specification.                          *)
(***************************************************************************)
EXTENDS Integers, Sequences

VARIABLES
    log,   \* the canonical log by LSN: "entry", "rotate", "hole" (a failed append)
    pos,   \* the LSN after which the node would resume
    alive, \* TRUE iff the node runs
    gate,  \* TRUE iff it answers checks
    mark   \* what it must reach before it does, or NoMark

vars == <<log, pos, alive, gate, mark>>

NoMark == -1

Kinds == {"entry", "rotate", "hole"}

\* A snapshot stands for the log up to a rotation, or up to nothing.
Points == {0} \cup {n \in DOMAIN log : log[n] = "rotate"}

LastEvent ==
    CHOOSE n \in 0..Len(log) :
        /\ n > 0 => log[n] # "hole"
        /\ \A m \in (n + 1)..Len(log) : log[m] = "hole"

Init ==
    /\ log = <<>>
    /\ pos = 0
    /\ alive = FALSE
    /\ gate = FALSE
    /\ mark = NoMark

Publish ==
    /\ \E kind \in Kinds : log' = Append(log, kind)
    /\ UNCHANGED <<pos, alive, gate, mark>>

\* A hole is never stepped over.
Apply ==
    /\ pos + 1 \in DOMAIN log
    /\ log[pos + 1] # "hole"
    /\ pos' = pos + 1
    /\ UNCHANGED <<log, alive, gate, mark>>

Close ==
    /\ gate' = FALSE
    /\ mark' = NoMark
    /\ UNCHANGED <<log, pos, alive>>

Install ==
    /\ ~gate
    /\ pos' \in Points
    /\ alive' \in {alive, TRUE}
    /\ mark' = NoMark
    /\ UNCHANGED <<log, gate>>

\* The coordinator accepts the first stream after an installation.
Attach ==
    /\ alive /\ ~gate
    /\ mark = NoMark
    /\ mark' = LastEvent
    /\ UNCHANGED <<log, pos, alive, gate>>

Open ==
    /\ alive
    /\ mark # NoMark
    /\ pos >= mark
    /\ gate' = TRUE
    /\ mark' = NoMark
    /\ UNCHANGED <<log, pos, alive>>

Halt ==
    /\ alive' = FALSE
    /\ gate' = FALSE
    /\ mark' = NoMark
    /\ UNCHANGED <<log, pos>>

\* A restart trusts the position it finds: there is no mark to reach.
Resume ==
    /\ ~alive
    /\ alive' = TRUE
    /\ gate' = TRUE
    /\ UNCHANGED <<log, pos, mark>>

Next == Publish \/ Apply \/ Close \/ Install \/ Attach \/ Open \/ Halt \/ Resume

Spec == Init /\ [][Next]_vars
=============================================================================
