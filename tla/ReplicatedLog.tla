--------------------------- MODULE ReplicatedLog ---------------------------
(***************************************************************************)
(* What the cluster promises its state machines: one log that only ever    *)
(* grows, of which every replica has applied a prefix.  A replica that     *)
(* commits is the first to apply; the others follow; one that restarts     *)
(* starts over from some earlier position.                                 *)
(*                                                                         *)
(* The promise is void from the moment `sound' turns FALSE.                *)
(***************************************************************************)
EXTENDS Naturals, Sequences

CONSTANT Replicas

VARIABLES
    log,      \* the committed entries
    applied,  \* applied[r]: what the state machine of r has been fed
    sound     \* FALSE once the implementation has left its envelope

Prefix(k) == SubSeq(log, 1, k)

LogInit ==
    /\ log = <<>>
    /\ applied = [r \in Replicas |-> <<>>]
    /\ sound = TRUE

\* Replica r commits entries and applies them at once.
Commit(r) ==
    /\ Len(log') > Len(log)
    /\ SubSeq(log', 1, Len(log)) = log
    /\ applied' = [applied EXCEPT ![r] = log']

\* Replica r applies further entries that are already committed.
Apply(r) ==
    /\ \E k \in (Len(applied[r]) + 1)..Len(log) :
          applied' = [applied EXCEPT ![r] = Prefix(k)]
    /\ UNCHANGED log

\* Replica r restarts and replays the log up to a position it had reached.
Replay(r) ==
    /\ \E k \in 0..Len(applied[r]) : applied' = [applied EXCEPT ![r] = Prefix(k)]
    /\ UNCHANGED log

LogNext ==
    \/ sound /\ sound' /\ \E r \in Replicas : Commit(r) \/ Apply(r) \/ Replay(r)
    \/ ~sound'

LogSpec == LogInit /\ [][LogNext]_<<log, applied, sound>>

=============================================================================
