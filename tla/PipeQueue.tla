----------------------------- MODULE PipeQueue -----------------------------
(***************************************************************************)
(* What a pipe promises: a queue of bounded length, and an end that a      *)
(* reader meets only when the queue is empty and nobody can write any      *)
(* more.  It forgets what it holds only when nobody can read that either.  *)
(***************************************************************************)
EXTENDS Integers, Sequences

CONSTANTS
    Process, Pipe, Char, Capacity,
    Text \* the strings that are written

VARIABLES
    queue,     \* the characters in each pipe
    holders,   \* the processes that have each pipe open
    writers,   \* those of them that can write to it
    unwritten, \* what is left of the string that each process writes
    ended      \* the processes whose last read met the end of the pipe

queueVars == <<queue, holders, writers, unwritten, ended>>

Init ==
    /\ queue = [f \in Pipe |-> <<>>]
    /\ holders = [f \in Pipe |-> {}] /\ writers = [f \in Pipe |-> {}]
    /\ unwritten = [p \in Process |-> <<>>] /\ ended = {}

\* Any number of processes open, inherit or close ends.
ChangeEnds ==
    /\ holders' \in [Pipe -> SUBSET Process] /\ writers' \in [Pipe -> SUBSET Process]
    /\ \A f \in Pipe : writers'[f] \subseteq holders'[f]
    /\ queue' \in {q \in [Pipe -> Seq(Char)] :
                      \A f \in Pipe : q[f] = queue[f] \/ (q[f] = <<>> /\ holders'[f] = {})}
    /\ UNCHANGED <<unwritten, ended>>

\* A write of the string s, or of what is left of it: what does not fit is left again.
Put(f, p, s) ==
    /\ p \in writers[f]
    /\ unwritten[p] \in {<<>>, s}
    /\ queue'[f] \o unwritten'[p] = queue[f] \o s
    /\ Len(queue[f]) <= Len(queue'[f])
    /\ IF unwritten'[p] = <<>> THEN Len(queue'[f]) <= Capacity
                               ELSE Len(queue'[f]) = Capacity
    /\ queue' = [queue EXCEPT ![f] = queue'[f]]
    /\ unwritten' = [unwritten EXCEPT ![p] = unwritten'[p]]
    /\ UNCHANGED <<holders, writers, ended>>

\* A read of n characters that returns or goes to sleep.
Take(f, p, n) ==
    /\ p \in holders[f]
    /\ queue' = [queue EXCEPT ![f] = SubSeq(@, n + 1, Len(@))]
    /\ \/ ended' = ended \ {p}
       \/ ended' = ended \cup {p} /\ queue'[f] = <<>> /\ writers[f] = {}
       \/ ended' = ended
    /\ UNCHANGED <<holders, writers, unwritten>>

Next ==
    \/ ChangeEnds
    \/ \E f \in Pipe, p \in Process :
          \/ \E s \in Text \cup {unwritten[p]} : Put(f, p, s)
          \/ \E n \in 0 .. Len(queue[f]) : Take(f, p, n)

Spec == Init /\ [][Next]_queueVars
=============================================================================
