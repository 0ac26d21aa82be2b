--------------------------- MODULE FifoSemaphore ---------------------------
(***************************************************************************)
(* What the semaphores promise: each has a number of tokens and a queue of *)
(* processes, who sleep as long as they are in it.  A post gives exactly   *)
(* one token: to the first of the queue, who is woken, or back to the      *)
(* semaphore when nobody waits.                                            *)
(***************************************************************************)
EXTENDS Naturals, Sequences

CONSTANTS Process, Id, InitialValue

VARIABLES tokens, \* the value of each semaphore
          queue,  \* who waits for it, the first to come first
          asleep  \* who sleeps for it

fifoVars == <<tokens, queue, asleep>>

Init ==
    /\ tokens = [s \in Id |-> InitialValue]
    /\ queue = [s \in Id |-> <<>>]
    /\ asleep = [s \in Id |-> {}]

Take(s) ==
    /\ tokens[s] > 0 /\ queue[s] = <<>>
    /\ tokens' = [tokens EXCEPT ![s] = @ - 1]
    /\ UNCHANGED <<queue, asleep>>

Join(s, p) ==
    /\ tokens[s] = 0 /\ p \notin asleep[s]
    /\ queue' = [queue EXCEPT ![s] = Append(@, p)]
    /\ asleep' = [asleep EXCEPT ![s] = @ \cup {p}]
    /\ UNCHANGED tokens

GiveBack(s) ==
    /\ queue[s] = <<>>
    /\ tokens' = [tokens EXCEPT ![s] = @ + 1]
    /\ UNCHANGED <<queue, asleep>>

GiveToFirst(s) ==
    /\ queue[s] # <<>>
    /\ queue' = [queue EXCEPT ![s] = Tail(@)]
    /\ asleep' = [asleep EXCEPT ![s] = @ \ {Head(queue[s])}]
    /\ UNCHANGED tokens

Next == \E s \in Id : \/ Take(s) \/ GiveBack(s) \/ GiveToFirst(s)
                      \/ \E p \in Process : Join(s, p)

Spec == Init /\ [][Next]_fifoVars
=============================================================================
