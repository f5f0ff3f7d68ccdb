---------------------------- MODULE PerfChannel ----------------------------
(***************************************************************************)
(* What a perf buffer promises its user for each CPU: records come whole,  *)
(* once and in the order they were put out.  A record that finds no room   *)
(* is lost, and how many were lost in a row is told, as a record of its    *)
(* own, before the next one that is not.                                   *)
(***************************************************************************)
EXTENDS Naturals, Sequences

CONSTANTS CPUs, Samples

VARIABLES
  open,  \* the user reads the channel
  queue, \* records on their way
  lost,  \* records lost since the last one that was not
  got    \* records that the callback has had

Lost(n) == [lost |-> n]
LostRecords == [lost : Nat \ {0}]

Init ==
  /\ open = FALSE
  /\ queue = [c \in CPUs |-> <<>>]
  /\ lost = [c \in CPUs |-> 0]
  /\ got = [c \in CPUs |-> <<>>]

\* a sample is put behind what is there, and behind a record of the losses
Put(c) ==
  LET told == IF lost[c] = 0 THEN <<>> ELSE <<Lost(lost[c])>>
      new == queue'[c][Len(queue'[c])]
  IN  /\ Len(queue'[c]) > Len(queue[c])
      /\ new \in Samples
      /\ queue' = [queue EXCEPT ![c] = @ \o told \o <<new>>]
      /\ lost' = [lost EXCEPT ![c] = 0]
      /\ UNCHANGED <<got, open>>

Lose(c) ==
  /\ lost' = [lost EXCEPT ![c] = @ + 1]
  /\ UNCHANGED <<queue, got, open>>

Get(c) ==
  /\ queue[c] # <<>>
  /\ queue' = [queue EXCEPT ![c] = Tail(@)]
  /\ got' = [got EXCEPT ![c] = Append(@, Head(queue[c]))]
  /\ UNCHANGED <<lost, open>>

(* The user begins to read, and gives the channel up.                      *)
Open == ~open /\ open' = TRUE /\ UNCHANGED <<queue, lost, got>>
GiveUp == open /\ open' = FALSE /\ UNCHANGED <<queue, lost, got>>

\* what is on its way is dropped when nobody reads
Drop(c) ==
  /\ ~open
  /\ queue' = [queue EXCEPT ![c] = <<>>]
  /\ lost' = [lost EXCEPT ![c] = 0]
  /\ UNCHANGED <<got, open>>

Next ==
  \/ \E c \in CPUs : Put(c)
  \/ \E c \in CPUs : Lose(c)
  \/ \E c \in CPUs : Get(c)
  \/ Open \/ GiveUp
  \/ \E c \in CPUs : Drop(c)

Spec == Init /\ [][Next]_<<open, queue, lost, got>>
=============================================================================
