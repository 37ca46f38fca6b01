--------------------------- MODULE AbstractReader ---------------------------
(***************************************************************************)
(* What a DDS reader promises, whatever its threads and locks do: samples  *)
(* arrive into a history of limited depth; a thread takes all that is      *)
(* there and keeps the oldest of it, in order; it shows listeners the      *)
(* sample in front and no other, and only a good one; it is done with that *)
(* sample, or lets go of all it has taken.  A sample is never in two hands *)
(* and never comes back.  DdsReader implements this (Implements).          *)
(***************************************************************************)
EXTENDS Integers, Sequences

CONSTANTS
    Threads,    \* threads that take samples
    Listeners,  \* listener objects
    Samples,    \* records with the fields id and tag
    Depth       \* history depth

VARIABLES
    arrived,    \* number of samples that have arrived
    pending,    \* samples nobody has taken, oldest first
    held,       \* samples each thread has taken and is not done with
    last        \* last[w][l]: last sample thread w showed listener l

vars == <<arrived, pending, held, last>>

Init ==
    /\ arrived = 0
    /\ pending = <<>>
    /\ held = [w \in Threads |-> <<>>]
    /\ last = [w \in Threads |-> [l \in Listeners |-> 0]]

Arrive ==
    /\ arrived' = arrived + 1
    /\ \E s \in Samples :
         /\ s.id = arrived + 1
         /\ pending' = Append(IF Len(pending) = Depth THEN Tail(pending) ELSE pending, s)
    /\ UNCHANGED <<held, last>>

Take(w) ==
    /\ held[w] = <<>>
    /\ \E n \in 0 .. Len(pending) : held' = [held EXCEPT ![w] = SubSeq(pending, 1, n)]
    /\ pending' = <<>>
    /\ UNCHANGED <<arrived, last>>

Show(w, l) ==
    /\ held[w] # <<>>
    /\ Head(held[w]).tag = "good"
    /\ last' = [last EXCEPT ![w][l] = Head(held[w]).id]
    /\ UNCHANGED <<arrived, pending, held>>

Done(w) ==
    /\ held[w] # <<>>
    /\ held' = [held EXCEPT ![w] = Tail(@)]
    /\ UNCHANGED <<arrived, pending, last>>

LetGo(w) ==
    /\ held' = [held EXCEPT ![w] = <<>>]
    /\ UNCHANGED <<arrived, pending, last>>

Next ==
    \/ Arrive
    \/ \E w \in Threads : \/ Take(w)
                          \/ \E l \in Listeners : Show(w, l)
                          \/ Done(w)
                          \/ LetGo(w)

Spec == Init /\ [][Next]_vars
=============================================================================
