--------------------------- MODULE SampleDelivery ---------------------------
(***************************************************************************)
(* What isok-offloader promises an agent about its samples, and the reader *)
(* of Warp10 about the series stored there.                                *)
(*                                                                         *)
(*   produced   the samples agents sent to the topic                       *)
(*   done       those the broker was told are done with                    *)
(*   ahead      the samples Warp10 has still to get, in that order         *)
(*   ends       what became of samples                                     *)
(*                                                                         *)
(* A sample that is not done with may be taken, and taken again.  One that *)
(* was taken is stored or refused when it is its turn; or it falls out at  *)
(* the front, all but the last Capacity ones at a time; or everything that *)
(* was taken is lost in a crash.  No sample is done with that has not been *)
(* taken.                                                                  *)
(***************************************************************************)
EXTENDS Integers, Sequences

CONSTANTS
    Ids,         \* the samples
    Capacity     \* how many samples always stay ahead

VARIABLES produced, done, ahead, ends

vars == <<produced, done, ahead, ends>>

End(i, how) == [sample |-> i, how |-> how]

Ended(i) == \E e \in ends : e.sample = i

Ahead(i) == \E k \in DOMAIN ahead : ahead[k] = i

Init ==
    /\ produced = {}
    /\ done = {}
    /\ ahead = <<>>
    /\ ends = {}

Produce(i) ==
    /\ i \notin produced
    /\ produced' = produced \cup {i}
    /\ UNCHANGED <<done, ahead, ends>>

Take(i) ==
    /\ i \in produced \ done
    /\ ahead' = Append(ahead, i)
    /\ UNCHANGED <<produced, done, ends>>

Forget(i) ==
    /\ i \in produced \ done
    /\ Ahead(i) \/ Ended(i)
    /\ done' = done \cup {i}
    /\ UNCHANGED <<produced, ahead, ends>>

Post(how) ==
    /\ ahead # <<>>
    /\ ends' = ends \cup {End(Head(ahead), how)}
    /\ ahead' = Tail(ahead)
    /\ UNCHANGED <<produced, done>>

Overwrite ==
    LET n == Len(ahead) - Capacity
    IN  /\ n > 0
        /\ ends' = ends \cup {End(ahead[k], "overwritten") : k \in 1 .. n}
        /\ ahead' = SubSeq(ahead, n + 1, Len(ahead))
        /\ UNCHANGED <<produced, done>>

Crash ==
    /\ ends' = ends \cup {End(ahead[k], "crashed") : k \in DOMAIN ahead}
    /\ ahead' = <<>>
    /\ UNCHANGED <<produced, done>>

Next ==
    \/ \E i \in Ids : Produce(i) \/ Take(i) \/ Forget(i)
    \/ Post("stored") \/ Post("refused")
    \/ Overwrite \/ Crash

Spec == Init /\ [][Next]_vars
============================================================================
