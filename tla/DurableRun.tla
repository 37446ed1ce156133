----------------------------- MODULE DurableRun -----------------------------
(***************************************************************************)
(* What the checkpoints of a run promise, without engine or store: a run   *)
(* is a walk, every step of the walk is durable as soon as it is made, and *)
(* whoever takes the run up again continues some durable walk at the node  *)
(* that is due after it.                                                   *)
(***************************************************************************)
EXTENDS Naturals, Sequences

CONSTANT None

VARIABLES walk,    \* finished nodes in order, each with the node it named next
          durable, \* the walks a run may be taken up from
          entry,   \* where the run in progress goes on after a walk that names no node
          phase    \* "idle", "active", "ending" (no node is due) or "closed"

\* The node due after a walk.  A walk that ends with an end node starts over.
Due == IF walk = <<>> \/ walk[Len(walk)].next = None THEN entry ELSE walk[Len(walk)].next

Init == walk = <<>> /\ durable = {<<>>} /\ entry = None /\ phase = "idle"

Begin ==
    /\ phase = "idle"
    /\ walk' \in durable
    /\ phase' \in {"active", "closed"}
    /\ UNCHANGED durable

\* The node that is due finishes and names the next one, if any.
Finish ==
    /\ phase = "active"
    /\ Len(walk') = Len(walk) + 1
    /\ SubSeq(walk', 1, Len(walk)) = walk
    /\ walk'[Len(walk')].node = Due
    /\ durable' = durable \cup {walk'}
    /\ phase' = IF walk'[Len(walk')].next = None THEN "ending" ELSE "active"
    /\ UNCHANGED entry

Close ==
    /\ phase \in {"active", "ending"} /\ phase' = "closed"
    /\ UNCHANGED <<walk, durable, entry>>

Leave ==
    /\ phase # "idle" /\ phase' = "idle"
    /\ walk' = <<>> /\ entry' = None
    /\ UNCHANGED durable

Next == Begin \/ Finish \/ Close \/ Leave

Spec == Init /\ [][Next]_<<walk, durable, entry, phase>>
=============================================================================
