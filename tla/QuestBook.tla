------------------------------ MODULE QuestBook ------------------------------
(***************************************************************************)
(* What the quest book promises a player: quests are completed in an order *)
(* that respects their prerequisites, and a completed quest is forgotten   *)
(* only at a fault.  faults counts the faults so far.                      *)
(***************************************************************************)
EXTENDS Integers

CONSTANTS Quests, Prereqs

VARIABLES done, faults
bookVars == <<done, faults>>

Closed(S) == \A q \in S : Prereqs[q] \subseteq S

Init == done = {} /\ faults = 0

\* Some quests are completed, each after its prerequisites.
Complete ==
    /\ done \subseteq done' /\ done' \subseteq Quests
    /\ \A q \in done' \ done : Prereqs[q] \subseteq done'
    /\ faults' = faults

Fault ==
    /\ done' \subseteq done
    /\ faults' = faults + 1

Next == Complete \/ Fault
Spec == Init /\ [][Next]_bookVars

TypeOK == done \subseteq Quests /\ faults \in Nat

\* While nothing has failed, everything a completed quest depends on has been
\* completed: no order of crafts, joins and restores skips a quest.
ClosedIfFaultless == faults = 0 => Closed(done)

=============================================================================
