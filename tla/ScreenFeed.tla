----------------------------- MODULE ScreenFeed ------------------------------
(***************************************************************************)
(* What everybody watching an agent is promised: a terminal that shows     *)
(* what the agent's terminal showed at some moment, that moves forward     *)
(* through every piece of its output in turn, skipping and repeating none. *)
(***************************************************************************)
EXTENDS Naturals

CONSTANTS
    Viewers,
    Blank        \* what a terminal shows before the first repaint

VARIABLES
    output,      \* how many pieces the agent has written
    shown        \* [Viewers -> Nat \cup {Blank}], the last piece each has drawn

Init ==
    /\ output = 0
    /\ shown = [v \in Viewers |-> Blank]

AgentWrites ==
    /\ output' = output + 1
    /\ UNCHANGED shown

\* A repaint: the whole screen as it was after some piece.
Repaint(v) ==
    /\ shown[v] = Blank
    /\ \E n \in 0..output : shown' = [shown EXCEPT ![v] = n]
    /\ UNCHANGED output

\* The next piece.
Follow(v) ==
    /\ shown[v] # Blank
    /\ shown[v] < output
    /\ shown' = [shown EXCEPT ![v] = @ + 1]
    /\ UNCHANGED output

\* The connection ends, and what was drawn no longer counts.
Leave(v) ==
    /\ shown[v] # Blank
    /\ shown' = [shown EXCEPT ![v] = Blank]
    /\ UNCHANGED output

Next == AgentWrites \/ \E v \in Viewers : Repaint(v) \/ Follow(v) \/ Leave(v)

Spec == Init /\ [][Next]_<<output, shown>>

=============================================================================
