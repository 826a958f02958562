-------------------------------- MODULE Screen --------------------------------
(***************************************************************************)
(* What the frame buffer promises the rest of the program: a draw that was *)
(* asked for paints the whole list of items, as it stood at one moment     *)
(* after the draw was taken on, and nothing is painted unasked.            *)
(***************************************************************************)
EXTENDS Sequences

CONSTANT Items

VARIABLES
    items,      \* the list of the current context
    asked,      \* a draw has been asked for
    phase,      \* of the draw: "none", "taken", "pictured"
    picture     \* what this draw paints

screenVars == <<items, asked, phase, picture>>

Init == items = <<>> /\ asked = FALSE /\ phase = "none" /\ picture = <<>>

Change ==
    /\ items' \in Seq(Items)
    /\ UNCHANGED <<asked, phase, picture>>

Ask == asked' = TRUE /\ UNCHANGED <<items, phase, picture>>
Withdraw == asked' = FALSE /\ UNCHANGED <<items, phase, picture>>

Take ==
    /\ asked /\ phase = "none"
    /\ asked' = FALSE
    /\ phase' = "taken"
    /\ UNCHANGED <<items, picture>>

Capture ==
    /\ phase = "taken"
    /\ phase' = "pictured"
    /\ picture' = items
    /\ UNCHANGED <<items, asked>>

Show ==
    /\ phase = "pictured"
    /\ phase' = "none"
    /\ picture' = <<>>
    /\ UNCHANGED <<items, asked>>

Next == Change \/ Ask \/ Withdraw \/ Take \/ Capture \/ Show

Spec == Init /\ [][Next]_screenVars
===============================================================================
