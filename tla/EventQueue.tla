----------------------------- MODULE EventQueue -----------------------------
(***************************************************************************)
(* What the USB event queue promises: every event it has accepted is        *)
(* executed once, intact and in the order of acceptance; it refuses an      *)
(* event only while it holds Capacity of them; and events become visible    *)
(* to the main loop together, when the last context adding one is done.     *)
(***************************************************************************)
EXTENDS Integers, Sequences

CONSTANTS Event, Capacity

VARIABLES coming,    \* accepted, not yet visible to the main loop
          visible,   \* waiting for the main loop, oldest first
          executing, \* <<>>, or the event the main loop executes
          refused    \* whether the last event offered was refused

vars == <<coming, visible, executing, refused>>

Held == Len(coming) + Len(visible) + Len(executing)

Init == coming = <<>> /\ visible = <<>> /\ executing = <<>> /\ refused = FALSE

Accept(e) == /\ Held < Capacity
             /\ coming' = Append(coming, e)
             /\ refused' = FALSE
             /\ UNCHANGED <<visible, executing>>

Refuse == /\ Held = Capacity
          /\ refused' = TRUE
          /\ UNCHANGED <<coming, visible, executing>>

Reveal == /\ visible' = visible \o coming
          /\ coming' = <<>>
          /\ UNCHANGED <<executing, refused>>

Take == /\ executing = <<>> /\ visible # <<>>
        /\ executing' = <<Head(visible)>>
        /\ visible' = Tail(visible)
        /\ UNCHANGED <<coming, refused>>

Finish == /\ executing # <<>>
          /\ executing' = <<>>
          /\ UNCHANGED <<coming, visible, refused>>

Next == (\E e \in Event : Accept(e)) \/ Refuse \/ Reveal \/ Take \/ Finish

Spec == Init /\ [][Next]_vars
=============================================================================
