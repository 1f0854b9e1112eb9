------------------------------ MODULE KillSwitch ------------------------------
(***************************************************************************)
(* What the hand-off between the AI and the staff promises a customer,     *)
(* with the requests, the queue and the database left out.                 *)
(*                                                                         *)
(* The switch is on while a human handles the conversation.  A customer    *)
(* message gets its verdict once, from the position of the switch at the   *)
(* instant it arrives, and the verdict is never revised: the AI speaks     *)
(* only about messages that arrived while the switch was off, and at most  *)
(* MaxAnswers times about each.  Module Handoff implements this            *)
(* specification; the instant of arrival is its read of the row.           *)
(***************************************************************************)
EXTENDS Naturals

CONSTANTS Messages,    \* customer messages
          MaxAnswers   \* how often the AI may speak about one message

VARIABLES human,     \* the switch
          verdict,   \* who a message was given to when it arrived
          spoken     \* how often the AI has answered a message

switchVars == <<human, verdict, spoken>>

Init == /\ human = FALSE
        /\ verdict = [m \in Messages |-> "none"]
        /\ spoken = [m \in Messages |-> 0]

Flip == /\ human' = ~human
        /\ UNCHANGED <<verdict, spoken>>

Arrive(m) == /\ verdict[m] = "none"
             /\ verdict' = [verdict EXCEPT ![m] = IF human THEN "human" ELSE "ai"]
             /\ UNCHANGED <<human, spoken>>

Speak(m) == /\ verdict[m] = "ai"
            /\ spoken[m] < MaxAnswers
            /\ spoken' = [spoken EXCEPT ![m] = @ + 1]
            /\ UNCHANGED <<human, verdict>>

Next == \/ Flip
        \/ \E m \in Messages : Arrive(m) \/ Speak(m)

Spec == Init /\ [][Next]_switchVars
===============================================================================
