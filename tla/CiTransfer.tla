------------------------------ MODULE CiTransfer ------------------------------
(***************************************************************************)
(* What a receiver of MIDI-CI messages promises: for each message exactly  *)
(* the calls that it should lead to, when its last byte arrives or before. *)
(***************************************************************************)
CONSTANT Outcome(_)  \* the calls for a message: none, or one

VARIABLES
  sent,  \* {the message that is under way}
  open,  \* are bytes of it still to come
  calls  \* the calls that have been made for it

vars == <<sent, open, calls>>

Init == sent = {} /\ open = FALSE /\ calls = <<>>

Send ==
  /\ sent = {} /\ \E message \in sent' : sent' = {message}
  /\ open' = TRUE /\ UNCHANGED calls

\* The calls are made on the way, or with the last byte.
Answer(message) ==
  /\ open /\ calls = <<>> /\ Outcome(message) # <<>>
  /\ calls' = Outcome(message) /\ open' \in BOOLEAN
  /\ UNCHANGED sent
Complete(message) ==
  /\ open /\ calls = Outcome(message)
  /\ open' = FALSE /\ UNCHANGED <<sent, calls>>

\* The message is over, or has been cut off.
Over            == sent' = {} /\ open' = FALSE /\ calls' = <<>>
End(message)    == ~open /\ calls = Outcome(message) /\ Over
CutOff(message) == open /\ Over

Proceed == \E message \in sent : Answer(message) \/ Complete(message) \/ End(message)

Next == Send \/ Proceed \/ \E message \in sent : CutOff(message)

Spec == Init /\ [][Next]_vars /\ WF_vars(Proceed)
===============================================================================
