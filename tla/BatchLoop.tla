----------------------------- MODULE BatchLoop -----------------------------
(***************************************************************************)
(* What the runner promises for ONE feed role, with everything else gone:  *)
(* no other role, no cycle, no file that fails, no clock, no writer.       *)
(*                                                                         *)
(* It is the loop of upstream's BatchProcessor as runner/dedupe.py and     *)
(* runner/equal_message.py state it: a payload is validated when it is not *)
(* the last payload validated, against the message of that last payload,   *)
(* and never when the two messages are equal and the run reproduces        *)
(* upstream's abort.  Runner implements one copy of this specification for *)
(* each role.                                                              *)
(***************************************************************************)
EXTENDS Sequences

CONSTANTS
  Payloads,           \* the byte strings an input can hold
  Messages,           \* the decoded messages
  Decoded,            \* Decoded[p]: the message in p, or why there is none
  None,               \* Python's None
  AbortsOnEqual       \* whether an equal message ends the run

VARIABLES
  prevHash,           \* the payload validated last, or None
  previousMessage,    \* its message, or None
  results             \* every validation so far: digest, message and previous

batchVars == <<prevHash, previousMessage, results>>

Init ==
  /\ prevHash = None
  /\ previousMessage = None
  /\ results = <<>>

Validate(p) ==
  /\ Decoded[p] \in Messages
  /\ p # prevHash
  /\ AbortsOnEqual => Decoded[p] # previousMessage
  /\ prevHash' = p
  /\ previousMessage' = Decoded[p]
  /\ results' = Append(results, [digest  |-> p,
                                 message |-> Decoded[p],
                                 was     |-> previousMessage])

Next == \E p \in Payloads : Validate(p)

Spec == Init /\ [][Next]_batchVars

=============================================================================
