------------------------------ MODULE MCRunner ------------------------------
(***************************************************************************)
(* Small instances of Runner.  Two messages in four payloads: a and a2     *)
(* decode to equal messages from different bytes, b to another message,    *)
(* and junk does not decode.                                               *)
(***************************************************************************)
EXTENDS Runner

CONSTANTS a, a2, b, junk, A, B

MCDecoded ==
  [p \in Payloads |->
     CASE p \in {a, a2} -> A
       [] p = b         -> B
       [] p = junk      -> DECODE_FAILURE]

\* E2 twice in message A, which is one more than modern's cap below; E3 when
\* the message is compared with an earlier one; S when a rule on any role sees
\* another role's file; X once per cross-feed report, against the last role.
MCFindings(message, before, together, hosted) ==
  (IF message = A THEN <<[rule_id |-> "E2", names |-> None],
                         [rule_id |-> "E2", names |-> None]>> ELSE <<>>)
  \o (IF before # None THEN <<[rule_id |-> "E3", names |-> None]>> ELSE <<>>)
  \o (IF Cardinality(DOMAIN together) > 1
       THEN <<[rule_id |-> "S", names |-> None]>> ELSE <<>>)
  \o (IF hosted # None
       THEN <<[rule_id |-> "X",
               names   |-> CHOOSE r \in DOMAIN hosted :
                             \A t \in DOMAIN hosted : role_key(t) <= role_key(r)]>>
       ELSE <<>>)

MCRules == {"E2", "E3", "S", "X"} \cup SystemErrorCode

MCOccurrences == [rule_id : MCRules, source : Names]

MCReplayCycles == {<<"rt">>}

MCThreeRoles == {<<"tu", "vp", "sa">>}

NothingFromTheGate == {DefaultContainer}

\* Modern's missing timezone, recorded before the first realtime file.
MaybeNoTimezone ==
  {DefaultContainer,
   [DefaultContainer EXCEPT !.counts[MISSING_REQUIRED_FIELD] = 1]}

=============================================================================
