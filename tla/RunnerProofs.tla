---------------------------- MODULE RunnerProofs ----------------------------
(***************************************************************************)
(* What the validation loop guarantees for every set of roles, payloads    *)
(* and messages, every configuration and any number of cycles.             *)
(*                                                                         *)
(* The argument has one idea.  The duplicate test is made when a source is *)
(* read and the basis moves when its message is recorded, and other        *)
(* messages of the cycle are recorded in between.  QueueInv says why the   *)
(* test is still true by then: the roles of a cycle are distinct, so       *)
(* nothing recorded in between moved this role's basis.                    *)
(***************************************************************************)
EXTENDS Runner, NoticesProofs, SequenceTheorems

\* Every cycle lists each role once.
LEMMA ShapesAreInjective ==
  ASSUME NEW shape \in CycleShapes
  PROVE  /\ shape \in Seq(Roles)
         /\ \A i, j \in DOMAIN shape : i # j => shape[i] # shape[j]
<1>1. shape \in Seq(Roles)
  BY RunAssumption
<1>2. ASSUME NEW i \in DOMAIN shape, NEW j \in DOMAIN shape, i # j
      PROVE  shape[i] # shape[j]
  <2>1. role_key(shape[i]) \in DOMAIN ROLE_ORDER /\ role_key(shape[j]) \in DOMAIN ROLE_ORDER
    BY <1>1, RunAssumption DEF role_key
  <2>2. DOMAIN ROLE_ORDER = 1..4
    BY DEF ROLE_ORDER
  <2>3. i \in Nat /\ j \in Nat /\ (i < j \/ j < i)
    BY <1>1, <1>2
  <2>4. role_key(shape[i]) # role_key(shape[j])
    BY <2>1, <2>2, <2>3, <1>2, CyclesAreOrdered
  <2>5. QED
    BY <2>4
<1>3. QED
  BY <1>1, <1>2

-----------------------------------------------------------------------------
\* What each phase of the loop has in hand.
PhaseInv ==
  /\ pc \in {"clock", "decode"} => source \in Roles /\ data \in Payloads
  /\ pc \notin {"clock", "decode", "fetch raised", "stat failed"} => source = None
  /\ pc \in {"validate", "walk", "record"} =>
       decoded # <<>> /\ pending = <<>> /\ view \in Views
  /\ pc \in {"cycle", "done"} => decoded = <<>> /\ pending = <<>>
  /\ pc \notin {"cycle", "done"} => cycle >= 1

TypeInv == TypeOK /\ PhaseInv

LEMMA SystemErrorType ==
  ASSUME TypeInv, NEW code \in SystemErrorCode, NEW role \in Roles, cycle >= 1,
         system_error(code, role)
  PROVE  system_errors' \in Container
<1>1. <<cycle, role>> \in Names
  BY RunAssumption DEF TypeInv, TypeOK, Names
<1>2. [rule_id |-> code, source |-> <<cycle, role>>] \in Occurrences
  BY <1>1, DataAssumption
<1>3. QED
  BY <1>2, AddType DEF system_error, TypeInv, TypeOK

\* Reading a source keeps the types of everything Announce touches.
LEMMA AnnounceType ==
  ASSUME TypeInv, NEW role \in Roles, Announce(role)
  PROVE  /\ cycle >= 1 /\ cycle' = cycle /\ source = None
         /\ pending' \in Seq(Roles)
         /\ inputs' \in Seq(Names)
         /\ roles' \in [Roles -> Names \cup {None}]
<1>1. cycle >= 1 /\ cycle' = cycle /\ source = None
  BY DEF TypeInv, PhaseInv, Announce
<1>2. <<cycle, role>> \in Names
  BY <1>1, RunAssumption DEF TypeInv, TypeOK, Names
<1>3. pending' \in Seq(Roles)
  BY DEF TypeInv, TypeOK, Announce
<1>4. inputs' \in Seq(Names)
  BY <1>2 DEF TypeInv, TypeOK, Announce
<1>5. roles' \in [Roles -> Names \cup {None}]
  BY <1>2 DEF TypeInv, TypeOK, Announce
<1>6. QED
  BY <1>1, <1>3, <1>4, <1>5

\* The cycle view is a function from the roles that decoded to messages.
LEMMA ViewType ==
  ASSUME TypeOK, decoded # <<>>
  PROVE  view_of(decoded) \in Views
<1> DEFINE D == [role : Roles, digest : Payloads, message : Messages]
<1> DEFINE at(r) == CHOOSE i \in DOMAIN decoded : decoded[i].role = r
<1>0. ASSUME NEW i \in DOMAIN decoded
      PROVE  decoded[i] \in D
  <2>1. decoded \in Seq(D)
    BY DEF TypeOK
  <2> HIDE DEF D
  <2>2. QED
    BY <2>1
<1>1. RolesOf(decoded) \in (SUBSET Roles) \ {{}}
  <2>1. 1 \in DOMAIN decoded
    <3>1. decoded \in Seq(D)
      BY DEF TypeOK
    <3> HIDE DEF D
    <3>2. QED
      BY <3>1, EmptySeq
  <2>2. decoded[1].role \in RolesOf(decoded)
    BY <2>1 DEF RolesOf
  <2>3. \A r \in RolesOf(decoded) : r \in Roles
    BY <1>0 DEF RolesOf
  <2>4. QED
    BY <2>2, <2>3
<1>2. ASSUME NEW r \in RolesOf(decoded)
      PROVE  decoded[at(r)].message \in Messages
  <2>1. PICK i \in DOMAIN decoded : decoded[i].role = r
    BY DEF RolesOf
  <2>2. at(r) \in DOMAIN decoded
    BY <2>1 DEF at
  <2>3. QED
    BY <2>2, <1>0
<1>3. view_of(decoded) \in [RolesOf(decoded) -> Messages]
  BY <1>2 DEF view_of, at
<1>4. QED
  BY <1>1, <1>3 DEF Views

\* The message being validated, in the three phases that have one.
LEMMA OneType ==
  ASSUME TypeInv, pc \in {"validate", "walk", "record"}
  PROVE  /\ one \in [role : Roles, digest : Payloads, message : Messages]
         /\ one = decoded[1]
         /\ <<cycle, one.role>> \in Names
         /\ was(one.role) \in Messages \cup {None}
         /\ view \in Views /\ combined(one.role) \in Views \cup {None}
<1> DEFINE D == [role : Roles, digest : Payloads, message : Messages]
<1>1. decoded \in Seq(D) /\ decoded # <<>> /\ cycle >= 1
  BY DEF TypeInv, TypeOK, PhaseInv
<1>2. one \in D /\ one = decoded[1]
  <2> HIDE DEF D
  <2>1. QED
    BY <1>1, HeadTailProperties DEF one
<1>3. <<cycle, one.role>> \in Names
  BY <1>1, <1>2, RunAssumption DEF TypeInv, TypeOK, Names
<1>4. was(one.role) \in Messages \cup {None}
  BY <1>2 DEF was, TypeInv, TypeOK
<1>5. view \in Views /\ combined(one.role) \in Views \cup {None}
  BY DEF combined, TypeInv, TypeOK, PhaseInv
<1>6. QED
  BY <1>2, <1>3, <1>4, <1>5

\* A finding, stamped, is an occurrence of this cycle.
LEMMA StampedType ==
  ASSUME TypeInv, pc = "walk", todo # <<>>
  PROVE  /\ todo' = Tail(todo) => todo' \in Seq(Finding)
         /\ stamped(Head(todo), one.role) \in Occurrences
         /\ stamped(Head(todo), one.role).source[1] = cycle
<1>1. /\ todo \in Seq(Finding) /\ one.role \in Roles
      /\ cycle \in 0..MaxCycles /\ cycle >= 1
  BY OneType DEF TypeInv, TypeOK, PhaseInv
<1>2. Head(todo) \in Finding /\ Tail(todo) \in Seq(Finding)
  <2> HIDE DEF Finding
  <2>1. QED
    BY <1>1, HeadTailProperties
<1> DEFINE named == IF Head(todo).names = None THEN one.role ELSE Head(todo).names
<1>3. Head(todo).rule_id \in Rules /\ named \in Roles
  BY <1>1, <1>2 DEF Finding
<1>4. <<cycle, named>> \in Names
  BY <1>1, <1>3, RunAssumption DEF Names
<1>5. stamped(Head(todo), one.role) = [rule_id |-> Head(todo).rule_id, source |-> <<cycle, named>>]
  BY DEF stamped
<1> HIDE DEF named
<1>6. [rule_id |-> Head(todo).rule_id, source |-> <<cycle, named>>] \in Occurrences
  BY <1>3, <1>4, DataAssumption
<1>7. QED
  BY <1>2, <1>5, <1>6

LEMMA InitType == Init => TypeInv
<1> SUFFICES ASSUME Init PROVE TypeInv
  OBVIOUS
<1>1. PICK found \in GateErrors : system_errors = merge(DefaultContainer, found)
  BY DEF Init
<1>2. system_errors \in Container
  BY <1>1, DefaultsType, MergeType, DataAssumption
<1>3. TypeOK
  BY <1>2, DefaultsType, RunAssumption DEF Init, TypeOK
<1>4. PhaseInv
  BY DEF Init, PhaseInv
<1>5. QED
  BY <1>3, <1>4 DEF TypeInv

LEMMA ActionDisjuncts ==
  ASSUME Next
  PROVE  \/ BeginCycle \/ EndOfInputs
         \/ \E role \in Roles : Unreadable(role) \/ FetchRaises(role)
         \/ \E role \in Roles, payload \in Payloads : Suppress(role, payload)
         \/ \E role \in Roles, payload \in Payloads : Read(role, payload)
         \/ TakeClock \/ FallBackToModificationTime \/ StatFails
         \/ DecodeFails \/ Decode
         \/ AbandonCycle \/ Combine
         \/ AbortOnEqualMessage \/ Validate \/ Collect
         \/ Deliver \/ SinkFails \/ Record
BY DEF Next, Acquire

\* Every step keeps the types and the phase facts.
LEMMA NextType == TypeInv /\ [Next]_vars => TypeInv'
<1> SUFFICES ASSUME TypeInv, [Next]_vars PROVE TypeInv'
  OBVIOUS
<1> USE DEF loopVars, walkVars, basisVars, tallyVars, histVars
<1>1. CASE BeginCycle
  <2>1. PICK shape \in CycleShapes : pending' = shape
    BY <1>1 DEF BeginCycle
  <2>2. pending' \in Seq(Roles)
    BY <2>1, ShapesAreInjective
  <2>3. cycle' \in 0..MaxCycles /\ cycle' >= 1
    BY <1>1, RunAssumption DEF BeginCycle, TypeInv, TypeOK
  <2>4. TypeOK'
    BY <1>1, <2>2, <2>3 DEF BeginCycle, TypeInv, TypeOK
  <2>5. PhaseInv'
    BY <1>1, <2>3 DEF BeginCycle, TypeInv, PhaseInv
  <2>6. QED
    BY <2>4, <2>5 DEF TypeInv
<1>2. CASE EndOfInputs
  BY <1>2 DEF EndOfInputs, TypeInv, TypeOK, PhaseInv, Ended
<1>3. ASSUME NEW role \in Roles, Unreadable(role) PROVE TypeInv'
  <2>1. UNREADABLE_FILE \in SystemErrorCode
    BY DEF SystemErrorCode
  <2>2. Announce(role) /\ system_error(UNREADABLE_FILE, role)
    BY <1>3 DEF Unreadable
  <2>3. system_errors' \in Container
    BY <2>1, <2>2, SystemErrorType, AnnounceType
  <2>7. skipped' \in Nat
    BY <1>3 DEF Unreadable, skip, TypeInv, TypeOK
  <2>8. UNCHANGED <<pc, cycle, source, data, decoded, view, container, todo, notices,
                    basis, previous, validated, written, results, reports>>
    BY <1>3, <2>2 DEF Unreadable, Announce
  <2>4. TypeOK'
    BY <2>2, <2>3, <2>7, <2>8, AnnounceType DEF TypeInv, TypeOK
  <2>5. PhaseInv'
    BY <1>3, <2>2 DEF Unreadable, Announce, TypeInv, PhaseInv
  <2>6. QED
    BY <2>4, <2>5 DEF TypeInv
<1>4. ASSUME NEW role \in Roles, NEW payload \in Payloads, Suppress(role, payload)
      PROVE  TypeInv'
  <2>1. Announce(role)
    BY <1>4 DEF Suppress
  <2>5. skipped' \in Nat
    BY <1>4 DEF Suppress, skip, TypeInv, TypeOK
  <2>6. UNCHANGED <<pc, cycle, source, data, decoded, view, container, todo, notices,
                    system_errors, basis, previous, validated, written, results, reports>>
    BY <1>4, <2>1 DEF Suppress, Announce
  <2>2. TypeOK'
    BY <2>1, <2>5, <2>6, AnnounceType DEF TypeInv, TypeOK
  <2>3. PhaseInv'
    BY <1>4, <2>1 DEF Suppress, Announce, TypeInv, PhaseInv
  <2>4. QED
    BY <2>2, <2>3 DEF TypeInv
<1>5. ASSUME NEW role \in Roles, NEW payload \in Payloads, Read(role, payload)
      PROVE  TypeInv'
  <2>1. Announce(role)
    BY <1>5 DEF Read
  <2>2. TypeOK'
    BY <1>5, <2>1, AnnounceType DEF Read, Announce, TypeInv, TypeOK
  <2>3. PhaseInv'
    BY <1>5, <2>1 DEF Read, Announce, TypeInv, PhaseInv
  <2>4. QED
    BY <2>2, <2>3 DEF TypeInv
<1>21. ASSUME NEW role \in Roles, FetchRaises(role)
       PROVE  TypeInv'
  <2>1. Announce(role)
    BY <1>21 DEF FetchRaises
  <2>2. TypeOK'
    BY <1>21, <2>1, AnnounceType DEF FetchRaises, Announce, TypeInv, TypeOK, Ended
  <2>3. PhaseInv'
    BY <1>21, <2>1 DEF FetchRaises, Announce, TypeInv, PhaseInv
  <2>4. QED
    BY <2>2, <2>3 DEF TypeInv
<1>6. CASE TakeClock
  BY <1>6 DEF TakeClock, TypeInv, TypeOK, PhaseInv, Ended
<1>7. CASE FallBackToModificationTime
  <2>1. UNPARSABLE_FILE_NAME_TIMESTAMP \in SystemErrorCode
    BY DEF SystemErrorCode
  <2>2. source \in Roles /\ cycle >= 1
    BY <1>7 DEF FallBackToModificationTime, TypeInv, PhaseInv
  <2>3. system_errors' \in Container
    BY <1>7, <2>1, <2>2, SystemErrorType DEF FallBackToModificationTime
  <2>4. QED
    BY <1>7, <2>3 DEF FallBackToModificationTime, TypeInv, TypeOK, PhaseInv
<1>8. CASE StatFails
  BY <1>8 DEF StatFails, TypeInv, TypeOK, PhaseInv, Ended
<1>9. CASE DecodeFails
  <2>1. source \in Roles /\ cycle >= 1
    BY <1>9 DEF DecodeFails, TypeInv, PhaseInv
  <2>2. Decoded[data] \in SystemErrorCode
    BY <1>9 DEF DecodeFails, SystemErrorCode
  <2>3. system_errors' \in Container
    BY <1>9, <2>1, <2>2, SystemErrorType DEF DecodeFails, decode_error
  <2>4. QED
    BY <1>9, <2>3 DEF DecodeFails, skip, TypeInv, TypeOK, PhaseInv
<1>10. CASE Decode
  <2>1. source \in Roles /\ data \in Payloads
    BY <1>10 DEF Decode, TypeInv, PhaseInv
  <2>2. decoded' \in Seq([role : Roles, digest : Payloads, message : Messages])
    BY <1>10, <2>1 DEF Decode, TypeInv, TypeOK
  <2>3. QED
    BY <1>10, <2>2 DEF Decode, TypeInv, TypeOK, PhaseInv
<1>11. CASE AbandonCycle
  BY <1>11 DEF AbandonCycle, TypeInv, TypeOK, PhaseInv
<1>12. CASE Combine
  <2>1. view' \in Views
    BY <1>12, ViewType DEF Combine, TypeInv
  <2>2. QED
    BY <1>12, <2>1 DEF Combine, TypeInv, TypeOK, PhaseInv
<1>13. CASE AbortOnEqualMessage
  BY <1>13 DEF AbortOnEqualMessage, TypeInv, TypeOK, PhaseInv, Ended
<1>14. CASE Validate
  <2>1. container' \in Container
    BY <1>14, DefaultsType DEF Validate, fresh_container, message_container
  <2>2. todo' \in Seq(Finding)
    BY <1>14, OneType, FindingsAreTyped DEF Validate
  <2>3. QED
    BY <1>14, <2>1, <2>2 DEF Validate, TypeInv, TypeOK, PhaseInv
<1>15. CASE Collect
  <2>1. /\ todo' \in Seq(Finding)
        /\ stamped(Head(todo), one.role) \in Occurrences
    BY <1>15, StampedType DEF Collect
  <2>2. container' \in Container
    BY <1>15, <2>1, AddType DEF Collect, TypeInv, TypeOK
  <2>3. QED
    BY <1>15, <2>1, <2>2 DEF Collect, TypeInv, TypeOK, PhaseInv
<1>16. CASE Deliver
  <2>1. written' \in Seq(Names)
    BY <1>16, OneType DEF Deliver, TypeInv, TypeOK
  <2>2. QED
    BY <1>16, <2>1 DEF Deliver, TypeInv, TypeOK, PhaseInv
<1>17. CASE SinkFails
  BY <1>17 DEF SinkFails, nothing_recorded, TypeInv, TypeOK, PhaseInv, Ended
<1>18. CASE Record
  <2>1. notices' \in Container
    BY <1>18, MergeType DEF Record, TypeInv, TypeOK
  <2>2. basis' \in [Roles -> Payloads \cup {None}]
    BY <1>18, OneType DEF Record, mark_written, TypeInv, TypeOK
  <2>3. previous' \in [Roles -> Messages \cup {None}]
    BY <1>18, OneType DEF Record, TypeInv, TypeOK
  <2>4. results' \in [Roles -> Seq(Result)]
    <3> DEFINE res == [digest |-> one.digest, message |-> one.message,
                       was |-> was(one.role)]
    <3>1. res \in Result /\ one.role \in Roles
      BY <1>18, OneType DEF Record, Result
    <3>2. results \in [Roles -> Seq(Result)]
      BY DEF TypeInv, TypeOK
    <3>3. results' = [results EXCEPT ![one.role] = Append(results[one.role], res)]
      BY <1>18 DEF Record
    <3> HIDE DEF res, Result
    <3>4. Append(results[one.role], res) \in Seq(Result)
      BY <3>1, <3>2
    <3>5. QED
      BY <3>2, <3>3, <3>4
  <2>5. reports' \in Seq(Report)
    BY <1>18, OneType DEF Record, Report, TypeInv, TypeOK
  <2>6. decoded' \in Seq([role : Roles, digest : Payloads, message : Messages])
    BY <1>18 DEF Record, TypeInv, TypeOK, PhaseInv
  <2>10. validated' \in Nat /\ pc' \in {"cycle", "validate"}
    BY <1>18 DEF Record, TypeInv, TypeOK
  <2>11. UNCHANGED <<cycle, pending, source, data, view, container, todo, system_errors,
                     inputs, roles, skipped, written>>
    BY <1>18 DEF Record
  <2>7. TypeOK'
    BY <2>1, <2>2, <2>3, <2>4, <2>5, <2>6, <2>10, <2>11 DEF TypeInv, TypeOK
  <2>8. PhaseInv'
    BY <1>18 DEF Record, TypeInv, PhaseInv
  <2>9. QED
    BY <2>7, <2>8 DEF TypeInv
<1>19. CASE UNCHANGED vars
  BY <1>19 DEF vars, TypeInv, TypeOK, PhaseInv
<1>20. QED
  BY <1>1, <1>2, <1>3, <1>4, <1>5, <1>6, <1>7, <1>8, <1>9, <1>10, <1>11, <1>12,
     <1>13, <1>14, <1>15, <1>16, <1>17, <1>18, <1>19, <1>21, ActionDisjuncts

\* Every variable of a run holds what the code could hold there, for any roles,
\* payloads, messages, caps, configuration and number of cycles.
THEOREM TypeCorrect == Spec => []TypeOK
<1>1. Spec => []TypeInv
  BY InitType, NextType, PTL DEF Spec
<1>2. TypeInv => TypeOK
  BY DEF TypeInv
<1>3. QED
  BY <1>1, <1>2, PTL

-----------------------------------------------------------------------------
LEMMA TailElements ==
  ASSUME NEW S, NEW s \in Seq(S), s # <<>>
  PROVE  /\ 1 \in DOMAIN s /\ Head(s) = s[1]
         /\ \A j \in DOMAIN Tail(s) :
              j \in Nat /\ j + 1 \in DOMAIN s /\ j + 1 # 1 /\ Tail(s)[j] = s[j + 1]
BY HeadTailProperties

LEMMA AppendElements ==
  ASSUME NEW S, NEW s \in Seq(S), NEW e \in S
  PROVE  \A j \in DOMAIN Append(s, e) :
           \/ j \in DOMAIN s /\ Append(s, e)[j] = s[j]
           \/ j = Len(s) + 1 /\ Append(s, e)[j] = e
OBVIOUS

\* A role is in one place at a time: waiting to be read, in hand, or decoded.
QueueInv ==
  /\ \A i, j \in DOMAIN pending : i # j => pending[i] # pending[j]
  /\ \A i, j \in DOMAIN decoded : i # j => decoded[i].role # decoded[j].role
  /\ \A i \in DOMAIN pending, j \in DOMAIN decoded : pending[i] # decoded[j].role
  /\ \A i \in DOMAIN pending : pending[i] # source
  /\ \A j \in DOMAIN decoded : decoded[j].role # source

\* The duplicate test made when a source was read still holds now.
FreshInv ==
  /\ pc \in {"clock", "decode"} => data # basis[source]
  /\ \A j \in DOMAIN decoded :
       /\ decoded[j].digest # basis[decoded[j].role]
       /\ decoded[j].message = Decoded[decoded[j].digest]

\* So does the equal-message guard, for the message it let through.
GuardInv ==
  pc \in {"walk", "record"} =>
    ~(abort_on_equal_message /\ one.message = previous[one.role])

\* A message about to be recorded has been through the sink.
WrittenInv ==
  pc = "record" /\ HasSink => \E i \in DOMAIN written : written[i] = <<cycle, one.role>>

LEMMA DecodedLength ==
  ASSUME TypeInv
  PROVE  /\ Len(decoded) \in Nat /\ DOMAIN decoded = 1..Len(decoded)
         /\ decoded = <<>> <=> Len(decoded) = 0
         /\ decoded # <<>> => 1 \in DOMAIN decoded
         /\ Record => Len(decoded') = Len(decoded) - 1
         /\ Decode => Len(decoded') = Len(decoded) + 1
<1> DEFINE D == [role : Roles, digest : Payloads, message : Messages]
<1>1. decoded \in Seq(D)
  BY DEF TypeInv, TypeOK
<1> HIDE DEF D
<1>2. /\ Len(decoded) \in Nat /\ DOMAIN decoded = 1..Len(decoded)
      /\ decoded = <<>> <=> Len(decoded) = 0
      /\ decoded # <<>> => 1 \in DOMAIN decoded
  BY <1>1, EmptySeq
<1>3. ASSUME Record PROVE Len(decoded') = Len(decoded) - 1
  <2>1. decoded # <<>> /\ decoded' = Tail(decoded)
    BY <1>3 DEF Record, TypeInv, PhaseInv
  <2>2. QED
    BY <1>1, <2>1, HeadTailProperties
<1>4. ASSUME Decode PROVE Len(decoded') = Len(decoded) + 1
  <2> DEFINE d == [role |-> source, digest |-> data, message |-> Decoded[data]]
  <2>1. decoded' = Append(decoded, d)
    BY <1>4 DEF Decode
  <2>2. d \in D
    BY <1>4 DEF D, Decode, TypeInv, PhaseInv
  <2> HIDE DEF d
  <2>3. QED
    BY <1>1, <2>1, <2>2
<1>5. QED
  BY <1>2, <1>3, <1>4

LEMMA DecodedType ==
  ASSUME TypeInv, NEW j \in DOMAIN decoded
  PROVE  decoded[j] \in [role : Roles, digest : Payloads, message : Messages]
<1> DEFINE D == [role : Roles, digest : Payloads, message : Messages]
<1>1. decoded \in Seq(D)
  BY DEF TypeInv, TypeOK
<1> HIDE DEF D
<1>2. decoded[j] \in D
  BY <1>1
<1>3. QED
  BY <1>2 DEF D

\* What recording leaves: the rest of the queue, each in the place behind.
LEMMA RecordShifts ==
  ASSUME TypeInv, Record
  PROVE  /\ 1 \in DOMAIN decoded /\ one = decoded[1]
         /\ \A j \in DOMAIN decoded' :
              /\ j \in Nat /\ j + 1 \in DOMAIN decoded /\ j + 1 # 1
              /\ decoded'[j] = decoded[j + 1]
<1> DEFINE D == [role : Roles, digest : Payloads, message : Messages]
<1>1. decoded \in Seq(D) /\ decoded # <<>> /\ decoded' = Tail(decoded)
  BY DEF TypeInv, TypeOK, PhaseInv, Record
<1> HIDE DEF D
<1>2. QED
  BY <1>1, TailElements DEF one

\* What decoding adds: the source in hand, behind the rest.
LEMMA DecodeAppends ==
  ASSUME TypeInv, Decode
  PROVE  /\ source \in Roles /\ data \in Payloads
         /\ \A j \in DOMAIN decoded' :
              \/ j \in DOMAIN decoded /\ decoded'[j] = decoded[j]
              \/ /\ j = Len(decoded) + 1
                 /\ decoded'[j] = [role |-> source, digest |-> data, message |-> Decoded[data]]
<1> DEFINE D == [role : Roles, digest : Payloads, message : Messages]
<1> DEFINE d == [role |-> source, digest |-> data, message |-> Decoded[data]]
<1>1. source \in Roles /\ data \in Payloads /\ Decoded[data] \in Messages
  BY DEF TypeInv, PhaseInv, Decode
<1>2. d \in D
  BY <1>1
<1>3. decoded \in Seq(D) /\ decoded' = Append(decoded, d)
  BY DEF TypeInv, TypeOK, Decode
<1> HIDE DEF D, d
<1>4. \A j \in DOMAIN decoded' :
        \/ j \in DOMAIN decoded /\ decoded'[j] = decoded[j]
        \/ j = Len(decoded) + 1 /\ decoded'[j] = d
  BY <1>2, <1>3, AppendElements
<1>5. QED
  BY <1>1, <1>4 DEF d

\* What reading a source takes: the first of the waiting ones.
LEMMA AnnounceShifts ==
  ASSUME TypeInv, NEW role \in Roles, Announce(role)
  PROVE  /\ 1 \in DOMAIN pending /\ role = pending[1] /\ source = None
         /\ \A j \in DOMAIN pending' :
              j + 1 \in DOMAIN pending /\ j + 1 # 1 /\ pending'[j] = pending[j + 1]
         /\ UNCHANGED <<cycle, decoded, basis, previous, written, results>>
<1>1. pending \in Seq(Roles) /\ pending # <<>> /\ pending' = Tail(pending)
      /\ role = Head(pending) /\ source = None
  BY DEF TypeInv, TypeOK, PhaseInv, Announce
<1>2. QED
  BY <1>1, TailElements DEF Announce, walkVars, basisVars, histVars

\* The roles of a cycle stay apart: reading moves one from waiting to in hand,
\* decoding from in hand to decoded, and nothing puts one back.
LEMMA QueueNext ==
  ASSUME TypeInv, QueueInv, [Next]_vars
  PROVE  QueueInv'
<1> USE DEF loopVars, walkVars, basisVars, tallyVars, histVars
<1>1. CASE UNCHANGED <<pending, source, decoded>>
  BY <1>1 DEF QueueInv
<1>2. CASE BeginCycle
  <2>1. PICK shape \in CycleShapes : pending' = shape
    BY <1>2 DEF BeginCycle
  <2>2. decoded' = <<>> /\ source' = None
    BY <1>2 DEF BeginCycle, TypeInv, PhaseInv
  <2>3. \A k \in DOMAIN shape : shape[k] # None
    BY ShapesAreInjective, DataAssumption
  <2>4. QED
    BY <2>1, <2>2, <2>3, ShapesAreInjective DEF QueueInv
<1>3. ASSUME NEW role \in Roles, Announce(role), source' \in {None, role}
      PROVE  QueueInv'
  <2>1. \A k \in DOMAIN pending : pending[k] \in Roles /\ pending[k] # None
    BY DataAssumption DEF TypeInv, TypeOK
  <2>2. \A j \in DOMAIN decoded : decoded[j].role \in Roles /\ decoded[j].role # None
    BY DecodedType, DataAssumption
  <2>3. pending \in Seq(Roles) /\ pending' \in Seq(Roles)
    BY <1>3, AnnounceType DEF TypeInv, TypeOK
  <2>4. QED
    BY <1>3, <2>1, <2>2, <2>3, AnnounceShifts DEF QueueInv
<1>4. CASE DecodeFails
  <2>1. \A k \in DOMAIN pending : pending[k] # None
    BY DataAssumption DEF TypeInv, TypeOK
  <2>2. \A j \in DOMAIN decoded : decoded[j].role # None
    BY DecodedType, DataAssumption
  <2>3. QED
    BY <1>4, <2>1, <2>2 DEF DecodeFails, QueueInv
<1>5. CASE Decode
  <2>1. \A k \in DOMAIN pending : pending[k] # None
    BY DataAssumption DEF TypeInv, TypeOK
  <2>2. \A j \in DOMAIN decoded : decoded[j].role # None
    BY DecodedType, DataAssumption
  <2>3. UNCHANGED pending /\ source' = None /\ source # None
    BY <1>5, DataAssumption DEF Decode, TypeInv, PhaseInv
  <2>4. \A j \in DOMAIN decoded' :
          \/ j \in DOMAIN decoded /\ decoded'[j].role = decoded[j].role
          \/ j = Len(decoded) + 1 /\ decoded'[j].role = source
    BY <1>5, DecodeAppends
  <2>5. QED
    BY <2>1, <2>2, <2>3, <2>4 DEF QueueInv
<1>6. CASE Record
  <2>1. UNCHANGED <<pending, source>>
    BY <1>6 DEF Record
  <2>2. \A j \in DOMAIN decoded' :
          j \in Nat /\ j + 1 \in DOMAIN decoded /\ decoded'[j] = decoded[j + 1]
    BY <1>6, RecordShifts
  <2>3. QED
    BY <2>1, <2>2 DEF QueueInv
<1>7. QED
  <2>1. CASE \E role \in Roles : Unreadable(role) \/ FetchRaises(role)
    BY <2>1, <1>3, AnnounceType DEF Unreadable, FetchRaises
  <2>2. CASE \E role \in Roles, payload \in Payloads : Suppress(role, payload)
    BY <2>2, <1>3, AnnounceType DEF Suppress
  <2>3. CASE \E role \in Roles, payload \in Payloads : Read(role, payload)
    BY <2>3, <1>3 DEF Read
  <2>4. QED
    BY <2>1, <2>2, <2>3, <1>1, <1>2, <1>4, <1>5, <1>6, ActionDisjuncts
    DEF vars, EndOfInputs, TakeClock, FallBackToModificationTime, StatFails, AbandonCycle,
        Combine, AbortOnEqualMessage, Validate, Collect, Deliver, SinkFails

\* Nothing recorded between a source's duplicate test and its own record moves
\* its role's basis.
LEMMA FreshNext ==
  ASSUME TypeInv, QueueInv, FreshInv, [Next]_vars
  PROVE  FreshInv'
<1> USE DEF loopVars, walkVars, basisVars, tallyVars, histVars
<1>1. CASE /\ UNCHANGED <<decoded, basis>>
           /\ pc' \in {"clock", "decode"} =>
                pc \in {"clock", "decode"} /\ UNCHANGED <<source, data>>
  BY <1>1 DEF FreshInv
<1>2. CASE BeginCycle
  BY <1>2 DEF BeginCycle, FreshInv
<1>3. ASSUME NEW role \in Roles, NEW payload \in Payloads, Read(role, payload)
      PROVE  FreshInv'
  <2>1. basis[role] = None \/ payload # basis[role]
    BY <1>3 DEF Read, is_duplicate
  <2>2. payload # None
    BY DataAssumption
  <2>3. UNCHANGED <<decoded, basis>> /\ source' = role /\ data' = payload
    BY <1>3 DEF Read, Announce
  <2>4. QED
    BY <2>1, <2>2, <2>3 DEF FreshInv
<1>5. CASE Decode
  <2>1. pc = "decode" /\ pc' = "acquire" /\ UNCHANGED basis
    BY <1>5 DEF Decode
  <2>2. QED
    BY <1>5, <2>1, DecodeAppends DEF FreshInv
<1>6. CASE Record
  <2>1. pc' \in {"cycle", "validate"}
    BY <1>6 DEF Record
  <2>2. \A j \in DOMAIN decoded' :
          j + 1 \in DOMAIN decoded /\ j + 1 # 1 /\ decoded'[j] = decoded[j + 1]
    BY <1>6, RecordShifts
  <2>3. ASSUME NEW j \in DOMAIN decoded' PROVE decoded'[j].role # one.role
    BY <1>6, <2>2, RecordShifts DEF QueueInv
  <2>4. \A j \in DOMAIN decoded' : decoded'[j].role \in Roles
    BY <2>2, DecodedType
  <2>5. basis' = [basis EXCEPT ![one.role] = one.digest] /\ basis \in [Roles -> Payloads \cup {None}]
    BY <1>6 DEF Record, mark_written, TypeInv, TypeOK
  <2>6. QED
    BY <2>1, <2>2, <2>3, <2>4, <2>5 DEF FreshInv
<1>7. QED
  <2>1. CASE \E role \in Roles : Unreadable(role) \/ FetchRaises(role)
    BY <2>1, <1>1 DEF Unreadable, FetchRaises, Announce
  <2>2. CASE \E role \in Roles, payload \in Payloads : Suppress(role, payload)
    BY <2>2, <1>1 DEF Suppress, Announce
  <2>3. QED
    BY <2>1, <2>2, <1>1, <1>2, <1>3, <1>5, <1>6, ActionDisjuncts
    DEF vars, EndOfInputs, TakeClock, FallBackToModificationTime, StatFails, DecodeFails,
        AbandonCycle, Combine, AbortOnEqualMessage, Validate, Collect, Deliver, SinkFails,
        nothing_recorded

\* What the histories say of the loop's state, and of themselves.
HistoryInv == BasisIsTheLastRecorded /\ PreviousIsPerRole /\ NothingRepeated

LEMMA GuardNext ==
  ASSUME TypeInv, GuardInv, [Next]_vars
  PROVE  GuardInv'
<1> USE DEF loopVars, walkVars, basisVars, tallyVars, histVars
<1>1. CASE Validate
  <2>1. one.message \in Messages /\ one' = one /\ previous' = previous
    BY <1>1, OneType DEF Validate, one
  <2>2. QED
    BY <1>1, <2>1, DataAssumption DEF Validate, GuardInv, was, equals_previous, abort_on_equal_message
<1>2. CASE pc' \notin {"walk", "record"}
  BY <1>2 DEF GuardInv
<1>3. CASE Collect \/ Deliver \/ UNCHANGED vars
  BY <1>3 DEF Collect, Deliver, vars, GuardInv, one
<1>4. QED
  BY <1>1, <1>2, <1>3, ActionDisjuncts
  DEF BeginCycle, EndOfInputs, Unreadable, FetchRaises, Suppress, Read, Announce, TakeClock,
      FallBackToModificationTime, StatFails, DecodeFails, Decode, AbandonCycle, Combine,
      AbortOnEqualMessage, SinkFails, Record

\* Recording a message adds one line to one history, over what was there.
LEMMA RecordHistory ==
  ASSUME TypeInv, QueueInv, FreshInv, Record
  PROVE  LET r == one.role
         IN  /\ r \in Roles /\ one.digest \in Payloads /\ one.message \in Messages
             /\ one.digest # basis[r]
             /\ one.message = Decoded[one.digest]
             /\ basis' = [basis EXCEPT ![r] = one.digest]
             /\ previous' = [previous EXCEPT ![r] = one.message]
             /\ results' = [results EXCEPT ![r] =
                              Append(@, [digest |-> one.digest, message |-> one.message,
                                         was |-> previous[r]])]
<1>1. one.role \in Roles /\ one.digest \in Payloads /\ one.message \in Messages
  BY OneType DEF Record
<1>2. one = decoded[1] /\ 1 \in DOMAIN decoded
  BY RecordShifts
<1>3. one.digest # basis[one.role] /\ one.message = Decoded[one.digest]
  BY <1>2 DEF FreshInv
<1>4. QED
  BY <1>1, <1>3 DEF Record, mark_written, was

\* The records of a role's history, as records.
LEMMA ResultsType ==
  ASSUME TypeInv, NEW r \in Roles
  PROVE  /\ results[r] \in Seq(Result)
         /\ \A k \in DOMAIN results[r] : results[r][k].message \in Messages
<1>1. results[r] \in Seq(Result)
  BY DEF TypeInv, TypeOK
<1>2. \A k \in DOMAIN results[r] : results[r][k] \in Result
  <2> HIDE DEF Result
  <2>1. QED
    BY <1>1
<1>3. QED
  BY <1>1, <1>2 DEF Result

LEMMA HistoryNext ==
  ASSUME TypeInv, QueueInv, FreshInv, GuardInv, HistoryInv, [Next]_vars
  PROVE  HistoryInv'
<1> USE DEF loopVars, walkVars, basisVars, tallyVars, histVars
<1>1. CASE UNCHANGED <<basis, previous, results>>
  BY <1>1 DEF HistoryInv, BasisIsTheLastRecorded, PreviousIsPerRole, NothingRepeated,
              abort_on_equal_message
<1>2. CASE Record
  <2> DEFINE res == [digest |-> one.digest, message |-> one.message,
                     was |-> previous[one.role]]
  <2> SUFFICES ASSUME NEW r \in Roles
               PROVE  /\ IF results'[r] = <<>>
                         THEN basis'[r] = None /\ previous'[r] = None
                         ELSE /\ basis'[r] = results'[r][Len(results'[r])].digest
                              /\ previous'[r] = results'[r][Len(results'[r])].message
                      /\ \A k \in DOMAIN results'[r] :
                           results'[r][k].was = IF k = 1 THEN None
                                                ELSE results'[r][k-1].message
                      /\ \A k \in 2..Len(results'[r]) :
                           /\ results'[r][k].digest # results'[r][k-1].digest
                           /\ abort_on_equal_message =>
                                results'[r][k].message # results'[r][k-1].message
    BY DEF HistoryInv, BasisIsTheLastRecorded, PreviousIsPerRole, NothingRepeated,
           abort_on_equal_message
  <2>1. CASE r # one.role
    <3>1. UNCHANGED <<basis[r], previous[r], results[r]>>
      BY <1>2, <2>1, RecordHistory DEF TypeInv, TypeOK
    <3>2. QED
      BY <3>1 DEF HistoryInv, BasisIsTheLastRecorded, PreviousIsPerRole, NothingRepeated
  <2>2. CASE r = one.role
    <3>1. /\ basis'[r] = one.digest /\ previous'[r] = one.message
          /\ results'[r] = Append(results[r], res)
      BY <1>2, <2>2, RecordHistory DEF TypeInv, TypeOK
    <3> DEFINE n == Len(results[r])
    <3>2. /\ results[r] \in Seq(Result) /\ n \in Nat
          /\ results[r] = <<>> <=> n = 0
      BY ResultsType, EmptySeq
    <3>3. /\ Len(results'[r]) = n + 1 /\ results'[r][n + 1] = res
          /\ \A k \in 1..n : results'[r][k] = results[r][k]
          /\ results'[r] # <<>> /\ DOMAIN results'[r] = 1..(n + 1)
      BY <3>1, <3>2
    <3>4. CASE n = 0
      <4>1. previous[r] = None
        BY <3>2, <3>4 DEF HistoryInv, BasisIsTheLastRecorded
      <4>2. QED
        BY <2>2, <3>1, <3>3, <3>4, <4>1
    <3>5. CASE n # 0
      <4>1. /\ basis[r] = results[r][n].digest /\ previous[r] = results[r][n].message
        BY <3>2, <3>5 DEF HistoryInv, BasisIsTheLastRecorded
      <4>2. one.digest # results[r][n].digest
        BY <1>2, <2>2, <4>1, RecordHistory
      <4>3. abort_on_equal_message => one.message # results[r][n].message
        BY <1>2, <2>2, <4>1 DEF GuardInv, Record
      <4>4. \A k \in 1..n : results[r][k].was = IF k = 1 THEN None ELSE results[r][k-1].message
        BY <3>2 DEF HistoryInv, PreviousIsPerRole
      <4>5. \A k \in 2..n :
              /\ results[r][k].digest # results[r][k-1].digest
              /\ abort_on_equal_message => results[r][k].message # results[r][k-1].message
        BY DEF HistoryInv, NothingRepeated
      <4>6. ASSUME NEW k \in 1..(n + 1)
            PROVE  /\ results'[r][k].was = IF k = 1 THEN None ELSE results'[r][k-1].message
                   /\ k # 1 =>
                        /\ results'[r][k].digest # results'[r][k-1].digest
                        /\ abort_on_equal_message =>
                             results'[r][k].message # results'[r][k-1].message
        <5>1. CASE k = n + 1
          <6>1. /\ results'[r][k] = res /\ results'[r][k-1] = results[r][n] /\ k # 1
            BY <3>2, <3>3, <3>5, <5>1
          <6>2. QED
            BY <2>2, <4>1, <4>2, <4>3, <6>1
        <5>2. CASE k # n + 1 /\ k # 1
          <6>1. k \in 1..n /\ k \in 2..n /\ k - 1 \in 1..n
            BY <3>2, <5>2
          <6>2. /\ results'[r][k] = results[r][k] /\ results'[r][k-1] = results[r][k-1]
            BY <3>3, <6>1
          <6>3. QED
            BY <4>4, <4>5, <5>2, <6>1, <6>2
        <5>3. CASE k # n + 1 /\ k = 1
          <6>1. k \in 1..n
            BY <3>2, <5>3
          <6>2. QED
            BY <3>3, <4>4, <5>3, <6>1
        <5>4. QED
          BY <5>1, <5>2, <5>3
      <4>7. \A k \in 2..Len(results'[r]) : k \in 1..(n + 1) /\ k # 1
        BY <3>2, <3>3
      <4>8. /\ basis'[r] = results'[r][Len(results'[r])].digest
            /\ previous'[r] = results'[r][Len(results'[r])].message
        BY <3>1, <3>3
      <4>9. QED
        BY <3>3, <4>6, <4>7, <4>8
    <3>6. QED
      BY <3>4, <3>5
  <2>3. QED
    BY <2>1, <2>2
<1>3. QED
  BY <1>1, <1>2, ActionDisjuncts
  DEF vars, BeginCycle, EndOfInputs, Unreadable, FetchRaises, Suppress, Read, Announce, TakeClock,
      FallBackToModificationTime, StatFails, DecodeFails, Decode, AbandonCycle, Combine,
      AbortOnEqualMessage, Validate, Collect, Deliver, SinkFails, nothing_recorded

-----------------------------------------------------------------------------
\* The inductive invariant of the loop.
LoopInv == TypeInv /\ QueueInv /\ FreshInv /\ GuardInv /\ HistoryInv

LEMMA LoopInit == Init => LoopInv
<1> SUFFICES ASSUME Init PROVE LoopInv
  OBVIOUS
<1>1. TypeInv
  BY InitType
<1>2. QueueInv /\ FreshInv /\ GuardInv
  BY DEF Init, QueueInv, FreshInv, GuardInv
<1>3. HistoryInv
  BY DEF Init, HistoryInv, BasisIsTheLastRecorded, PreviousIsPerRole, NothingRepeated
<1>4. QED
  BY <1>1, <1>2, <1>3 DEF LoopInv

LEMMA LoopNext == LoopInv /\ [Next]_vars => LoopInv'
BY NextType, QueueNext, FreshNext, GuardNext, HistoryNext DEF LoopInv

\* What the loop carries from one message to the next (run.py, _Run).
THEOREM LoopInvariant == Spec => []LoopInv
BY LoopInit, LoopNext, PTL DEF Spec

\* A file that was skipped, failed to decode or could not be written moves
\* neither its role's basis nor its previous message.
THEOREM BasisCorrect == Spec => []BasisIsTheLastRecorded
<1>1. LoopInv => BasisIsTheLastRecorded
  BY DEF LoopInv, HistoryInv
<1>2. QED
  BY <1>1, LoopInvariant, PTL

\* No role is validated twice running on the same bytes, nor on equal messages
\* in a run that reproduces upstream's abort.
THEOREM NothingIsRepeated == Spec => []NothingRepeated
<1>1. LoopInv => NothingRepeated
  BY DEF LoopInv, HistoryInv
<1>2. QED
  BY <1>1, LoopInvariant, PTL

\* Every message is compared with the one its own role validated before it.
THEOREM PreviousIsTheRolesOwn == Spec => []PreviousIsPerRole
<1>1. LoopInv => PreviousIsPerRole
  BY DEF LoopInv, HistoryInv
<1>2. QED
  BY <1>1, LoopInvariant, PTL

-----------------------------------------------------------------------------
\* An abort on an equal message is an abort on other bytes than the last.
THEOREM AbortCorrect == Spec => []AbortIsAReencoding
<1> USE DEF loopVars, walkVars, basisVars, tallyVars, histVars
<1>1. Init => AbortIsAReencoding
  BY DEF Init, AbortIsAReencoding
<1>2. ASSUME LoopInv, AbortIsAReencoding, [Next]_vars PROVE AbortIsAReencoding'
  <2>1. CASE AbortOnEqualMessage
    <3>1. one' = one /\ previous' = previous /\ basis' = basis
      BY <2>1 DEF AbortOnEqualMessage, equals_previous, one
    <3>2. TypeInv /\ FreshInv
      BY <1>2 DEF LoopInv
    <3>3. one = decoded[1] /\ one.message = previous[one.role]
      BY <2>1, <3>2, OneType DEF AbortOnEqualMessage, equals_previous, was
    <3>4. 1 \in DOMAIN decoded
      BY <2>1, <3>2, DecodedLength DEF AbortOnEqualMessage, TypeInv, PhaseInv
    <3>5. QED
      BY <3>1, <3>2, <3>3, <3>4 DEF AbortIsAReencoding, FreshInv
  <2>2. CASE UNCHANGED vars
    BY <1>2, <2>2 DEF vars, AbortIsAReencoding, one
  <2>3. CASE pc' # "equal message"
    BY <2>3 DEF AbortIsAReencoding
  <2>4. QED
    BY <1>2, <2>1, <2>2, <2>3, ActionDisjuncts
    DEF BeginCycle, EndOfInputs, Unreadable, FetchRaises, Suppress, Read, Announce, TakeClock,
        FallBackToModificationTime, StatFails, DecodeFails, Decode, AbandonCycle, Combine,
        Validate, Collect, Deliver, SinkFails, Record
<1>3. QED
  BY <1>1, <1>2, LoopInvariant, PTL DEF Spec

-----------------------------------------------------------------------------
\* gtfsRealtimeInputs, filesSkipped and messagesValidated add up, whatever
\* failed on the way.
THEOREM AccountsBalance == Spec => []EveryInputIsAccountedFor
<1> USE DEF loopVars, walkVars, basisVars, tallyVars, histVars
<1>1. Init => EveryInputIsAccountedFor
  BY DEF Init, EveryInputIsAccountedFor, InFlight
<1>2. ASSUME LoopInv, EveryInputIsAccountedFor, [Next]_vars
      PROVE  EveryInputIsAccountedFor'
  <2>1. TypeInv /\ TypeInv'
    BY <1>2, LoopNext DEF LoopInv
  <2>2. pc' = "done" => InFlight' = 0
    <3>1. pc' = "done" => decoded' = <<>> /\ source' = None
      BY <2>1 DEF TypeInv, PhaseInv
    <3>2. QED
      BY <3>1 DEF InFlight
  <2>3. SUFFICES Len(inputs') = skipped' + validated' + InFlight'
    BY <2>2 DEF EveryInputIsAccountedFor
  <2> DEFINE hand == IF source = None THEN 0 ELSE 1
  <2>4. /\ Len(inputs) = skipped + validated + (Len(decoded) + hand)
        /\ Len(decoded) \in Nat /\ skipped \in Nat /\ validated \in Nat /\ hand \in {0, 1}
    BY <1>2, <2>1, DecodedLength DEF EveryInputIsAccountedFor, InFlight, TypeInv, TypeOK
  <2>15. InFlight' = Len(decoded') + hand'
    BY DEF InFlight
  <2>5. CASE UNCHANGED <<inputs, skipped, validated, decoded, source>>
    BY <2>4, <2>5, <2>15
  <2>6. CASE BeginCycle
    <3>1. decoded' = decoded
      BY <2>1, <2>6 DEF BeginCycle, TypeInv, PhaseInv
    <3>2. QED
      BY <2>5, <2>6, <3>1 DEF BeginCycle
  <2>7. ASSUME NEW role \in Roles, Announce(role)
        PROVE  /\ Len(inputs') = Len(inputs) + 1 /\ UNCHANGED <<validated, decoded>>
               /\ hand = 0
    <3>1. inputs \in Seq(Names) /\ <<cycle, role>> \in Names
      <4>1. inputs \in Seq(Names) /\ cycle \in 0..MaxCycles
        BY <2>1 DEF TypeInv, TypeOK
      <4>2. cycle >= 1
        BY <2>1, <2>7, AnnounceType
      <4>3. QED
        BY <4>1, <4>2, RunAssumption DEF Names
    <3>2. inputs' = Append(inputs, <<cycle, role>>)
      BY <2>7 DEF Announce
    <3> HIDE DEF hand
    <3>3. Len(inputs') = Len(inputs) + 1
      BY <3>1, <3>2
    <3>4. UNCHANGED <<validated, decoded>> /\ hand = 0
      BY <2>1, <2>7, AnnounceType DEF Announce, hand
    <3>5. QED
      BY <3>3, <3>4
  <2>8. ASSUME NEW role \in Roles, Announce(role), skip, UNCHANGED source
        PROVE  Len(inputs') = skipped' + validated' + InFlight'
    <3>1. hand' = hand /\ skipped' = skipped + 1
      BY <2>8 DEF skip
    <3> HIDE DEF hand
    <3>2. QED
      BY <2>4, <2>7, <2>8, <2>15, <3>1
  <2>9. ASSUME NEW role \in Roles, NEW payload \in Payloads, Read(role, payload)
        PROVE  Len(inputs') = skipped' + validated' + InFlight'
    <3>1. hand' = 1 /\ skipped' = skipped /\ Announce(role)
      BY <2>9, DataAssumption DEF Read
    <3> HIDE DEF hand
    <3>2. QED
      BY <2>4, <2>7, <2>15, <3>1
  <2>10. CASE DecodeFails
    <3>1. hand = 1 /\ hand' = 0 /\ skipped' = skipped + 1
      BY <2>1, <2>10, DataAssumption DEF DecodeFails, skip, TypeInv, PhaseInv
    <3>2. UNCHANGED <<inputs, validated, decoded>>
      BY <2>10 DEF DecodeFails
    <3> HIDE DEF hand
    <3>3. QED
      BY <2>4, <2>15, <3>1, <3>2
  <2>11. CASE Decode
    <3>1. hand = 1 /\ hand' = 0
      BY <2>1, <2>11, DataAssumption DEF Decode, TypeInv, PhaseInv
    <3>2. UNCHANGED <<inputs, skipped, validated>>
      BY <2>11 DEF Decode
    <3>3. Len(decoded') = Len(decoded) + 1
      BY <2>1, <2>11, DecodedLength
    <3> HIDE DEF hand
    <3>4. QED
      BY <2>4, <2>15, <3>1, <3>2, <3>3
  <2>12. CASE Record
    <3>1. hand' = hand /\ validated' = validated + 1
      BY <2>12 DEF Record
    <3>2. UNCHANGED <<inputs, skipped>>
      BY <2>12 DEF Record
    <3> HIDE DEF hand
    <3>3. QED
      BY <2>1, <2>4, <2>12, <2>15, <3>1, <3>2, DecodedLength
  <2>18. ASSUME NEW role \in Roles, FetchRaises(role)
         PROVE  Len(inputs') = skipped' + validated' + InFlight'
    <3>1. hand' = 1 /\ skipped' = skipped /\ Announce(role)
      BY <2>18, DataAssumption DEF FetchRaises
    <3> HIDE DEF hand
    <3>2. QED
      BY <2>4, <2>7, <2>15, <3>1
  <2>13. CASE \E role \in Roles : Unreadable(role)
    BY <2>8, <2>13 DEF Unreadable
  <2>16. CASE \E role \in Roles, payload \in Payloads : Suppress(role, payload)
    BY <2>8, <2>16 DEF Suppress
  <2>17. QED
    BY <1>2, <2>5, <2>6, <2>9, <2>10, <2>11, <2>12, <2>13, <2>16, <2>18, ActionDisjuncts
    DEF vars, EndOfInputs, TakeClock, FallBackToModificationTime, StatFails, AbandonCycle,
        Combine, AbortOnEqualMessage, Validate, Collect, Deliver, SinkFails
<1>3. QED
  BY <1>1, <1>2, LoopInvariant, PTL DEF Spec

-----------------------------------------------------------------------------
\* With a sink, a basis moves only for a source the sink has taken.
THEOREM WriteBeforeBasis == Spec => BasisMovesAfterTheWrite
<1> USE DEF loopVars, walkVars, basisVars, tallyVars, histVars
<1>1. Init => WrittenInv
  BY DEF Init, WrittenInv
<1>2. ASSUME LoopInv, WrittenInv, [Next]_vars PROVE WrittenInv'
  <2>1. CASE Deliver
    <3>1. TypeInv
      BY <1>2 DEF LoopInv
    <3>2. written \in Seq(Names) /\ <<cycle, one.role>> \in Names
      BY <2>1, <3>1, OneType DEF Deliver, TypeInv, TypeOK
    <3>3. one' = one /\ cycle' = cycle
      BY <2>1 DEF Deliver, one
    <3>4. HasSink => written' = Append(written, <<cycle, one.role>>)
      BY <2>1 DEF Deliver
    <3>5. HasSink => \E i \in DOMAIN written' : written'[i] = <<cycle, one.role>>
      <4> DEFINE name == <<cycle, one.role>>
      <4>1. HasSink => written' = Append(written, name)
        BY <3>4
      <4>2. name \in Names
        BY <3>2
      <4> HIDE DEF name
      <4>3. HasSink => \E i \in DOMAIN written' : written'[i] = name
        <5>1. Len(written) + 1 \in DOMAIN Append(written, name)
              /\ Append(written, name)[Len(written) + 1] = name
          BY <3>2, <4>2
        <5>2. QED
          BY <4>1, <5>1
      <4>4. QED
        BY <4>3 DEF name
    <3>6. QED
      BY <3>3, <3>5 DEF WrittenInv
  <2>2. CASE UNCHANGED vars
    BY <1>2, <2>2 DEF vars, WrittenInv, one
  <2>3. CASE pc' # "record"
    BY <2>3 DEF WrittenInv
  <2>4. QED
    BY <1>2, <2>1, <2>2, <2>3, ActionDisjuncts
    DEF BeginCycle, EndOfInputs, Unreadable, FetchRaises, Suppress, Read, Announce, TakeClock,
        FallBackToModificationTime, StatFails, DecodeFails, Decode, AbandonCycle, Combine,
        AbortOnEqualMessage, Validate, Collect, SinkFails, Record
<1>3. Spec => []WrittenInv
  BY <1>1, <1>2, LoopInvariant, PTL DEF Spec
<1>4. ASSUME LoopInv, WrittenInv, [Next]_vars
      PROVE  [\A r \in Roles : HasSink /\ basis'[r] # basis[r] =>
                \E i \in DOMAIN written : written[i] = <<cycle, r>>]_vars
  <2>1. CASE Record
    <3>1. \A r \in Roles : r # one.role => basis'[r] = basis[r]
      BY <1>4, <2>1, RecordHistory DEF LoopInv, TypeInv, TypeOK
    <3>2. QED
      BY <1>4, <2>1, <3>1 DEF Record, WrittenInv
  <2>2. CASE UNCHANGED basis
    BY <2>2
  <2>3. QED
    BY <1>4, <2>1, <2>2, ActionDisjuncts
    DEF vars, BeginCycle, EndOfInputs, Unreadable, FetchRaises, Suppress, Read, Announce, TakeClock,
        FallBackToModificationTime, StatFails, DecodeFails, Decode, AbandonCycle, Combine,
        AbortOnEqualMessage, Validate, Collect, Deliver, SinkFails, nothing_recorded
<1>5. QED
  BY <1>3, <1>4, LoopInvariant, PTL DEF Spec, BasisMovesAfterTheWrite

-----------------------------------------------------------------------------
\* Each role of a run of many sees the single-feed loop, whatever the others do.
THEOREM EachRoleImplementsBatchLoop == Spec => EachRoleIsABatchLoop
<1> USE DEF loopVars, walkVars, basisVars, tallyVars, histVars
<1>1. Init => \A r \in Roles : Feed(r)!Init
  BY DEF Init, Feed!Init
<1>2. ASSUME LoopInv, [Next]_vars
      PROVE  [\A r \in Roles : Feed(r)!Next \/ UNCHANGED Feed(r)!batchVars]_vars
  <2>1. CASE UNCHANGED <<basis, previous, results>>
    BY <2>1 DEF Feed!batchVars
  <2>2. CASE Record
    <3>1. TypeInv /\ QueueInv /\ FreshInv /\ GuardInv
      BY <1>2 DEF LoopInv
    <3>2. ASSUME NEW r \in Roles, r # one.role
          PROVE  UNCHANGED Feed(r)!batchVars
      BY <2>2, <3>1, <3>2, RecordHistory DEF TypeInv, TypeOK, Feed!batchVars
    <3>3. ASSUME NEW r \in Roles, r = one.role
          PROVE  Feed(r)!Next
      <4>1. abort_on_equal_message => one.message # previous[r]
        BY <2>2, <3>1, <3>3 DEF GuardInv, Record
      <4>2. /\ one.digest \in Payloads /\ one.message \in Messages
            /\ one.message = Decoded[one.digest] /\ one.digest # basis[r]
        BY <2>2, <3>1, <3>3, RecordHistory
      <4>3. /\ basis'[r] = one.digest
            /\ previous'[r] = one.message
            /\ results'[r] =
                 Append(results[r], [digest |-> one.digest, message |-> one.message,
                                     was |-> previous[r]])
        BY <2>2, <3>1, <3>3, RecordHistory DEF TypeInv, TypeOK
      <4>4. PICK p \in Payloads : p = one.digest
        BY <4>2
      <4>5. Feed(r)!Validate(p)
        BY <4>1, <4>2, <4>3, <4>4 DEF Feed!Validate
      <4>6. QED
        BY <4>5 DEF Feed!Next
    <3>4. QED
      BY <3>2, <3>3
  <2>3. QED
    BY <1>2, <2>1, <2>2, ActionDisjuncts
    DEF vars, BeginCycle, EndOfInputs, Unreadable, FetchRaises, Suppress, Read, Announce, TakeClock,
        FallBackToModificationTime, StatFails, DecodeFails, Decode, AbandonCycle, Combine,
        AbortOnEqualMessage, Validate, Collect, Deliver, SinkFails, nothing_recorded
<1>3. QED
  BY <1>1, <1>2, LoopInvariant, PTL DEF Spec, EachRoleIsABatchLoop

-----------------------------------------------------------------------------
\* Nothing a container without caps is told of is dropped: as long as a message's
\* findings are fewer than the caps, what is counted is retained, and a count is
\* never more than what the container holds.
Uncapped(c, coming) ==
  /\ c.max_total = Unlimited /\ c.max_per_rule = Unlimited
  /\ Len(c.occurrences) + coming <= Unlimited
  /\ \A r \in Rules : c.counts[r] <= Len(c.occurrences)

CompatInv ==
  Mode = "compat" =>
    /\ notices.counts = notices.retained
    /\ container.counts = container.retained
    /\ pc = "walk" => Uncapped(container, Len(todo))

\* An occurrence there is still room for is retained.
LEMMA AddRetains ==
  ASSUME NEW c \in Container, NEW o \in Occurrences, NEW n \in Nat,
         c.counts = c.retained, Uncapped(c, n + 1)
  PROVE  add(c, o).counts = add(c, o).retained /\ Uncapped(add(c, o), n)
<1> DEFINE d == add(c, o)
<1>1. o.rule_id \in Rules
  BY OccurrencesHaveRules
<1> DEFINE held == Len(c.occurrences)
<1>0. /\ held \in Nat /\ c.counts \in [Rules -> Nat]
      /\ c.max_total = Unlimited /\ c.max_per_rule = Unlimited /\ held + (n + 1) <= Unlimited
      /\ \A r \in Rules : c.counts[r] \in Nat /\ c.counts[r] <= held
  BY Fields DEF Uncapped
<1>2. HasRoomFor(c, o)
  <2> HIDE DEF held
  <2>1. held < Unlimited /\ c.counts[o.rule_id] + 1 <= Unlimited
    BY <1>0, <1>1, CapsAreNatural
  <2>2. QED
    BY <1>0, <2>1 DEF HasRoomFor, held
<1>3. /\ d.max_total = c.max_total /\ d.max_per_rule = c.max_per_rule
      /\ d.counts = plus(c.counts, o.rule_id, 1)
      /\ d.retained = plus(c.retained, o.rule_id, 1)
      /\ d.occurrences = Append(c.occurrences, o)
  BY <1>2, AddFields
<1>4. Len(d.occurrences) = held + 1
  BY <1>3, Fields
<1> HIDE DEF d
<1>5. ASSUME NEW r \in Rules PROVE d.counts[r] <= Len(d.occurrences)
  <2>1. d.counts[r] = IF r = o.rule_id THEN c.counts[r] + 1 ELSE c.counts[r]
    BY <1>0, <1>1, <1>3 DEF plus
  <2>2. c.counts[r] \in Nat /\ c.counts[r] <= held
    BY <1>0
  <2> HIDE DEF held
  <2>3. QED
    BY <1>0, <1>4, <2>1, <2>2
<1>6. d.counts = d.retained
  BY <1>3
<1>9. Len(d.occurrences) + n <= Unlimited
  <2> HIDE DEF held
  <2>1. QED
    BY <1>0, <1>4, CapsAreNatural
<1>7. Uncapped(d, n)
  BY <1>0, <1>3, <1>5, <1>9 DEF Uncapped
<1>8. QED
  BY <1>6, <1>7 DEF d

LEMMA CompatInit == Init => CompatInv
BY DEF Init, CompatInv, DefaultContainer, NewContainer

LEMMA CompatNext == TypeInv /\ CompatInv /\ [Next]_vars => CompatInv'
<1> SUFFICES ASSUME TypeInv, CompatInv, [Next]_vars, Mode = "compat"
             PROVE  /\ notices'.counts = notices'.retained
                    /\ container'.counts = container'.retained
                    /\ pc' = "walk" => Uncapped(container', Len(todo'))
  BY DEF CompatInv
<1> USE DEF loopVars, walkVars, basisVars, tallyVars, histVars
<1>1. CASE Validate
  <2>1. container' = NewContainer(Unlimited, Unlimited) /\ notices' = notices
    BY <1>1 DEF Validate, fresh_container, message_container, UncappedContainer
  <2>2. container'.counts = container'.retained
    BY <2>1 DEF NewContainer
  <2>3. todo' = Findings(one.message, was(one.role), view, combined(one.role))
    BY <1>1 DEF Validate
  <2>4. Len(todo') <= Unlimited
    <3>1. /\ one.message \in Messages /\ was(one.role) \in Messages \cup {None}
          /\ view \in Views /\ combined(one.role) \in Views \cup {None}
      BY <1>1, OneType DEF Validate
    <3>2. Len(Findings(one.message, was(one.role), view, combined(one.role))) <= Unlimited
      BY <3>1, FindingsAreFewerThanUnlimited, Zenon
    <3>3. QED
      BY <2>3, <3>2
  <2>5. todo' \in Seq(Finding)
    BY <1>1, OneType, FindingsAreTyped DEF Validate
  <2>6. Len(todo') \in Nat
    <3> HIDE DEF Finding
    <3>1. QED
      BY <2>5
  <2>7. Uncapped(container', Len(todo'))
    BY <2>1, <2>4, <2>6, CapsAreNatural DEF Uncapped, NewContainer
  <2>8. QED
    BY <2>1, <2>2, <2>7 DEF CompatInv
<1>2. CASE Collect
  <2> DEFINE o == stamped(Head(todo), one.role)
  <2>1. o \in Occurrences /\ container \in Container /\ todo \in Seq(Finding) /\ todo # <<>>
    BY <1>2, StampedType DEF Collect, TypeInv, TypeOK
  <2>2. container' = add(container, o) /\ todo' = Tail(todo) /\ notices' = notices
    BY <1>2 DEF Collect
  <2>3. Len(todo') \in Nat /\ Len(todo) = Len(todo') + 1
    <3> HIDE DEF Finding
    <3>1. QED
      BY <2>1, <2>2
  <2>4. container.counts = container.retained /\ Uncapped(container, Len(todo') + 1)
    BY <1>2, <2>3 DEF CompatInv, Collect
  <2> HIDE DEF o
  <2>5. container'.counts = container'.retained /\ Uncapped(container', Len(todo'))
    BY <2>1, <2>2, <2>3, <2>4, AddRetains
  <2>6. QED
    BY <2>2, <2>5 DEF CompatInv
<1>3. CASE Record
  <2>1. notices' = merge(notices, container) /\ container' = container
    BY <1>3 DEF Record
  <2>2. /\ notices'.counts = summed(notices.counts, container.counts)
        /\ notices'.retained = summed(notices.retained, container.retained)
    BY <2>1, MergeFields DEF TypeInv, TypeOK
  <2>3. pc' # "walk"
    BY <1>3 DEF Record
  <2>4. QED
    BY <2>1, <2>2, <2>3 DEF CompatInv
<1>4. CASE UNCHANGED <<pc, container, todo, notices>>
  BY <1>4 DEF CompatInv
<1>5. CASE UNCHANGED <<container, notices>> /\ pc' # "walk"
  BY <1>5 DEF CompatInv
<1>6. QED
  BY <1>1, <1>2, <1>3, <1>4, <1>5, ActionDisjuncts
  DEF vars, BeginCycle, EndOfInputs, Unreadable, FetchRaises, Suppress, Read, Announce,
      TakeClock, FallBackToModificationTime, StatFails, DecodeFails, Decode, AbandonCycle,
      Combine, AbortOnEqualMessage, Deliver, SinkFails

\* A compat run drops nothing, whatever is found in however many messages, and its
\* state is well formed.
THEOREM CompatDrops == Spec => []CompatHolds
<1>1. TypeInv /\ CompatInv => CompatHolds
  <2> SUFFICES ASSUME TypeInv, CompatInv, Mode = "compat", NEW r \in Rules
               PROVE  dropped_for(notices, r) = 0
    BY DEF CompatHolds, CompatDropsNothing, TypeInv
  <2>1. notices.counts \in [Rules -> Nat] /\ notices.counts = notices.retained
    BY Fields DEF TypeInv, TypeOK, CompatInv
  <2>2. QED
    BY <2>1 DEF dropped_for
<1>2. Spec => []TypeInv
  BY InitType, NextType, PTL DEF Spec
<1>3. Spec => []CompatInv
  BY <1>2, CompatInit, CompatNext, PTL DEF Spec
<1>4. QED
  BY <1>1, <1>2, <1>3, PTL

-----------------------------------------------------------------------------
\* A system error recorded is a container that changed.
LEMMA ErrorsChange ==
  ASSUME TypeInv, NEW code \in SystemErrorCode, NEW role \in Roles, cycle >= 1,
         system_error(code, role)
  PROVE  system_errors' # system_errors
<1> DEFINE o == [rule_id |-> code, source |-> <<cycle, role>>]
<1>1. <<cycle, role>> \in Names
  BY RunAssumption DEF TypeInv, TypeOK, Names
<1>2. o \in Occurrences /\ code \in Rules
  BY <1>1, DataAssumption
<1>3. system_errors \in Container
  BY DEF TypeInv, TypeOK
<1>4. o.rule_id = code /\ system_errors' = add(system_errors, o)
  BY DEF system_error
<1> HIDE DEF o
<1>5. system_errors'.counts = plus(system_errors.counts, code, 1)
  BY <1>2, <1>3, <1>4, AddFields
<1>6. system_errors.counts \in [Rules -> Nat]
  BY <1>3, Fields
<1>7. system_errors'.counts[code] = system_errors.counts[code] + 1
  BY <1>2, <1>5, <1>6 DEF plus
<1>8. system_errors.counts[code] \in Nat
  BY <1>2, <1>6
<1>9. QED
  BY <1>7, <1>8

\* A source skipped without a system error is a duplicate of something.
THEOREM SilentSkips == Spec => SilentSkipNeedsABasis
<1> USE DEF loopVars, walkVars, basisVars, tallyVars, histVars
<1>1. ASSUME TypeInv, [Next]_vars, skipped' # skipped, system_errors' = system_errors
      PROVE  basis[IF source = None THEN Head(pending) ELSE source] # None
  <2>1. ASSUME NEW role \in Roles, Unreadable(role) PROVE FALSE
    <3>1. UNREADABLE_FILE \in SystemErrorCode
      BY DEF SystemErrorCode
    <3>2. Announce(role) /\ system_error(UNREADABLE_FILE, role)
      BY <2>1 DEF Unreadable
    <3>3. QED
      BY <1>1, <3>1, <3>2, ErrorsChange, AnnounceType
  <2>2. CASE DecodeFails
    <3>1. source \in Roles /\ cycle >= 1
      BY <1>1, <2>2 DEF DecodeFails, TypeInv, PhaseInv
    <3>2. Decoded[data] \in SystemErrorCode
      BY <2>2 DEF DecodeFails, SystemErrorCode
    <3>3. system_error(Decoded[data], source)
      BY <2>2 DEF DecodeFails, decode_error
    <3>4. QED
      BY <1>1, <3>1, <3>2, <3>3, ErrorsChange
  <2>3. ASSUME NEW role \in Roles, NEW payload \in Payloads, Suppress(role, payload)
        PROVE  basis[IF source = None THEN Head(pending) ELSE source] # None
    <3>1. Announce(role) /\ basis[role] # None
      BY <2>3 DEF Suppress, is_duplicate
    <3>2. source = None /\ role = Head(pending)
      BY <1>1, <3>1, AnnounceType DEF Announce
    <3>3. QED
      BY <3>1, <3>2
  <2>4. QED
    BY <1>1, <2>1, <2>2, <2>3, ActionDisjuncts
    DEF vars, BeginCycle, EndOfInputs, FetchRaises, Read, Announce, TakeClock,
        FallBackToModificationTime, StatFails, Decode, AbandonCycle, Combine,
        AbortOnEqualMessage, Validate, Collect, Deliver, SinkFails, Record
<1>2. Spec => []TypeInv
  BY InitType, NextType, PTL DEF Spec
<1>3. TypeInv /\ [Next]_vars =>
        (skipped' # skipped /\ system_errors' = system_errors =>
           basis[IF source = None THEN Head(pending) ELSE source] # None)
  BY <1>1
<1>4. QED
  BY <1>2, <1>3, PTL DEF Spec, SilentSkipNeedsABasis

-----------------------------------------------------------------------------
\* The totals.  FoundIn's recursion: what the first i reports found, for every i.
Sums(f, run, r) ==
  /\ f \in [0..Len(run) -> Nat]
  /\ f[0] = 0
  /\ \A i \in 1..Len(run) : f[i] = f[i-1] + FindingsIn(run[i], r)

LEMMA FindingsInType ==
  ASSUME NEW report \in Report, NEW r \in Rules
  PROVE  FindingsIn(report, r) \in Nat
<1>1. /\ report.message \in Messages /\ report.was \in Messages \cup {None}
      /\ report.cycle \in Views /\ report.combined \in Views \cup {None}
  BY DEF Report
<1>2. Findings(report.message, report.was, report.cycle, report.combined) \in Seq(Finding)
  BY <1>1, FindingsAreTyped, Zenon
<1>3. QED
  BY <1>2, OfRuleType DEF FindingsIn

LEMMA FoundInSums ==
  ASSUME NEW run \in Seq(Report), NEW r \in Rules
  PROVE  \E f : Sums(f, run, r) /\ FoundIn(run, r) = f[Len(run)]
<1> DEFINE n == Len(run)
           more(i) == IF i \in 1..n THEN FindingsIn(run[i], r) ELSE 0
           step == [p \in Nat \X Nat |-> p[1] + more(p[2])]
           body(g) == [i \in 0..n |-> IF i = 0 THEN 0 ELSE g[i-1] + FindingsIn(run[i], r)]
<1>1. n \in Nat /\ \A i \in 1..n : run[i] \in Report
  <2> HIDE DEF Report
  <2>1. QED
    BY LenProperties, ElementOfSeq
<1>2. \A i \in Nat : more(i) \in Nat
  BY <1>1, FindingsInType
<1>3. step \in [Nat \X Nat -> Nat]
  <2> HIDE DEF more
  <2>1. ASSUME NEW p \in Nat \X Nat PROVE p[1] + more(p[2]) \in Nat
    <3>1. p[1] \in Nat /\ more(p[2]) \in Nat
      BY <1>2
    <3>2. QED
      BY <3>1
  <2>2. QED
    BY <2>1
<1>4. PICK f : Recursion(f, n, Nat, 0, step)
  <2> HIDE DEF step, n
  <2>1. 0 \in Nat
    OBVIOUS
  <2>2. QED
    BY <1>1, <1>3, <2>1, NatRecursion, Zenon
<1>5. f \in [0..n -> Nat] /\ f[0] = 0
  BY <1>4 DEF Recursion
<1>6. ASSUME NEW i \in 1..n PROVE f[i] = f[i-1] + FindingsIn(run[i], r)
  <2> DEFINE q == <<f[i-1], i>>
  <2>1. i - 1 \in 0..n /\ i \in Nat
    BY <1>1
  <2>2. q \in Nat \X Nat /\ q[1] = f[i-1] /\ q[2] = i
    BY <1>5, <2>1
  <2>3. f[i] = step[q]
    <3> HIDE DEF step, n
    <3>1. QED
      BY <1>4 DEF Recursion
  <2> HIDE DEF q
  <2>4. step[q] = q[1] + more(q[2])
    <3> HIDE DEF more
    <3>1. QED
      BY <2>2
  <2>5. more(i) = FindingsIn(run[i], r)
    OBVIOUS
  <2> HIDE DEF more
  <2>6. QED
    BY <2>2, <2>3, <2>4, <2>5
<1>7. f = body(f)
  <2>1. ASSUME NEW i \in 0..n
        PROVE  f[i] = IF i = 0 THEN 0 ELSE f[i-1] + FindingsIn(run[i], r)
    <3>1. CASE i = 0
      BY <1>5, <3>1, Zenon
    <3>2. CASE i # 0
      <4>1. i \in 1..n
        BY <1>1, <3>2
      <4>2. QED
        BY <1>6, <3>2, <4>1, Zenon
    <3>3. QED
      BY <3>1, <3>2
  <2>2. f = [i \in 0..n |-> f[i]]
    BY <1>5
  <2>3. QED
    BY <2>1, <2>2, Zenon
<1> DEFINE g == CHOOSE h : h = body(h)
<1>8. g = body(g)
  <2> HIDE DEF body
  <2>1. QED
    BY <1>7
<1>9. FoundIn(run, r) = g[n]
  BY DEF FoundIn
<1>10. g[n] = f[n]
  <2>1. g[0] = f[0]
    <3>1. g[0] = body(g)[0]
      BY <1>8, Zenon
    <3> HIDE DEF g
    <3>2. 0 \in 0..n
      BY <1>1
    <3>3. QED
      BY <1>5, <3>1, <3>2
  <2>2. ASSUME NEW i \in 1..n, g[i-1] = f[i-1] PROVE g[i] = f[i]
    <3>1. i \in 0..n /\ i # 0
      BY <1>1
    <3>2. g[i] = body(g)[i]
      BY <1>8, Zenon
    <3> HIDE DEF g
    <3>3. g[i] = g[i-1] + FindingsIn(run[i], r)
      BY <3>1, <3>2
    <3>4. QED
      BY <1>6, <2>2, <3>3, Zenon
  <2> HIDE DEF g, n
  <2>3. n \in Nat /\ LikeSteps(g, f, n)
    BY <1>1, <2>2 DEF LikeSteps
  <2>4. Alike(g, f, n)
    BY <2>1, <2>3, Agreement
  <2>5. QED
    BY <1>1, <2>4 DEF Alike
<1>11. Sums(f, run, r)
  BY <1>5, <1>6 DEF Sums
<1>12. QED
  BY <1>9, <1>10, <1>11

\* One more report is its findings more.
LEMMA FoundInAppend ==
  ASSUME NEW run \in Seq(Report), NEW report \in Report, NEW r \in Rules
  PROVE  FoundIn(Append(run, report), r) = FoundIn(run, r) + FindingsIn(report, r)
<1> DEFINE n == Len(run)
           longer == Append(run, report)
<1> HIDE DEF Report
<1>1. /\ n \in Nat /\ longer \in Seq(Report) /\ Len(longer) = n + 1 /\ longer[n+1] = report
      /\ \A i \in 1..n : longer[i] = run[i]
  BY AppendProperties
<1> HIDE DEF longer, n
<1>2. PICK f : Sums(f, run, r) /\ FoundIn(run, r) = f[n]
  BY FoundInSums DEF n
<1>3. PICK g : Sums(g, longer, r) /\ FoundIn(longer, r) = g[n+1]
  BY <1>1, FoundInSums
<1>4. g[0] = f[0]
  BY <1>2, <1>3 DEF Sums
<1>5. ASSUME NEW i \in 1..n, g[i-1] = f[i-1] PROVE g[i] = f[i]
  <2>1. i \in 1..n+1
    BY <1>1
  <2>2. g[i] = g[i-1] + FindingsIn(longer[i], r)
    BY <1>1, <1>3, <2>1 DEF Sums
  <2>3. f[i] = f[i-1] + FindingsIn(run[i], r)
    BY <1>2 DEF Sums, n
  <2>4. QED
    BY <1>1, <1>5, <2>2, <2>3, Zenon
<1>6. g[n] = f[n]
  <2>1. n \in Nat /\ n \in 0..n
    BY <1>1
  <2>2. LikeSteps(g, f, n)
    BY <1>5 DEF LikeSteps
  <2>3. Alike(g, f, n)
    BY <1>4, <2>1, <2>2, Agreement
  <2>4. QED
    BY <2>1, <2>3 DEF Alike
<1>7. n + 1 \in 1..n+1 /\ (n + 1) - 1 = n
  BY <1>1
<1>8. g[n+1] = g[n] + FindingsIn(longer[n+1], r)
  BY <1>1, <1>3, <1>7 DEF Sums
<1>9. QED
  BY <1>1, <1>2, <1>3, <1>6, <1>8, Zenon DEF longer

LEMMA FoundInEmpty ==
  ASSUME NEW r \in Rules
  PROVE  FoundIn(<<>>, r) = 0
<1>1. <<>> \in Seq(Report) /\ Len(<<>>) = 0
  BY EmptySeq
<1>2. PICK f : Sums(f, <<>>, r) /\ FoundIn(<<>>, r) = f[Len(<<>>)]
  BY <1>1, FoundInSums
<1>3. QED
  BY <1>1, <1>2 DEF Sums

\* The aggregate has what the recorded messages found, and while one is walked its
\* container has what was found of it less what is still to be collected.
TotalInv ==
  /\ TotalsAreTrue
  /\ pc \in {"walk", "record"} =>
       \A r \in Rules : container.counts[r] + Len(OfRule(todo, r)) = Len(OfRule(Found, r))
  /\ pc = "record" => todo = <<>>

LEMMA TotalInit == Init => TotalInv
<1> SUFFICES ASSUME Init PROVE TotalInv
  OBVIOUS
<1>1. notices.counts = [r \in Rules |-> 0] /\ reports = <<>> /\ pc = "cycle"
  BY DEF Init, DefaultContainer, NewContainer
<1>2. QED
  BY <1>1, FoundInEmpty DEF TotalInv, TotalsAreTrue

LEMMA FoundType ==
  ASSUME TypeInv, pc \in {"validate", "walk", "record"}
  PROVE  Found \in Seq(Finding)
<1>1. /\ one.message \in Messages /\ was(one.role) \in Messages \cup {None}
      /\ view \in Views /\ combined(one.role) \in Views \cup {None}
  BY OneType
<1>2. QED
  BY <1>1, FindingsAreTyped, Zenon DEF Found

\* Nothing but a record changes what the message being validated is looked at with.
LEMMA FoundStays ==
  ASSUME UNCHANGED <<decoded, previous, view>>
  PROVE  Found' = Found
BY DEF Found, one, was, combined

LEMMA TotalNext ==
  ASSUME TypeInv, TypeInv', TotalInv, [Next]_vars
  PROVE  TotalInv'
<1> USE DEF loopVars, walkVars, basisVars, tallyVars, histVars
<1>1. CASE Validate
  <2>1. /\ container' = fresh_container /\ todo' = Found /\ pc' = "walk"
        /\ UNCHANGED <<notices, reports, decoded, previous, view>> /\ pc = "validate"
    BY <1>1 DEF Validate, Found
  <2>2. \A r \in Rules : container'.counts[r] = 0
    BY <2>1 DEF fresh_container, message_container, DefaultContainer, UncappedContainer,
                NewContainer
  <2>3. Found' = Found /\ Found \in Seq(Finding)
    BY <2>1, FoundStays, FoundType
  <2>4. ASSUME NEW r \in Rules
        PROVE  container'.counts[r] + Len(OfRule(todo', r)) = Len(OfRule(Found', r))
    <3>1. Len(OfRule(Found, r)) \in Nat
      BY <2>3, OfRuleType
    <3>2. QED
      BY <2>1, <2>2, <2>3, <3>1
  <2>5. TotalsAreTrue'
    BY <2>1 DEF TotalInv, TotalsAreTrue
  <2>6. QED
    BY <2>1, <2>4, <2>5 DEF TotalInv
<1>2. CASE Collect
  <2> DEFINE o == stamped(Head(todo), one.role)
  <2>1. /\ todo \in Seq(Finding) /\ todo # <<>> /\ container \in Container
        /\ o \in Occurrences /\ o.rule_id = Head(todo).rule_id
    BY <1>2, StampedType DEF Collect, TypeInv, TypeOK, stamped
  <2>2. /\ container' = add(container, o) /\ todo' = Tail(todo) /\ pc = "walk" /\ pc' = "walk"
        /\ UNCHANGED <<notices, reports, decoded, previous, view>>
    BY <1>2 DEF Collect
  <2> HIDE DEF o
  <2>3. ASSUME NEW r \in Rules
        PROVE  container'.counts[r] + Len(OfRule(todo', r)) = Len(OfRule(Found', r))
    <3>1. /\ container'.counts = plus(container.counts, o.rule_id, 1)
          /\ container.counts \in [Rules -> Nat]
      BY <2>1, <2>2, AddFields, Fields
    <3>2. container'.counts[r] = container.counts[r] + (IF o.rule_id = r THEN 1 ELSE 0)
      BY <3>1 DEF plus
    <3>3. /\ Len(OfRule(todo, r)) =
               Len(OfRule(Tail(todo), r)) + (IF Head(todo).rule_id = r THEN 1 ELSE 0)
          /\ Tail(todo) \in Seq(Finding)
      BY <2>1, HowManyTail, HeadTailProperties
    <3>4. Len(OfRule(todo', r)) \in Nat /\ container.counts[r] \in Nat
      BY <2>2, <3>1, <3>3, OfRuleType
    <3>5. container.counts[r] + Len(OfRule(todo, r)) = Len(OfRule(Found, r))
      BY <2>2 DEF TotalInv
    <3>6. Found' = Found
      BY <2>2, FoundStays
    <3>7. QED
      BY <2>1, <2>2, <3>2, <3>3, <3>4, <3>5, <3>6
  <2>4. TotalsAreTrue'
    BY <2>2 DEF TotalInv, TotalsAreTrue
  <2>5. QED
    BY <2>2, <2>3, <2>4 DEF TotalInv
<1>3. CASE Deliver
  <2>1. /\ todo = <<>> /\ pc = "walk" /\ pc' = "record"
        /\ UNCHANGED <<container, todo, notices, reports, decoded, previous, view>>
    BY <1>3 DEF Deliver
  <2>2. Found' = Found
    BY <2>1, FoundStays
  <2>3. QED
    BY <2>1, <2>2 DEF TotalInv, TotalsAreTrue
<1>4. CASE Record
  <2> DEFINE report == [name |-> <<cycle, one.role>>, message |-> one.message,
                        was |-> was(one.role), cycle |-> view,
                        combined |-> combined(one.role)]
  <2>1. /\ pc = "record" /\ pc' \in {"cycle", "validate"} /\ todo = <<>>
        /\ notices' = merge(notices, container) /\ reports' = Append(reports, report)
    BY <1>4 DEF Record, TotalInv
  <2>2. report \in Report /\ reports \in Seq(Report)
    BY <2>1, OneType DEF Report, TypeInv, TypeOK
  <2>3. \A r \in Rules : FindingsIn(report, r) = Len(OfRule(Found, r))
    BY DEF FindingsIn, Found
  <2> HIDE DEF report
  <2>4. ASSUME NEW r \in Rules
        PROVE  notices'.counts[r] = FoundIn(reports', r)
    <3>1. notices \in Container /\ container \in Container
      BY DEF TypeInv, TypeOK
    <3>2. notices'.counts[r] = notices.counts[r] + container.counts[r]
      <4>1. notices'.counts = summed(notices.counts, container.counts)
        BY <2>1, <3>1, MergeFields
      <4>2. QED
        BY <4>1 DEF summed
    <3>3. container.counts[r] + Len(OfRule(todo, r)) = Len(OfRule(Found, r))
      BY <2>1 DEF TotalInv
    <3>4. OfRule(todo, r) = <<>> /\ Len(<<>>) = 0
      BY <2>1, OfRuleEmpty, EmptySeq
    <3>5. container.counts[r] \in Nat
      BY <3>1, Fields
    <3>6. container.counts[r] = FindingsIn(report, r)
      BY <2>3, <3>3, <3>4, <3>5
    <3>7. notices.counts[r] = FoundIn(reports, r)
      BY DEF TotalInv, TotalsAreTrue
    <3>8. FoundIn(reports', r) = FoundIn(reports, r) + FindingsIn(report, r)
      BY <2>1, <2>2, FoundInAppend
    <3>9. QED
      BY <3>2, <3>6, <3>7, <3>8
  <2>5. QED
    BY <2>1, <2>4 DEF TotalInv, TotalsAreTrue
<1>5. CASE UNCHANGED <<notices, reports>> /\ pc' \notin {"walk", "record"}
  BY <1>5 DEF TotalInv, TotalsAreTrue
<1>6. CASE UNCHANGED vars
  <2>1. Found' = Found
    BY <1>6, FoundStays DEF vars
  <2>2. UNCHANGED <<notices, reports, pc, container, todo>>
    BY <1>6 DEF vars
  <2>3. QED
    BY <2>1, <2>2 DEF TotalInv, TotalsAreTrue
<1>7. QED
  BY <1>1, <1>2, <1>3, <1>4, <1>5, <1>6, ActionDisjuncts
  DEF TypeInv, PhaseInv, BeginCycle, EndOfInputs, Unreadable, FetchRaises, Suppress, Read,
      Announce, TakeClock, FallBackToModificationTime, StatFails, DecodeFails, Decode,
      AbandonCycle, Combine, AbortOnEqualMessage, SinkFails

-----------------------------------------------------------------------------
\* While a message is walked, what is left to collect is the end of what was found,
\* and its container is what becomes of the rest, added in order to an empty one.
WalkInv ==
  pc \in {"walk", "record"} =>
    /\ Len(todo) <= Len(Found)
    /\ \A k \in 1..Len(todo) : todo[k] = Found[Len(Found) - Len(todo) + k]
    /\ Counted(container, Walked, [r \in Rules |-> 0])
    /\ HoldsTheFirst(container, Walked)

LEMMA FindingStamped ==
  ASSUME TypeInv, pc \in {"walk", "record"}, NEW f \in Finding
  PROVE  stamped(f, one.role) \in Occurrences
<1> DEFINE named == IF f.names = None THEN one.role ELSE f.names
<1>1. one.role \in Roles /\ cycle \in 0..MaxCycles /\ cycle >= 1
  BY OneType DEF TypeInv, TypeOK, PhaseInv
<1>2. f.rule_id \in Rules /\ named \in Roles
  BY <1>1 DEF Finding
<1>3. <<cycle, named>> \in Names
  BY <1>1, <1>2, RunAssumption DEF Names
<1>4. stamped(f, one.role) = [rule_id |-> f.rule_id, source |-> <<cycle, named>>]
  BY DEF stamped
<1> HIDE DEF named
<1>5. QED
  BY <1>2, <1>3, <1>4, DataAssumption

LEMMA WalkedType ==
  ASSUME TypeInv, pc \in {"walk", "record"}, Len(todo) <= Len(Found)
  PROVE  /\ Walked \in Seq(Occurrences) /\ Len(Walked) = Len(Found) - Len(todo)
         /\ \A k \in 1..Len(Walked) : Walked[k] = stamped(Found[k], one.role)
<1> DEFINE n == Len(Found) - Len(todo)
<1>1. Found \in Seq(Finding) /\ Len(Found) \in Nat /\ todo \in Seq(Finding) /\ Len(todo) \in Nat
  <2>1. Found \in Seq(Finding) /\ todo \in Seq(Finding)
    BY FoundType DEF TypeInv, TypeOK
  <2>2. QED
    BY <2>1, LenProperties
<1>2. n \in Nat /\ n <= Len(Found)
  BY <1>1
<1>3. \A k \in 1..n : Found[k] \in Finding
  <2> HIDE DEF Finding
  <2>1. QED
    BY <1>1, <1>2, ElementOfSeq
<1>4. \A k \in 1..n : stamped(Found[k], one.role) \in Occurrences
  BY <1>3, FindingStamped
<1>5. Walked = [k \in 1..n |-> stamped(Found[k], one.role)]
  BY DEF Walked
<1> HIDE DEF n
<1>6. Walked \in Seq(Occurrences) /\ Len(Walked) = n
  BY <1>2, <1>4, <1>5, IsASeq
<1>7. QED
  BY <1>5, <1>6 DEF n

\* A container that is yet to be offered anything.
LEMMA EmptyHoldsNothing ==
  ASSUME NEW max_total \in Nat, NEW max_per_rule \in Nat
  PROVE  /\ Counted(NewContainer(max_total, max_per_rule), <<>>, [r \in Rules |-> 0])
         /\ HoldsTheFirst(NewContainer(max_total, max_per_rule), <<>>)
<1> DEFINE c == NewContainer(max_total, max_per_rule)
<1>1. c.counts = [r \in Rules |-> 0] /\ c.retained = [r \in Rules |-> 0] /\ c.occurrences = <<>>
  BY DEF NewContainer
<1> HIDE DEF c
<1>2. Len(<<>>) = 0 /\ <<>> \in Seq(Occurrences) /\ <<>> = <<>> \o <<>>
  BY EmptySeq, ConcatEmptySeq
<1>3. \A r \in Rules : OfRule(<<>>, r) = <<>>
  BY OfRuleEmpty
<1>4. Counted(c, <<>>, [r \in Rules |-> 0])
  <2>1. ASSUME NEW r \in Rules
        PROVE  /\ c.counts[r] = Len(OfRule(<<>>, r)) + 0
               /\ c.retained[r] = Len(OfRule(c.occurrences, r))
    <3>1. c.counts[r] = 0 /\ c.retained[r] = 0
      BY <1>1
    <3>2. Len(OfRule(<<>>, r)) = 0 /\ OfRule(c.occurrences, r) = OfRule(<<>>, r)
      BY <1>1, <1>2, <1>3
    <3>3. QED
      BY <3>1, <3>2
  <2>2. \A r \in Rules : [q \in Rules |-> 0][r] = 0
    OBVIOUS
  <2>3. QED
    BY <2>1, <2>2 DEF Counted
<1>5. HoldsTheFirst(c, <<>>)
  BY <1>1, <1>2, <1>3 DEF HoldsTheFirst
<1>6. QED
  BY <1>4, <1>5 DEF c

LEMMA WalkNext ==
  ASSUME TypeInv, TypeInv', WalkInv, [Next]_vars
  PROVE  WalkInv'
<1> USE DEF loopVars, walkVars, basisVars, tallyVars, histVars
<1> DEFINE zero == [r \in Rules |-> 0]
<1>1. CASE Validate
  <2>1. /\ container' = fresh_container /\ todo' = Found
        /\ UNCHANGED <<decoded, previous, view>> /\ pc = "validate"
    BY <1>1 DEF Validate, Found
  <2>2. Found' = Found /\ Found \in Seq(Finding) /\ Len(Found) \in Nat
    <3>1. Found' = Found /\ Found \in Seq(Finding)
      BY <2>1, FoundStays, FoundType
    <3>2. QED
      BY <3>1, LenProperties
  <2>3. Walked' = <<>>
    <3>1. Walked' = [k \in 1..0 |-> stamped(Found[k], one.role)']
      BY <2>1, <2>2 DEF Walked
    <3>2. QED
      BY <3>1
  <2>4. Counted(container', <<>>, zero) /\ HoldsTheFirst(container', <<>>)
    <3>1. \/ container' = NewContainer(MAX_TOTAL_OCCURRENCES, MAX_OCCURRENCES_PER_RULE)
          \/ container' = NewContainer(Unlimited, Unlimited)
      BY <2>1 DEF fresh_container, message_container, DefaultContainer, UncappedContainer
    <3>2. QED
      BY <3>1, EmptyHoldsNothing, CapsAreNatural
  <2>5. Counted(container', Walked', zero) /\ HoldsTheFirst(container', Walked')
    BY <2>3, <2>4
  <2>6. /\ Len(todo') <= Len(Found')
        /\ \A k \in 1..Len(todo') : todo'[k] = Found'[Len(Found') - Len(todo') + k]
    BY <2>1, <2>2
  <2>7. QED
    BY <2>5, <2>6 DEF WalkInv
<1>2. CASE Collect
  <2> DEFINE o == stamped(Head(todo), one.role)
             n == Len(Found) - Len(todo)
  <2>1. /\ container' = add(container, o) /\ todo' = Tail(todo) /\ todo # <<>>
        /\ pc = "walk" /\ pc' = "walk"
        /\ UNCHANGED <<decoded, previous, view, cycle>>
    BY <1>2 DEF Collect
  <2>2. /\ Len(todo) <= Len(Found)
        /\ \A k \in 1..Len(todo) : todo[k] = Found[Len(Found) - Len(todo) + k]
        /\ Counted(container, Walked, zero) /\ HoldsTheFirst(container, Walked)
    BY <2>1 DEF WalkInv
  <2>3. /\ todo \in Seq(Finding) /\ container \in Container /\ o \in Occurrences
        /\ Found \in Seq(Finding) /\ Found' = Found
    BY <2>1, StampedType, FoundType, FoundStays DEF TypeInv, TypeOK
  <2>4. /\ Len(Found) \in Nat /\ Len(todo) \in Nat /\ Head(todo) = todo[1] /\ Len(todo) >= 1
        /\ Len(todo') = Len(todo) - 1
        /\ \A k \in 1..Len(todo') : todo'[k] = todo[k + 1]
    <3> HIDE DEF Finding, Found
    <3>1. Len(Found) \in Nat /\ Len(todo) \in Nat /\ (Len(todo) = 0 <=> todo = <<>>)
      BY <2>3, LenProperties, EmptySeq
    <3>2. Head(todo) = todo[1]
      BY <2>1, <2>3
    <3>3. /\ Len(Tail(todo)) = Len(todo) - 1
          /\ \A k \in 1..Len(Tail(todo)) : Tail(todo)[k] = todo[k + 1]
      BY <2>1, <2>3, HeadTailProperties
    <3>4. QED
      BY <2>1, <3>1, <3>2, <3>3
  <2>5. n \in Nat /\ n + 1 <= Len(Found) /\ Head(todo) = Found[n + 1]
        /\ Len(Found') - Len(todo') = n + 1
    BY <2>2, <2>3, <2>4
  <2>6. /\ Len(todo') <= Len(Found')
        /\ \A k \in 1..Len(todo') : todo'[k] = Found'[Len(Found') - Len(todo') + k]
    <3>1. ASSUME NEW k \in 1..Len(todo')
          PROVE  todo'[k] = Found'[Len(Found') - Len(todo') + k]
      <4>1. todo'[k] = todo[k + 1] /\ k + 1 \in 1..Len(todo)
        BY <2>4
      <4>2. todo[k + 1] = Found[Len(Found) - Len(todo) + (k + 1)]
        BY <2>2, <4>1
      <4>3. Len(Found) - Len(todo) + (k + 1) = Len(Found') - Len(todo') + k
        BY <2>3, <2>4
      <4>4. QED
        BY <2>3, <4>1, <4>2, <4>3
    <3>2. Len(todo') <= Len(Found')
      BY <2>2, <2>3, <2>4
    <3>3. QED
      BY <3>1, <3>2
  <2>7. Walked' = Append(Walked, o)
    <3>1. /\ Walked \in Seq(Occurrences) /\ Len(Walked) = n
          /\ \A k \in 1..n : Walked[k] = stamped(Found[k], one.role)
      BY <2>1, <2>2, WalkedType
    <3>2. stamped(Found[n + 1], one.role) = o
      BY <2>5
    <3>3. \A k \in 1..n + 1 : stamped(Found[k], one.role)' = stamped(Found[k], one.role)
      BY <2>1, <2>3 DEF stamped, one
    <3>4. Walked' = [k \in 1..n + 1 |-> stamped(Found[k], one.role)]
      <4>1. Walked' = [k \in 1..n + 1 |-> stamped(Found[k], one.role)']
        BY <2>5 DEF Walked
      <4>2. QED
        BY <3>3, <4>1
    <3> HIDE DEF n, o
    <3>5. /\ Append(Walked, o) \in Seq(Occurrences) /\ Len(Append(Walked, o)) = n + 1
          /\ \A k \in 1..n : Append(Walked, o)[k] = stamped(Found[k], one.role)
          /\ Append(Walked, o)[n + 1] = o
      <4> DEFINE w == Walked
      <4>1. w \in Seq(Occurrences) /\ Len(w) = n /\ o \in Occurrences
        BY <2>3, <3>1
      <4> HIDE DEF w
      <4>2. /\ Append(w, o) \in Seq(Occurrences) /\ Len(Append(w, o)) = n + 1
            /\ \A k \in 1..n : Append(w, o)[k] = w[k]
            /\ Append(w, o)[n + 1] = o
        BY <4>1, AppendProperties
      <4>3. \A k \in 1..n : w[k] = stamped(Found[k], one.role)
        BY <3>1 DEF w
      <4>4. \A k \in 1..n : Append(w, o)[k] = stamped(Found[k], one.role)
        BY <4>2, <4>3
      <4>5. QED
        BY <4>2, <4>4 DEF w
    <3>6. n \in Nat
      BY <2>5
    <3>7. \A k \in 1..n + 1 : Append(Walked, o)[k] = stamped(Found[k], one.role)
      <4>1. \A k \in 1..n + 1 : k \in 1..n \/ k = n + 1
        BY <3>6
      <4>2. QED
        BY <3>2, <3>5, <4>1
    <3>8. Append(Walked, o) = [k \in 1..n + 1 |-> Append(Walked, o)[k]]
      BY <3>5, LenProperties
    <3>9. QED
      BY <3>4, <3>7, <3>8
  <2>8. Walked \in Seq(Occurrences)
    BY <2>1, <2>2, WalkedType
  <2> HIDE DEF o, zero
  <2>9. zero \in [Rules -> Nat]
    BY DEF zero
  <2>10. Counted(container', Walked', zero) /\ HoldsTheFirst(container', Walked')
    BY <2>1, <2>2, <2>3, <2>7, <2>8, <2>9, AddCounts, AddHoldsTheFirst
  <2>11. QED
    BY <2>6, <2>10 DEF WalkInv, zero
<1>3. CASE Deliver \/ UNCHANGED vars
  <2>1. /\ pc' \in {"walk", "record"} => pc \in {"walk", "record"}
        /\ UNCHANGED <<container, todo, decoded, previous, view, cycle>>
    BY <1>3 DEF Deliver, vars
  <2>2. Found' = Found
    BY <2>1, FoundStays
  <2>3. \A k : stamped(Found[k], one.role)' = stamped(Found[k], one.role)
    BY <2>1, <2>2 DEF stamped, one
  <2>4. Walked' = Walked
    <3>1. Walked' = [k \in 1..Len(Found) - Len(todo) |-> stamped(Found[k], one.role)']
      BY <2>1, <2>2 DEF Walked
    <3>2. QED
      BY <2>3, <3>1 DEF Walked
  <2>5. QED
    BY <2>1, <2>2, <2>4 DEF WalkInv
<1>4. CASE pc' \notin {"walk", "record"}
  BY <1>4 DEF WalkInv
<1>5. QED
  BY <1>1, <1>2, <1>3, <1>4, ActionDisjuncts
  DEF BeginCycle, EndOfInputs, Unreadable, FetchRaises, Suppress, Read, Announce, TakeClock,
      FallBackToModificationTime, StatFails, DecodeFails, Decode, AbandonCycle, Combine,
      AbortOnEqualMessage, SinkFails, Record

LEMMA WalkIsOwn ==
  ASSUME TypeInv, WalkInv
  PROVE  OwnFindingsOnly
<1> SUFFICES ASSUME pc \in {"walk", "record"}, NEW r \in Rules
             PROVE  LET kept  == Of(container, r)
                        found == OfRule(Walked, r)
                    IN  /\ container.counts[r] = Len(found)
                        /\ Len(kept) <= Len(found)
                        /\ \A k \in DOMAIN kept : kept[k] = found[k]
  BY DEF OwnFindingsOnly
<1> DEFINE kept  == OfRule(container.occurrences, r)
           found == OfRule(Walked, r)
<1>1. Walked \in Seq(Occurrences) /\ container \in Container
  BY WalkedType DEF WalkInv, TypeInv, TypeOK
<1>2. /\ kept \in Seq(Occurrences) /\ found \in Seq(Occurrences)
      /\ Len(kept) \in Nat /\ Len(found) \in Nat
  <2>1. container.occurrences \in Seq(Occurrences)
    BY <1>1, Fields
  <2>2. QED
    BY <1>1, <2>1, OfRuleType
<1>3. container.counts[r] = Len(found)
  BY <1>2 DEF WalkInv, Counted
<1>4. PICK t \in Seq(Occurrences) : found = kept \o t
  BY DEF WalkInv, HoldsTheFirst
<1> HIDE DEF kept, found
<1>5. /\ Len(found) = Len(kept) + Len(t) /\ Len(t) \in Nat
      /\ \A k \in 1..Len(kept) + Len(t) :
           found[k] = IF k <= Len(kept) THEN kept[k] ELSE t[k - Len(kept)]
  BY <1>2, <1>4, ConcatProperties, LenProperties
<1>6. \A k \in DOMAIN kept : kept[k] = found[k]
  <2>1. DOMAIN kept = 1..Len(kept)
    BY <1>2, LenProperties
  <2>2. QED
    BY <1>2, <1>5, <2>1
<1>7. Len(kept) <= Len(found)
  BY <1>2, <1>5
<1>8. QED
  BY <1>3, <1>6, <1>7 DEF kept, found, Of

\* A message's container counts what was found for that message so far and holds,
\* of each rule, the first of it.
THEOREM OwnFindings == Spec => []OwnFindingsOnly
<1>1. Init => WalkInv
  BY DEF Init, WalkInv
<1>2. LoopInv => TypeInv
  BY DEF LoopInv
<1>3. QED
  BY <1>1, <1>2, LoopInvariant, WalkNext, WalkIsOwn, PTL DEF Spec

-----------------------------------------------------------------------------
\* The cycles.  A report of this cycle: it saw the cycle's view, its own message
\* among the rest, and the combined one only as the cycle's host.
SawTheView(i) ==
  LET role == reports[i].name[2]
  IN  /\ reports[i].cycle = view
      /\ role \in DOMAIN view /\ view[role] = reports[i].message
      /\ reports[i].combined # None <=> role = host_role(DOMAIN view)

\* While a cycle is validated every role of its view is reported or still decoded,
\* and never both or twice.
ViewIsShared ==
  /\ \A i \in ReportsOf(cycle) : SawTheView(i)
  /\ \A i, j \in ReportsOf(cycle) : i # j => reports[i].name[2] # reports[j].name[2]
  /\ \A i \in ReportsOf(cycle), j \in DOMAIN decoded : reports[i].name[2] # decoded[j].role
  /\ \A j \in DOMAIN decoded :
       decoded[j].role \in DOMAIN view /\ view[decoded[j].role] = decoded[j].message
  /\ \A r \in DOMAIN view :
       \/ \E j \in DOMAIN decoded : decoded[j].role = r
       \/ \E i \in ReportsOf(cycle) : reports[i].name[2] = r

\* What a finished cycle has reported: CrossFeedOncePerCycle, of one cycle.
Reported(c) ==
  ReportsOf(c) # {} =>
    /\ \E i \in ReportsOf(c) : \A j \in ReportsOf(c) :
         reports[j].combined # None <=> i = j
    /\ \A i \in ReportsOf(c) :
         /\ DOMAIN reports[i].cycle = {reports[j].name[2] : j \in ReportsOf(c)}
         /\ \A j \in ReportsOf(c) :
              reports[i].cycle[reports[j].name[2]] = reports[j].message

CycleInv ==
  /\ \A i \in DOMAIN reports : reports[i].name[1] <= cycle
  /\ pc \in {"acquire", "clock", "decode"} => ReportsOf(cycle) = {}
  /\ pc \in {"validate", "walk", "record"} => ViewIsShared
  /\ \A c \in 1..cycle : c < cycle \/ pc \in {"cycle", "done"} => Reported(c)

\* A cycle with a role in it has a host.
LEMMA HostIsIn ==
  ASSUME NEW rs \in SUBSET Roles, rs # {}
  PROVE  host_role(rs) \in rs
<1> DEFINE keys == {role_key(r) : r \in rs}
<1>1. \A r \in rs : role_key(r) \in Nat
  <2>1. DOMAIN ROLE_ORDER = 1..4
    BY DEF ROLE_ORDER
  <2>2. \A r \in rs : \E k \in DOMAIN ROLE_ORDER : ROLE_ORDER[k] = r
    BY RunAssumption
  <2>3. \A r \in rs : role_key(r) \in DOMAIN ROLE_ORDER
    BY <2>2 DEF role_key
  <2>4. QED
    BY <2>1, <2>3
<1>2. keys \in SUBSET Nat /\ keys # {}
  BY <1>1
<1>3. PICK m \in keys : \A k \in keys : m <= k
  <2> HIDE DEF keys
  <2>1. QED
    BY <1>2, LeastNatural
<1>4. \E r \in rs : \A s \in rs : role_key(r) <= role_key(s)
  BY <1>3
<1>5. QED
  BY <1>4, Zenon DEF host_role

\* Recording adds one report behind the rest.
LEMMA RecordReports ==
  ASSUME TypeInv, Record
  PROVE  LET n == Len(reports) + 1
         IN  /\ n \notin DOMAIN reports /\ DOMAIN reports' = DOMAIN reports \cup {n}
             /\ \A i \in DOMAIN reports : reports'[i] = reports[i]
             /\ reports'[n].name = <<cycle, one.role>>
             /\ reports'[n].message = one.message
             /\ reports'[n].cycle = view
             /\ reports'[n].combined = combined(one.role)
<1> DEFINE n == Len(reports) + 1
           report == [name |-> <<cycle, one.role>>, message |-> one.message,
                      was |-> was(one.role), cycle |-> view,
                      combined |-> combined(one.role)]
<1>1. reports' = Append(reports, report) /\ reports \in Seq(Report) /\ report \in Report
  BY OneType DEF Record, Report, TypeInv, TypeOK
<1>2. /\ report.name = <<cycle, one.role>> /\ report.message = one.message
      /\ report.cycle = view /\ report.combined = combined(one.role)
  OBVIOUS
<1> HIDE DEF report, Report
<1>3. /\ Len(reports) \in Nat /\ DOMAIN reports = 1..Len(reports)
      /\ DOMAIN reports' = 1..Len(reports) + 1
      /\ \A i \in 1..Len(reports) : reports'[i] = reports[i]
      /\ reports'[n] = report
  BY <1>1, AppendProperties, LenProperties
<1>4. QED
  BY <1>2, <1>3

LEMMA RecordReportsOf ==
  ASSUME TypeInv, Record, NEW c
  PROVE  /\ ReportsOf(c)' = ReportsOf(c) \cup (IF c = cycle THEN {Len(reports) + 1} ELSE {})
         /\ Len(reports) + 1 \notin ReportsOf(c)
         /\ \A i \in ReportsOf(c) : reports'[i] = reports[i]
<1> DEFINE n == Len(reports) + 1
<1>1. /\ n \notin DOMAIN reports /\ DOMAIN reports' = DOMAIN reports \cup {n}
      /\ \A i \in DOMAIN reports : reports'[i] = reports[i]
      /\ reports'[n].name = <<cycle, one.role>>
  BY RecordReports
<1> HIDE DEF n
<1>2. reports'[n].name[1] = cycle
  BY <1>1
<1>3. QED
  BY <1>1, <1>2 DEF ReportsOf, n

LEMMA RecordShares ==
  ASSUME TypeInv, QueueInv, CycleInv, Record
  PROVE  ViewIsShared'
<1> DEFINE n == Len(reports) + 1
           R == ReportsOf(cycle)
<1>1. /\ ViewIsShared /\ cycle' = cycle /\ view' = view /\ view \in Views
  BY DEF CycleInv, Record, TypeInv, PhaseInv
<1>2. /\ ReportsOf(cycle)' = R \cup {n} /\ n \notin R
      /\ \A i \in R : reports'[i] = reports[i]
  BY <1>1, RecordReportsOf
<1>3. /\ reports'[n].name[2] = one.role /\ reports'[n].message = one.message
      /\ reports'[n].cycle = view /\ reports'[n].combined = combined(one.role)
  BY RecordReports
<1>4. /\ 1 \in DOMAIN decoded /\ one = decoded[1]
      /\ \A j \in DOMAIN decoded' :
           j + 1 \in DOMAIN decoded /\ j + 1 # 1 /\ decoded'[j] = decoded[j + 1]
  BY RecordShifts
<1>5. DOMAIN decoded = 1..Len(decoded) /\ Len(decoded) \in Nat
      /\ DOMAIN decoded' = 1..Len(decoded) - 1
  <2> DEFINE D == [role : Roles, digest : Payloads, message : Messages]
  <2>1. decoded \in Seq(D) /\ decoded # <<>> /\ decoded' = Tail(decoded)
    BY DEF TypeInv, TypeOK, PhaseInv, Record
  <2> HIDE DEF D
  <2>2. QED
    BY <2>1, HeadTailProperties, LenProperties
<1> HIDE DEF n, R
<1>6. /\ \A i \in R : SawTheView(i)
      /\ \A i, j \in R : i # j => reports[i].name[2] # reports[j].name[2]
      /\ \A i \in R, j \in DOMAIN decoded : reports[i].name[2] # decoded[j].role
      /\ \A j \in DOMAIN decoded :
           decoded[j].role \in DOMAIN view /\ view[decoded[j].role] = decoded[j].message
      /\ \A r \in DOMAIN view :
           \/ \E j \in DOMAIN decoded : decoded[j].role = r
           \/ \E i \in R : reports[i].name[2] = r
  BY <1>1 DEF ViewIsShared, R
<1>7. ASSUME NEW i \in R \cup {n} PROVE SawTheView(i)'
  <2>1. CASE i \in R
    BY <1>1, <1>2, <1>6, <2>1 DEF SawTheView
  <2>2. CASE i = n
    <3>1. one.role \in DOMAIN view /\ view[one.role] = one.message
      BY <1>4, <1>6
    <3>2. view # None
      BY <1>1, DataAssumption
    <3>3. combined(one.role) # None <=> one.role = host_role(DOMAIN view)
      BY <3>2 DEF combined
    <3>4. QED
      BY <1>1, <1>3, <2>2, <3>1, <3>3 DEF SawTheView
  <2>3. QED
    BY <2>1, <2>2
<1>8. \A i, j \in R \cup {n} : i # j => reports'[i].name[2] # reports'[j].name[2]
  BY <1>2, <1>3, <1>4, <1>6
<1>9. ASSUME NEW i \in R \cup {n}, NEW j \in DOMAIN decoded'
      PROVE  reports'[i].name[2] # decoded'[j].role
  BY <1>2, <1>3, <1>4, <1>6 DEF QueueInv
<1>10. \A j \in DOMAIN decoded' :
         decoded'[j].role \in DOMAIN view /\ view[decoded'[j].role] = decoded'[j].message
  BY <1>4, <1>6
<1>11. ASSUME NEW r \in DOMAIN view
       PROVE  \/ \E j \in DOMAIN decoded' : decoded'[j].role = r
              \/ \E i \in R \cup {n} : reports'[i].name[2] = r
  <2>1. CASE \E i \in R : reports[i].name[2] = r
    BY <1>2, <2>1
  <2>2. ASSUME NEW j \in DOMAIN decoded, decoded[j].role = r
        PROVE  \/ \E k \in DOMAIN decoded' : decoded'[k].role = r
               \/ \E i \in R \cup {n} : reports'[i].name[2] = r
    <3>1. CASE j = 1
      BY <1>3, <1>4, <2>2, <3>1
    <3>2. CASE j # 1
      <4>1. j - 1 \in DOMAIN decoded' /\ (j - 1) + 1 = j
        BY <1>5, <3>2
      <4>2. QED
        BY <1>4, <2>2, <4>1
    <3>3. QED
      BY <3>1, <3>2
  <2>3. QED
    BY <1>6, <2>1, <2>2
<1>12. QED
  BY <1>1, <1>2, <1>7, <1>8, <1>9, <1>10, <1>11 DEF ViewIsShared

\* The last record of a cycle leaves its view reported, by its host once.
LEMMA RecordFinishes ==
  ASSUME TypeInv, TypeInv', QueueInv, CycleInv, Record, decoded' = <<>>
  PROVE  Reported(cycle)'
<1> DEFINE R == ReportsOf(cycle)'
<1>1. ViewIsShared' /\ cycle' = cycle /\ view' = view /\ view \in Views
  BY RecordShares DEF Record, TypeInv, PhaseInv
<1>2. DOMAIN decoded' = {}
  BY EmptySeq
<1>3. /\ \A i \in R : SawTheView(i)'
      /\ \A i, j \in R : i # j => reports'[i].name[2] # reports'[j].name[2]
      /\ \A r \in DOMAIN view : \E i \in R : reports'[i].name[2] = r
  BY <1>1, <1>2 DEF ViewIsShared
<1> HIDE DEF R
<1>4. \A i \in R : /\ reports'[i].cycle = view
                   /\ reports'[i].name[2] \in DOMAIN view
                   /\ view[reports'[i].name[2]] = reports'[i].message
                   /\ reports'[i].combined # None <=>
                        reports'[i].name[2] = host_role(DOMAIN view)
  BY <1>1, <1>3 DEF SawTheView, host_role
<1>5. host_role(DOMAIN view) \in DOMAIN view
  <2>1. DOMAIN view \in SUBSET Roles /\ DOMAIN view # {}
    BY <1>1 DEF Views
  <2>2. QED
    BY <2>1, HostIsIn
<1>6. PICK i \in R : reports'[i].name[2] = host_role(DOMAIN view)
  BY <1>3, <1>5
<1>7. \A j \in R : reports'[j].combined # None <=> i = j
  BY <1>3, <1>4, <1>6
<1>8. DOMAIN view = {reports'[j].name[2] : j \in R}
  BY <1>3, <1>4
<1>9. QED
  BY <1>4, <1>7, <1>8 DEF Reported, R

LEMMA CycleNext ==
  ASSUME TypeInv, TypeInv', QueueInv, CycleInv, [Next]_vars
  PROVE  CycleInv'
<1> USE DEF loopVars, walkVars, basisVars, tallyVars, histVars
<1>1. cycle \in Nat
  BY RunAssumption DEF TypeInv, TypeOK
<1>2. CASE BeginCycle
  <2>1. /\ pc = "cycle" /\ cycle' = cycle + 1 /\ pc' = "acquire" /\ reports' = reports
    BY <1>2 DEF BeginCycle
  <2>2. \A i \in DOMAIN reports : reports[i].name[1] \in Nat /\ reports[i].name[1] <= cycle
    <3>1. \A i \in DOMAIN reports : reports[i] \in Report
      <4> HIDE DEF Report
      <4>1. QED
        BY ElementOfSeq, LenProperties DEF TypeInv, TypeOK
    <3>2. \A i \in DOMAIN reports : reports[i].name[1] \in 1..MaxCycles
      BY <3>1 DEF Report, Names
    <3>3. QED
      BY <3>2, RunAssumption DEF CycleInv
  <2>3. \A i \in DOMAIN reports : reports[i].name[1] <= cycle'
    BY <1>1, <2>1, <2>2
  <2>4. ReportsOf(cycle)' = {}
    <3>1. \A i \in DOMAIN reports : reports[i].name[1] # cycle'
      BY <1>1, <2>1, <2>2
    <3>2. QED
      BY <2>1, <3>1 DEF ReportsOf
  <2>5. ASSUME NEW c \in 1..cycle', c < cycle' PROVE Reported(c)'
    <3>1. c \in 1..cycle
      BY <1>1, <2>1, <2>5
    <3>2. Reported(c)
      BY <2>1, <3>1 DEF CycleInv
    <3>3. QED
      BY <2>1, <3>2 DEF Reported, ReportsOf
  <2>6. QED
    BY <2>1, <2>3, <2>4, <2>5 DEF CycleInv
<1>3. CASE Record
  <2>1. /\ cycle' = cycle /\ pc' = IF decoded' = <<>> THEN "cycle" ELSE "validate"
    BY <1>3 DEF Record
  <2>2. \A i \in DOMAIN reports' : reports'[i].name[1] <= cycle'
    <3> DEFINE n == Len(reports) + 1
    <3>1. /\ DOMAIN reports' = DOMAIN reports \cup {n}
          /\ \A i \in DOMAIN reports : reports'[i] = reports[i]
          /\ reports'[n].name[1] = cycle
      BY <1>3, RecordReports
    <3> HIDE DEF n
    <3>2. QED
      BY <1>1, <2>1, <3>1 DEF CycleInv
  <2>3. ViewIsShared'
    BY <1>3, RecordShares
  <2>4. ASSUME NEW c \in 1..cycle, c # cycle PROVE Reported(c)'
    <3>1. Reported(c)
      BY <1>1, <2>4 DEF CycleInv
    <3>2. ReportsOf(c)' = ReportsOf(c) /\ \A i \in ReportsOf(c) : reports'[i] = reports[i]
      BY <1>3, <2>4, RecordReportsOf
    <3> DEFINE R == ReportsOf(c)
               names(rs) == {rs[j].name[2] : j \in R}
    <3>3. ReportsOf(c)' = R /\ (\A i \in R : reports'[i] = reports[i])
      BY <3>2
    <3>4. names(reports') = names(reports)
      BY <3>3
    <3>5. R # {} =>
            /\ \E i \in R : \A j \in R : reports[j].combined # None <=> i = j
            /\ \A i \in R : /\ DOMAIN reports[i].cycle = names(reports)
                            /\ \A j \in R : reports[i].cycle[reports[j].name[2]] = reports[j].message
      BY <3>1 DEF Reported
    <3> HIDE DEF R, names
    <3>6. R # {} =>
            /\ \E i \in R : \A j \in R : reports'[j].combined # None <=> i = j
            /\ \A i \in R : /\ DOMAIN reports'[i].cycle = names(reports')
                            /\ \A j \in R :
                                 reports'[i].cycle[reports'[j].name[2]] = reports'[j].message
      BY <3>3, <3>4, <3>5
    <3>7. QED
      BY <3>3, <3>6 DEF Reported, names
  <2>5. decoded' = <<>> => Reported(cycle)'
    BY <1>3, RecordFinishes
  <2>6. QED
    BY <1>1, <2>1, <2>2, <2>3, <2>4, <2>5 DEF CycleInv
<1>4. CASE Combine
  <2>1. /\ pc = "acquire" /\ pc' = "validate" /\ view' = view_of(decoded) /\ decoded # <<>>
        /\ UNCHANGED <<cycle, decoded, reports>>
    BY <1>4 DEF Combine
  <2>2. ReportsOf(cycle)' = {} /\ ReportsOf(cycle) = {}
    BY <2>1 DEF CycleInv, ReportsOf
  <2>3. DOMAIN view' = RolesOf(decoded)
    BY <2>1 DEF view_of
  <2>4. ASSUME NEW j \in DOMAIN decoded
        PROVE  decoded[j].role \in DOMAIN view' /\ view'[decoded[j].role] = decoded[j].message
    <3> DEFINE role == decoded[j].role
               at == CHOOSE i \in DOMAIN decoded : decoded[i].role = role
    <3>1. role \in RolesOf(decoded)
      BY DEF RolesOf
    <3>2. at \in DOMAIN decoded /\ decoded[at].role = role
      OBVIOUS
    <3>3. at = j
      BY <3>2 DEF QueueInv
    <3>4. view'[role] = decoded[at].message
      BY <2>1, <3>1 DEF view_of
    <3>5. QED
      BY <2>3, <3>1, <3>3, <3>4
  <2>5. \A r \in DOMAIN view' : \E j \in DOMAIN decoded : decoded[j].role = r
    BY <2>3 DEF RolesOf
  <2>6. ViewIsShared'
    BY <2>1, <2>2, <2>4, <2>5 DEF ViewIsShared
  <2>7. \A c \in 1..cycle : c < cycle => Reported(c)'
    BY <2>1 DEF CycleInv, Reported, ReportsOf
  <2>8. QED
    BY <2>1, <2>6, <2>7 DEF CycleInv
<1>5. ASSUME UNCHANGED <<cycle, reports>>,
             pc' \in {"acquire", "clock", "decode"} => pc \in {"acquire", "clock", "decode"},
             pc' \in {"validate", "walk", "record"} =>
               pc \in {"validate", "walk", "record"} /\ UNCHANGED <<decoded, view>>,
             pc' \in {"cycle", "done"} =>
               pc \in {"cycle", "done"} \/ pc \in {"acquire"}
      PROVE  CycleInv'
  <2>1. \A c : ReportsOf(c)' = ReportsOf(c)
    BY <1>5 DEF ReportsOf
  <2>2. \A c : Reported(c) => Reported(c)'
    BY <1>5, <2>1 DEF Reported
  <2>3. pc = "acquire" => Reported(cycle)
    BY DEF CycleInv, Reported
  <2>4. ASSUME NEW c \in 1..cycle, c < cycle \/ pc' \in {"cycle", "done"} PROVE Reported(c)
    <3>1. c < cycle \/ c = cycle
      BY <1>1
    <3>2. QED
      BY <1>5, <2>3, <2>4, <3>1 DEF CycleInv
  <2>5. ViewIsShared /\ UNCHANGED <<decoded, view>> => ViewIsShared'
    BY <1>5, <2>1 DEF ViewIsShared, SawTheView, host_role
  <2>6. QED
    BY <1>5, <2>1, <2>2, <2>4, <2>5 DEF CycleInv
<1>6. QED
  <2>1. CASE \E role \in Roles : Unreadable(role) \/ FetchRaises(role)
    BY <2>1, <1>5 DEF Unreadable, FetchRaises, Announce
  <2>2. CASE \E role \in Roles, payload \in Payloads : Suppress(role, payload)
    BY <2>2, <1>5 DEF Suppress, Announce
  <2>3. CASE \E role \in Roles, payload \in Payloads : Read(role, payload)
    BY <2>3, <1>5 DEF Read, Announce
  <2>4. QED
    BY <2>1, <2>2, <2>3, <1>2, <1>3, <1>4, <1>5, ActionDisjuncts
    DEF vars, EndOfInputs, TakeClock, FallBackToModificationTime, StatFails, DecodeFails,
        Decode, AbandonCycle, AbortOnEqualMessage, Validate, Collect, Deliver, SinkFails

LEMMA CycleInit == Init => CycleInv
<1> SUFFICES ASSUME Init PROVE CycleInv
  OBVIOUS
<1>1. pc = "cycle" /\ cycle = 0 /\ DOMAIN reports = {}
  BY EmptySeq DEF Init
<1>2. QED
  BY <1>1 DEF CycleInv

\* What a run reports is what its rules saw, for any roles, messages, rules and caps:
\* each cycle's cross-feed findings once, over exactly the messages validated, and
\* totals that count every finding of every recorded message.
THEOREM ReportsAreTrue == Spec => []ReportsHold
<1>1. TypeInv /\ TotalInv /\ CycleInv => ReportsHold
  <2>1. CycleInv => CrossFeedOncePerCycle
    BY DEF CycleInv, Reported, CrossFeedOncePerCycle
  <2>2. QED
    BY <2>1 DEF TotalInv, ReportsHold
<1>2. LoopInv => TypeInv /\ QueueInv
  BY DEF LoopInv
<1>3. Spec => []TotalInv
  <2>1. LoopInv /\ LoopInv' /\ TotalInv /\ [Next]_vars => TotalInv'
    BY TotalNext DEF LoopInv
  <2>2. QED
    BY <2>1, LoopInvariant, TotalInit, PTL DEF Spec
<1>4. Spec => []CycleInv
  <2>1. LoopInv /\ LoopInv' /\ CycleInv /\ [Next]_vars => CycleInv'
    BY CycleNext DEF LoopInv
  <2>2. QED
    BY <2>1, LoopInvariant, CycleInit, PTL DEF Spec
<1>5. QED
  BY <1>1, <1>2, <1>3, <1>4, LoopInvariant, PTL

=============================================================================
