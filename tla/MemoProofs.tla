----------------------------- MODULE MemoProofs -----------------------------
(***************************************************************************)
(* Why an id can be part of a memo key: for any number of objects,         *)
(* addresses, builds and messages.                                         *)
(*                                                                         *)
(* Two live objects are never at one address, and an entry keeps its       *)
(* object live.  So the address in a key, asked again, is the address of   *)
(* the same object, and the guard on the build settles the rest.           *)
(***************************************************************************)
EXTENDS Memo, SequenceTheorems, TLAPS

-----------------------------------------------------------------------------
\* The key of a frame among these objects.
KeyIn(objs, f) ==
  [name  |-> Name[f.build],
   scope |-> f.scope,
   id    |-> IF f.build \in Walks THEN None ELSE objs[f.object].at]

TypeInv ==
  /\ objects \in Seq([at : Addresses, text : Texts])
  /\ held \subseteq Allocated /\ message \in held
  /\ building \in Seq(Frame)
  /\ ran \in Seq(Frame)

\* An address tells live objects apart.
LiveInv == \A o, p \in live : objects[o].at = objects[p].at => o = p

\* Every entry is of this context, under its build's name and, unless a walk
\* of the message left it, its object's address.
EntryInv ==
  \A k \in DOMAIN memo :
    /\ memo[k].build \in Builds /\ memo[k].object \in Allocated
    /\ memo[k].value = <<memo[k].build, memo[k].object, context>>
    /\ IF memo[k].build \in Walks
       THEN memo[k].object = message
       ELSE k.id = objects[memo[k].object].at

\* A build under way has no entry yet, and nothing it calls calls back.
StackInv ==
  /\ Len(building) <= 2
  /\ Len(building) = 2 => building[1].build \in Calls[building[2].build]
  /\ \A i \in DOMAIN building :
       /\ building[i].build \in Walks => building[i].object = message
       /\ KeyIn(objects, building[i]) \notin DOMAIN memo

\* What ran to its end left an entry.
RanInv ==
  \A i \in DOMAIN ran : KeyIn(objects, ran[i]) \in DOMAIN memo

MemoInv ==
  TypeInv /\ LiveInv /\ EntryInv /\ StackInv /\ RanInv /\ BuiltOnce /\ AnswersTheQuestion

-----------------------------------------------------------------------------
LEMMA MemoInit == Init => MemoInv
<1> SUFFICES ASSUME Init PROVE MemoInv
  OBVIOUS
<1>1. PICK at \in Addresses, t \in Texts : objects = <<[at |-> at, text |-> t]>>
  BY DEF Init
<1>2. TypeInv
  BY <1>1 DEF Init, TypeInv, Allocated
<1>3. DOMAIN memo = {} /\ DOMAIN building = {} /\ DOMAIN ran = {}
  BY DEF Init
<1>4. live = {1}
  BY <1>3 DEF Init, live
<1>5. LiveInv
  BY <1>4 DEF LiveInv
<1>6. EntryInv /\ StackInv /\ RanInv /\ BuiltOnce /\ AnswersTheQuestion
  BY <1>3 DEF Init, EntryInv, StackInv, RanInv, BuiltOnce, AnswersTheQuestion
<1>7. QED
  BY <1>2, <1>5, <1>6 DEF MemoInv

\* A new object goes where no live object is, and moves none.
LEMMA AllocateStep ==
  ASSUME MemoInv, NEW at \in Addresses, NEW t \in Texts, Allocate(at, t)
  PROVE  MemoInv'
<1> DEFINE n == Len(objects) + 1
<1>1. /\ objects \in Seq([at : Addresses, text : Texts])
      /\ objects' = Append(objects, [at |-> at, text |-> t])
      /\ held' = held \cup {n}
      /\ UNCHANGED <<pc, context, message, memo, building, answer, ran>>
  BY DEF MemoInv, TypeInv, Allocate
<1>2. /\ Len(objects) \in Nat /\ Len(objects') = n /\ objects'[n].at = at
      /\ \A o \in Allocated : objects'[o] = objects[o]
      /\ objects' \in Seq([at : Addresses, text : Texts])
  BY <1>1 DEF Allocated
<1>3. Allocated' = Allocated \cup {n} /\ n \notin Allocated
  BY <1>2 DEF Allocated
<1>4. TypeInv'
  <2>1. Frame \subseteq Frame'
    BY <1>3 DEF Frame
  <2>2. building' \in Seq(Frame') /\ ran' \in Seq(Frame')
    BY <1>1, <2>1 DEF MemoInv, TypeInv
  <2>3. QED
    BY <1>1, <1>2, <1>3, <2>2 DEF MemoInv, TypeInv
<1>5. live \subseteq Allocated
  <2>1. \A i \in DOMAIN building : building[i] \in Frame
    BY DEF MemoInv, TypeInv
  <2>2. \A i \in DOMAIN building : building[i].object \in Allocated
    BY <2>1 DEF Frame
  <2>3. QED
    BY <2>2 DEF MemoInv, TypeInv, EntryInv, live
<1>6. LiveInv'
  <2>1. live' = live \cup {n}
    BY <1>1 DEF live
  <2>2. at \notin {objects[o].at : o \in live}
    BY DEF Allocate
  <2>3. QED
    BY <1>2, <1>5, <2>1, <2>2 DEF MemoInv, LiveInv
<1>7. EntryInv'
  BY <1>1, <1>2, <1>3 DEF MemoInv, EntryInv
<1>8. \A f \in Frame : KeyIn(objects', f) = KeyIn(objects, f)
  BY <1>2 DEF Frame, KeyIn
<1>9. StackInv'
  <2>1. \A i \in DOMAIN building : building[i] \in Frame
    BY DEF MemoInv, TypeInv
  <2>2. QED
    BY <1>1, <1>8, <2>1 DEF MemoInv, StackInv
<1>10. RanInv'
  <2>1. \A i \in DOMAIN ran : ran[i] \in Frame
    BY DEF MemoInv, TypeInv
  <2>2. QED
    BY <1>1, <1>8, <2>1 DEF MemoInv, RanInv
<1>11. BuiltOnce' /\ AnswersTheQuestion'
  BY <1>1 DEF MemoInv, BuiltOnce, AnswersTheQuestion
<1>12. QED
  BY <1>4, <1>6, <1>7, <1>9, <1>10, <1>11 DEF MemoInv

\* Letting go frees an address only when no entry holds the object.
LEMMA ReleaseStep ==
  ASSUME MemoInv, NEW o \in held, Release(o)
  PROVE  MemoInv'
<1>1. live' \subseteq live
  BY DEF Release, live
<1>2. TypeInv' /\ LiveInv'
  BY <1>1 DEF MemoInv, TypeInv, LiveInv, Release, Allocated, Frame
<1>3. EntryInv' /\ StackInv' /\ RanInv' /\ BuiltOnce' /\ AnswersTheQuestion'
  BY DEF MemoInv, Release, EntryInv, StackInv, RanInv, BuiltOnce, AnswersTheQuestion,
         Allocated
<1>4. QED
  BY <1>2, <1>3 DEF MemoInv

\* The next message starts with nothing memoised.
LEMMA NextMessageStep ==
  ASSUME MemoInv, NEW o \in held, NextMessage(o)
  PROVE  MemoInv'
<1>1. /\ building' = <<>> /\ memo' = <<>> /\ ran' = <<>> /\ answer' = None
      /\ message' \in held /\ UNCHANGED <<objects, held>> /\ building = <<>>
  BY DEF NextMessage, fresh_memo
<1>2. DOMAIN memo' = {} /\ DOMAIN building' = {} /\ DOMAIN ran' = {} /\ Len(building') = 0
  BY <1>1
<1>3. live' \subseteq live
  BY <1>1, <1>2 DEF live
<1>4. TypeInv' /\ LiveInv'
  BY <1>1, <1>3 DEF MemoInv, TypeInv, LiveInv, Allocated, Frame
<1>5. EntryInv' /\ StackInv' /\ RanInv' /\ BuiltOnce' /\ AnswersTheQuestion'
  BY <1>1, <1>2 DEF EntryInv, StackInv, RanInv, BuiltOnce, AnswersTheQuestion
<1>6. QED
  BY <1>4, <1>5 DEF MemoInv

\* An entry under the key and of the build asked for is of the object asked
\* for: there is one live object at an address, and a walk has one message.
LEMMA HitStep ==
  ASSUME MemoInv, NEW b \in Builds, NEW s, NEW o \in held, Hit(b, s, o)
  PROVE  MemoInv'
<1> DEFINE k == key(b, s, o)
           e == memo[k]
<1>1. /\ k \in DOMAIN memo /\ e.build = b
      /\ answer' = [build |-> b, object |-> o, value |-> e.value]
      /\ UNCHANGED <<pc, context, message, objects, held, memo, building, ran>>
  BY DEF Hit
<1>2. b \in Walks => o = message
  BY DEF Hit, Asks
<1>3. e.object = o
  <2>1. CASE b \in Walks
    BY <1>1, <1>2, <2>1 DEF MemoInv, EntryInv
  <2>2. CASE b \notin Walks
    <3>1. k.id = objects[o].at
      BY <2>2 DEF key
    <3>2. k.id = objects[e.object].at
      BY <1>1, <2>2 DEF MemoInv, EntryInv
    <3>3. o \in live /\ e.object \in live
      BY <1>1 DEF live
    <3>4. QED
      BY <3>1, <3>2, <3>3 DEF MemoInv, LiveInv
  <2>3. QED
    BY <2>1, <2>2
<1>4. AnswersTheQuestion'
  <2>1. e.value = <<b, o, context>>
    BY <1>1, <1>3 DEF MemoInv, EntryInv
  <2>2. QED
    BY <1>1, <2>1 DEF AnswersTheQuestion
<1>5. Allocated' = Allocated /\ Frame' = Frame /\ live' = live
  BY <1>1 DEF Allocated, Frame, live
<1>6. TypeInv' /\ LiveInv' /\ EntryInv'
  BY <1>1, <1>5 DEF MemoInv, TypeInv, LiveInv, EntryInv
<1>7. StackInv' /\ RanInv' /\ BuiltOnce'
  BY <1>1 DEF MemoInv, StackInv, RanInv, BuiltOnce
<1>8. QED
  BY <1>4, <1>6, <1>7 DEF MemoInv

LEMMA RefuseStep ==
  ASSUME MemoInv, NEW b \in Builds, NEW s, NEW o \in held, Refuse(b, s, o)
  PROVE  MemoInv'
<1>1. UNCHANGED <<context, message, objects, held, memo, building, answer, ran>>
  BY DEF Refuse
<1>2. Allocated' = Allocated /\ Frame' = Frame /\ live' = live
  BY <1>1 DEF Allocated, Frame, live
<1>3. TypeInv' /\ LiveInv' /\ EntryInv'
  BY <1>1, <1>2 DEF MemoInv, TypeInv, LiveInv, EntryInv
<1>4. StackInv' /\ RanInv' /\ BuiltOnce' /\ AnswersTheQuestion'
  BY <1>1 DEF MemoInv, StackInv, RanInv, BuiltOnce, AnswersTheQuestion
<1>5. QED
  BY <1>3, <1>4 DEF MemoInv

\* A miss puts a build on the stack, over an object the asker holds.
LEMMA BuildStep ==
  ASSUME MemoInv, NEW b \in Builds, NEW s \in Scopes \cup Texts \cup {None},
         NEW o \in held, Build(b, s, o)
  PROVE  MemoInv'
<1> DEFINE f == [build |-> b, scope |-> s, object |-> o]
<1>1. /\ building' = <<f>> \o building
      /\ UNCHANGED <<pc, context, message, objects, held, memo, answer, ran>>
      /\ KeyIn(objects, f) \notin DOMAIN memo
      /\ b \in Walks => o = message
      /\ building # <<>> => b \in Calls[building[1].build]
  BY DEF Build, Asks, key, KeyIn
<1>2. f \in Frame /\ building \in Seq(Frame) /\ Len(building) \in Nat
  BY DEF MemoInv, TypeInv, Frame
<1>3. /\ building' \in Seq(Frame) /\ Len(building') = Len(building) + 1
      /\ building'[1] = f
      /\ \A i \in DOMAIN building' : i # 1 => /\ i - 1 \in DOMAIN building
                                             /\ building'[i] = building[i - 1]
  BY <1>1, <1>2
<1> DEFINE n == Len(building)
<1>a. n \in Nat /\ DOMAIN building = 1..n /\ \A i \in 1..n : building[i] \in Frame
  BY <1>2
<1>b. n = 2 => building # <<>>
  BY <1>2
<1>c. n <= 2
  BY DEF MemoInv, StackInv
<1> HIDE DEF f
<1>4. n <= 1
  <2> HIDE DEF n
  <2> SUFFICES ASSUME n = 2 PROVE FALSE
    BY <1>a, <1>c
  <2>1. building[1] \in Frame /\ building[2] \in Frame
    BY <1>a
  <2>2. building[1].build \in Calls[building[2].build] /\ building[2].build \in Builds
    BY <2>1 DEF MemoInv, StackInv, Frame, n
  <2>3. Calls[building[1].build] = {}
    BY <2>2, BuildsAssumption
  <2>4. QED
    BY <1>1, <1>b, <2>3
<1>5. StackInv'
  <2>1. Len(building') <= 2
    BY <1>2, <1>3, <1>4
  <2>2. Len(building') = 2 => building'[1].build \in Calls[building'[2].build]
    <3> SUFFICES ASSUME Len(building') = 2
                 PROVE  building'[1].build \in Calls[building'[2].build]
      OBVIOUS
    <3>1. building # <<>> /\ building'[2] = building[1]
      BY <1>2, <1>3
    <3>2. building'[1].build = b
      BY <1>3 DEF f
    <3>3. QED
      BY <1>1, <3>1, <3>2
  <2>3. ASSUME NEW i \in DOMAIN building'
        PROVE  /\ building'[i].build \in Walks => building'[i].object = message'
               /\ KeyIn(objects', building'[i]) \notin DOMAIN memo'
    <3>1. CASE i = 1
      BY <1>1, <1>3, <3>1 DEF f
    <3>2. CASE i # 1
      BY <1>1, <1>3, <3>2 DEF MemoInv, StackInv
    <3>3. QED
      BY <3>1, <3>2
  <2>4. QED
    BY <2>1, <2>2, <2>3 DEF StackInv
<1>6. LiveInv'
  <2>1. live' \subseteq live
    <3>1. \A i \in DOMAIN building' : building'[i].object \in live
      BY <1>3 DEF f, live
    <3>2. QED
      BY <1>1, <3>1 DEF live
  <2>2. QED
    BY <1>1, <2>1 DEF MemoInv, LiveInv
<1>7. TypeInv' /\ EntryInv' /\ RanInv' /\ BuiltOnce' /\ AnswersTheQuestion'
  BY <1>1, <1>3 DEF MemoInv, TypeInv, EntryInv, RanInv, BuiltOnce, AnswersTheQuestion,
                    Allocated, Frame
<1>8. QED
  BY <1>5, <1>6, <1>7 DEF MemoInv

\* The entry a finished build leaves is the first under its key.
LEMMA FinishStep ==
  ASSUME MemoInv, Finish
  PROVE  MemoInv'
<1> DEFINE f == Head(building)
           k == KeyIn(objects, f)
           v == <<f.build, f.object, context>>
           e == [build |-> f.build, object |-> f.object, value |-> v]
<1>1. /\ building # <<>> /\ building' = Tail(building)
      /\ memo' = stored(k, e)
      /\ answer' = e
      /\ ran' = Append(ran, f)
      /\ UNCHANGED <<pc, context, message, objects, held>>
  BY DEF Finish, key, KeyIn
<1>2. building \in Seq(Frame) /\ ran \in Seq(Frame) /\ Len(building) \in Nat
  BY DEF MemoInv, TypeInv
<1>3. /\ Len(building) >= 1 /\ f \in Frame /\ f = building[1] /\ 1 \in DOMAIN building
      /\ building' \in Seq(Frame) /\ Len(building') = Len(building) - 1
      /\ \A i \in DOMAIN building' : /\ i + 1 \in DOMAIN building
                                     /\ building'[i] = building[i + 1]
  BY <1>1, <1>2
<1>4. f.build \in Builds /\ f.object \in Allocated
  BY <1>3 DEF Frame
<1>5. k \notin DOMAIN memo /\ (f.build \in Walks => f.object = message)
  BY <1>3 DEF MemoInv, StackInv
<1>6. /\ DOMAIN memo' = DOMAIN memo \cup {k}
      /\ memo'[k] = e
      /\ \A x \in DOMAIN memo : memo'[x] = memo[x]
  BY <1>1, <1>5 DEF stored
<1>7. e.build = f.build /\ e.object = f.object /\ e.value = v
  OBVIOUS
<1>8. k.id = IF f.build \in Walks THEN None ELSE objects[f.object].at
  BY DEF KeyIn
<1>9. k.name = Name[f.build]
  BY DEF KeyIn
<1>11. /\ Len(ran') = Len(ran) + 1 /\ Len(ran) \in Nat /\ ran'[Len(ran) + 1] = f
       /\ \A i \in DOMAIN ran : ran'[i] = ran[i]
       /\ DOMAIN ran' = DOMAIN ran \cup {Len(ran) + 1}
       /\ ran' \in Seq(Frame)
  BY <1>1, <1>2, <1>3
<1>12. \A i \in DOMAIN ran : ran[i] \in Frame
  BY <1>2
<1> HIDE DEF f, k, v, e
<1>13. TypeInv'
  BY <1>1, <1>3, <1>11 DEF MemoInv, TypeInv, Allocated, Frame
<1>14. LiveInv'
  <2>1. \A i \in DOMAIN building' : building'[i].object \in live
    BY <1>3 DEF live
  <2>2. \A x \in DOMAIN memo' : memo'[x].object \in live
    BY <1>3, <1>6, <1>7 DEF live, f
  <2>3. live' \subseteq live
    BY <1>1, <2>1, <2>2 DEF live
  <2>4. QED
    BY <1>1, <2>3 DEF MemoInv, LiveInv
<1>15. EntryInv'
  BY <1>1, <1>4, <1>5, <1>6, <1>7, <1>8 DEF MemoInv, EntryInv, Allocated, v
<1>16. StackInv'
  <2>0. /\ Len(building) <= 2
        /\ Len(building) = 2 => building[1].build \in Calls[building[2].build]
    BY DEF MemoInv, StackInv
  <2> DEFINE n == Len(building)   m == Len(building')
  <2>a. n \in Nat /\ n >= 1 /\ m = n - 1 /\ n <= 2
    BY <1>2, <1>3, <2>0
  <2>b. DOMAIN building' = 1..m /\ DOMAIN building = 1..n
    BY <1>2, <1>3
  <2> HIDE DEF n, m
  <2>1. m <= 1 /\ m # 2
    BY <2>a
  <2>2. ASSUME NEW i \in DOMAIN building'
        PROVE  /\ building'[i].build \in Walks => building'[i].object = message'
               /\ KeyIn(objects', building'[i]) \notin DOMAIN memo'
    <3> DEFINE g == building[2]
    <3>1. i = 1 /\ n = 2 /\ 2 \in DOMAIN building
      BY <2>a, <2>b
    <3>a. building'[i] = g
      BY <1>3, <3>1
    <3>2. f.build \in Calls[g.build] /\ g \in Frame
      BY <1>2, <1>3, <2>0, <3>1 DEF n
    <3>3. Name[f.build] # Name[g.build]
      BY <3>2, BuildsAssumption DEF Frame
    <3>4. KeyIn(objects, g).name = Name[g.build]
      BY DEF KeyIn
    <3>5. /\ g.build \in Walks => g.object = message
          /\ KeyIn(objects, g) \notin DOMAIN memo
      BY <3>1 DEF MemoInv, StackInv
    <3> HIDE DEF g
    <3>6. KeyIn(objects, g) \notin DOMAIN memo'
      BY <1>6, <1>9, <3>3, <3>4, <3>5
    <3>7. QED
      BY <1>1, <3>a, <3>5, <3>6
  <2>3. QED
    BY <2>1, <2>2 DEF StackInv, m
<1>17. RanInv'
  <2> SUFFICES ASSUME NEW i \in DOMAIN ran'
               PROVE  KeyIn(objects', ran'[i]) \in DOMAIN memo'
    BY DEF RanInv
  <2>1. CASE i \in DOMAIN ran
    BY <1>1, <1>6, <1>11, <2>1 DEF MemoInv, RanInv
  <2>2. CASE i = Len(ran) + 1
    BY <1>1, <1>6, <1>11, <2>2 DEF k
  <2>3. QED
    BY <1>11, <2>1, <2>2
<1>18. BuiltOnce'
  <2>1. \A i \in DOMAIN ran : ran[i] # f
    BY <1>5 DEF MemoInv, RanInv, k
  <2>2. QED
    BY <1>11, <2>1 DEF MemoInv, BuiltOnce
<1>19. AnswersTheQuestion'
  BY <1>1, <1>7 DEF AnswersTheQuestion, v
<1>20. QED
  BY <1>13, <1>14, <1>15, <1>16, <1>17, <1>18, <1>19 DEF MemoInv

LEMMA MemoNext == MemoInv /\ [Next]_vars => MemoInv'
<1> SUFFICES ASSUME MemoInv, [Next]_vars PROVE MemoInv'
  OBVIOUS
<1>1. CASE UNCHANGED vars
  BY <1>1 DEF vars, MemoInv, TypeInv, LiveInv, EntryInv, StackInv, RanInv, BuiltOnce,
              AnswersTheQuestion, Allocated, Frame, live
<1>2. CASE \E at \in Addresses, t \in Texts : Allocate(at, t)
  BY <1>2, AllocateStep
<1>3. CASE \E o \in held : Release(o) \/ NextMessage(o)
  BY <1>3, ReleaseStep, NextMessageStep
<1>4. CASE \E b \in Builds, s \in Scopes \cup Texts \cup {None}, o \in held : Ask(b, s, o)
  BY <1>4, HitStep, RefuseStep, BuildStep DEF Ask
<1>5. CASE Finish
  BY <1>5, FinishStep
<1>6. QED
  BY <1>1, <1>2, <1>3, <1>4, <1>5 DEF Next

-----------------------------------------------------------------------------
LEMMA ContextType == TypeOK => context \in Nat /\ context >= 1
<1>1. MaxContexts \in Nat
  BY BuildsAssumption
<1>2. TypeOK => context \in 1..MaxContexts \/ context = 1
  BY DEF TypeOK
<1>3. QED
  BY <1>1, <1>2

\* What is memoised has the types it should: the keys are keys of the builds
\* there are, the entries are of objects there are and of contexts begun.
LEMMA EntryGrows ==
  ASSUME TypeOK, [Next]_vars
  PROVE  Entry \subseteq Entry'
<1>1. Allocated \subseteq Allocated'
  <2>1. CASE \E at \in Addresses, t \in Texts : Allocate(at, t)
    <3>1. PICK at \in Addresses, t \in Texts : objects' = Append(objects, [at |-> at, text |-> t])
      BY <2>1 DEF Allocate
    <3>2. objects \in Seq([at : Addresses, text : Texts])
      BY DEF TypeOK
    <3>3. Len(objects') = Len(objects) + 1 /\ Len(objects) \in Nat
      BY <3>1, <3>2
    <3>4. QED
      BY <3>3 DEF Allocated
  <2>2. CASE UNCHANGED objects
    BY <2>2 DEF Allocated
  <2>3. QED
    BY <2>1, <2>2 DEF Next, vars, Release, NextMessage, Ask, Hit, Refuse, Build, Finish
<1>2. context \in Nat /\ context' \in Nat /\ context <= context'
  <2>1. context \in Nat
    BY ContextType
  <2>2. context' = context \/ context' = context + 1
    BY DEF Next, vars, Allocate, Release, NextMessage, Ask, Hit, Refuse, Build, Finish
  <2>3. QED
    BY <2>1, <2>2
<1>3. 1..context \subseteq 1..context'
  BY <1>2
<1>4. Value \subseteq Value'
  BY <1>1, <1>3 DEF Value
<1>5. QED
  BY <1>1, <1>4 DEF Entry

LEMMA FinishTypes ==
  ASSUME MemoInv, TypeOK, Finish
  PROVE  /\ DOMAIN memo' \subseteq Key
         /\ \A k \in DOMAIN memo' : memo'[k] \in Entry
         /\ answer' \in Entry
<1> DEFINE f == Head(building)
           k == key(f.build, f.scope, f.object)
           v == <<f.build, f.object, context>>
           e == [build |-> f.build, object |-> f.object, value |-> v]
<1>1. building # <<>> /\ memo' = stored(k, e) /\ answer' = e
  BY DEF Finish
<1>2. f \in Frame
  BY <1>1 DEF MemoInv, TypeInv
<1>3. f.build \in Builds /\ f.object \in Allocated /\ f.scope \in Scopes \cup Texts \cup {None}
  BY <1>2 DEF Frame
<1>4. context \in 1..context
  BY ContextType
<1>5. e \in Entry
  BY <1>3, <1>4 DEF Entry, Value
<1>6. k \in Key
  <2>1. objects[f.object].at \in Addresses
    <3>1. objects \in Seq([at : Addresses, text : Texts])
      BY DEF TypeOK
    <3>2. \A o \in Allocated : objects[o] \in [at : Addresses, text : Texts]
      BY <3>1, ElementOfSeq DEF Allocated
    <3>3. objects[f.object] \in [at : Addresses, text : Texts]
      BY <1>3, <3>2
    <3>4. QED
      BY <3>3
  <2>2. QED
    BY <1>3, <2>1 DEF key, Key
<1> HIDE DEF k, e
<1>7. DOMAIN memo' = DOMAIN memo \cup {k}
  BY <1>1 DEF stored
<1>8. ASSUME NEW x \in DOMAIN memo' PROVE memo'[x] \in Entry
  <2>1. CASE x = k
    BY <1>1, <1>5, <1>7, <2>1 DEF stored
  <2>2. CASE x # k
    BY <1>1, <1>7, <2>2 DEF stored, TypeOK
  <2>3. QED
    BY <2>1, <2>2
<1>9. QED
  BY <1>1, <1>5, <1>6, <1>7, <1>8 DEF TypeOK

LEMMA HitTypes ==
  ASSUME MemoInv, TypeOK, NEW b \in Builds, NEW s, NEW o \in held, Hit(b, s, o)
  PROVE  answer' \in Entry
<1> DEFINE k == key(b, s, o)
<1>1. k \in DOMAIN memo /\ answer' = [build |-> b, object |-> o, value |-> memo[k].value]
  BY DEF Hit
<1>2. memo[k] \in Entry
  BY <1>1 DEF TypeOK
<1>3. memo[k].value \in Value
  BY <1>2 DEF Entry
<1>4. o \in Allocated
  BY DEF TypeOK
<1>5. QED
  BY <1>1, <1>3, <1>4 DEF Entry

LEMMA MemoTypes == MemoInv /\ TypeOK /\ [Next]_vars => TypeOK'
<1> SUFFICES ASSUME MemoInv, TypeOK, [Next]_vars PROVE TypeOK'
  OBVIOUS
<1>1. TypeInv'
  BY MemoNext DEF MemoInv
<1>2. Entry \subseteq Entry'
  BY EntryGrows
<1>3. Key' = Key
  BY DEF Key
<1>4. pc' \in {"rules", "contract error"}
  BY DEF TypeOK, Next, vars, Allocate, Release, NextMessage, Ask, Hit, Refuse, Build, Finish
<1>5. context' \in 1..MaxContexts \cup {1}
  <2>1. CASE context' = context
    BY <2>1 DEF TypeOK
  <2>2. CASE context < MaxContexts /\ context' = context + 1
    BY <2>2, ContextType, BuildsAssumption
  <2>3. QED
    BY <2>1, <2>2 DEF Next, vars, Allocate, Release, NextMessage, Ask, Hit, Refuse, Build, Finish
<1>6. /\ DOMAIN memo' \subseteq Key'
      /\ \A k \in DOMAIN memo' : memo'[k] \in Entry'
  <2>1. CASE UNCHANGED memo
    BY <1>2, <1>3, <2>1 DEF TypeOK
  <2>2. CASE memo' = <<>>
    BY <2>2
  <2>3. CASE Finish
    BY <1>2, <1>3, <2>3, FinishTypes
  <2>4. QED
    BY <2>1, <2>2, <2>3 DEF Next, vars, Allocate, Release, NextMessage, fresh_memo, Ask, Hit,
                            Refuse, Build
<1>7. answer' \in Entry' \cup {None}
  <2>1. CASE UNCHANGED answer
    BY <1>2, <2>1 DEF TypeOK
  <2>2. CASE answer' = None
    BY <2>2
  <2>3. CASE Finish
    BY <1>2, <2>3, FinishTypes
  <2>4. CASE \E b \in Builds, s \in Scopes \cup Texts \cup {None}, o \in held : Hit(b, s, o)
    BY <1>2, <2>4, HitTypes
  <2>5. QED
    BY <2>1, <2>2, <2>3, <2>4 DEF Next, vars, Allocate, Release, NextMessage, Ask, Refuse, Build
<1>8. QED
  BY <1>1, <1>4, <1>5, <1>6, <1>7 DEF TypeOK, TypeInv

LEMMA MemoTypesInit == Init => TypeOK
<1> SUFFICES ASSUME Init PROVE TypeOK
  OBVIOUS
<1>1. TypeInv
  BY MemoInit DEF MemoInv
<1>2. DOMAIN memo = {}
  BY DEF Init
<1>3. QED
  BY <1>1, <1>2 DEF Init, TypeOK, TypeInv

-----------------------------------------------------------------------------
\* The inductive invariant: addresses tell live objects apart, entries keep
\* theirs live and stand under its address.
THEOREM MemoInvariant == Spec => []MemoInv
<1>1. QED
  BY MemoInit, MemoNext, PTL DEF Spec

\* No rule is ever answered with a structure built over another object, by
\* another build, or for an earlier message (memoised, walk_events).
THEOREM AnswersAreTheAskers == Spec => []AnswersTheQuestion
<1>1. MemoInv => AnswersTheQuestion
  BY DEF MemoInv
<1>2. QED
  BY <1>1, MemoInvariant, PTL

\* However many rules ask, a body runs once (memoised, "at most once"), and what it
\* leaves is an entry of a build, of an object and of a context there are.
THEOREM BodiesRunOnce == Spec => []MemoHolds
<1>1. MemoInv /\ TypeOK => MemoHolds
  BY DEF MemoInv, MemoHolds
<1>2. Spec => []TypeOK
  BY MemoInvariant, MemoTypes, MemoTypesInit, PTL DEF Spec
<1>3. QED
  BY <1>1, <1>2, MemoInvariant, PTL

=============================================================================
