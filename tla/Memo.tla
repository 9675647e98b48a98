-------------------------------- MODULE Memo --------------------------------
(***************************************************************************)
(* The scratch space the rules of one message share: RuleContext.memo,     *)
(* read through memoised (rules/_shared/memo.py) and walk_events           *)
(* (rules/_shared/walks.py).                                               *)
(*                                                                         *)
(* A structure's key holds the ADDRESS of the object it was built over,    *)
(* and CPython gives a freed address to the next object it allocates.      *)
(* Objects are numbered here in the order they are allocated and an        *)
(* address is free as soon as nothing refers to the object at it, which is *)
(* what the reference count makes true.  What a build answers depends on   *)
(* the object and on the context, so its value is the two of them: the     *)
(* question asked, and nothing of the answer's shape.                      *)
(***************************************************************************)
EXTENDS Integers, Sequences

CONSTANTS
  Walks,        \* generators read through walk_events, whose key has no address
  Structures,   \* builds memoised over a message or a cycle
  Decoders,     \* builds memoised over a text, which repeat it as the scope
  Calls,        \* Calls[b]: the decoders b's body may read
  Name,         \* Name[b]: module and qualified name
  Scopes,       \* the scopes a structure is asked under
  Texts,        \* what objects hold; two objects may hold the same
  Addresses,    \* where objects can live
  None,         \* no answer yet, and the address of a key that has none
  MaxObjects,   \* bound: objects ever allocated
  MaxBuilds,    \* bound: bodies run in one context
  MaxContexts   \* bound: messages validated

VARIABLES
  pc,           \* "rules", or "contract error" once a clash was refused
  context,      \* messages begun
  message,      \* the message of this context
  objects,      \* every object ever allocated: its address and its text
  held,         \* the objects the runner, the cycle and the rules refer to
  memo,         \* ctx.memo
  building,     \* builds under way, innermost first
  answer,       \* the last answer, beside the question it was given to
  ran           \* history: the builds whose body ran to its end, this context

vars == <<pc, context, message, objects, held, memo, building, answer, ran>>

-----------------------------------------------------------------------------
Builds == Walks \cup Structures \cup Decoders

\* Names tell a build from the decoders it calls.  Two structures may share
\* one: that is the mistake the guard in memoised is there to refuse.
ASSUME BuildsAssumption ==
  /\ Calls \in [Builds -> SUBSET Decoders]
  /\ \A b \in Builds : \A d \in Calls[b] : Name[d] # Name[b] /\ Calls[d] = {}
  /\ Walks \cap (Structures \cup Decoders) = {}
  /\ Structures \cap Decoders = {}
  /\ {MaxObjects, MaxBuilds, MaxContexts} \subseteq Nat
  /\ None \notin Addresses

Allocated == 1..Len(objects)

\* A mistake: only the rules keep an object alive, and entries do not.
live_while_held == held \cup {building[i].object : i \in DOMAIN building}

\* An entry holds its object, and so does the build it was passed to.
live ==
  held \cup {building[i].object : i \in DOMAIN building}
       \cup {memo[k].object : k \in DOMAIN memo}

\* memo_key and the id appended to it, or walk_key, which appends none.
key(build, scope, object) ==
  [name  |-> Name[build],
   scope |-> scope,
   id    |-> IF build \in Walks THEN None ELSE objects[object].at]

Init ==
  /\ pc = "rules"
  /\ context = 1
  /\ message = 1
  /\ \E at \in Addresses, t \in Texts : objects = <<[at |-> at, text |-> t]>>
  /\ held = {1}
  /\ memo = <<>>
  /\ building = <<>>
  /\ answer = None
  /\ ran = <<>>

\* A decoded message, a cycle, a string: any new object at any free address.
Allocate(at, t) ==
  /\ pc = "rules"
  /\ Len(objects) < MaxObjects
  /\ at \notin {objects[o].at : o \in live}
  /\ objects' = Append(objects, [at |-> at, text |-> t])
  /\ held' = held \cup {Len(objects) + 1}
  /\ UNCHANGED <<pc, context, message, memo, building, answer, ran>>

\* The last reference outside the memo goes.  The runner holds a context's
\* own message until the context is done with.
Release(o) ==
  /\ pc = "rules"
  /\ o \in held \ {message}
  /\ held' = held \ {o}
  /\ UNCHANGED <<pc, context, message, objects, memo, building, answer, ran>>

fresh_memo == <<>>

\* _validate builds the next context: another message, an empty memo.
NextMessage(o) ==
  /\ pc = "rules"
  /\ building = <<>>
  /\ context < MaxContexts
  /\ o \in held \ {message}
  /\ context' = context + 1
  /\ message' = o
  /\ memo' = fresh_memo
  /\ answer' = None
  /\ ran' = <<>>
  /\ UNCHANGED <<pc, objects, held, building>>

\* What a rule, or the body of a build, may ask: a walk only of its own
\* message, a decoder under its text, a structure of any object it has.
Asks(build, scope, o) ==
  /\ pc = "rules"
  /\ o \in held
  /\ building # <<>> => build \in Calls[Head(building).build]
  /\ build \in Walks => o = message /\ scope = None
  /\ build \in Structures => scope \in Scopes
  /\ build \in Decoders => scope = objects[o].text

Hit(build, scope, o) ==
  LET k == key(build, scope, o)
  IN  /\ Asks(build, scope, o)
      /\ k \in DOMAIN memo
      /\ memo[k].build = build
      /\ answer' = [build |-> build, object |-> o, value |-> memo[k].value]
      /\ UNCHANGED <<pc, context, message, objects, held, memo, building, ran>>

\* Two builds answer to one key: RuleContractError, which nothing catches.
Refuse(build, scope, o) ==
  LET k == key(build, scope, o)
  IN  /\ Asks(build, scope, o)
      /\ k \in DOMAIN memo
      /\ memo[k].build # build
      /\ pc' = "contract error"
      /\ UNCHANGED <<context, message, objects, held, memo, building, answer, ran>>

\* A miss: the body runs, and may ask for other structures on the way.
Build(build, scope, o) ==
  /\ Asks(build, scope, o)
  /\ key(build, scope, o) \notin DOMAIN memo
  /\ Len(ran) + Len(building) < MaxBuilds
  /\ building' = <<[build |-> build, scope |-> scope, object |-> o]>> \o building
  /\ UNCHANGED <<pc, context, message, objects, held, memo, answer, ran>>

\* A mistake: room for the last structure only.
stored_alone(k, entry) == [x \in {k} |-> entry]

stored(k, entry) ==
  [x \in DOMAIN memo \cup {k} |-> IF x = k THEN entry ELSE memo[x]]

Finish ==
  LET f     == Head(building)
      value == <<f.build, f.object, context>>
  IN  /\ pc = "rules"
      /\ building # <<>>
      /\ memo' = stored(key(f.build, f.scope, f.object),
                        [build |-> f.build, object |-> f.object, value |-> value])
      /\ answer' = [build |-> f.build, object |-> f.object, value |-> value]
      /\ ran' = Append(ran, f)
      /\ building' = Tail(building)
      /\ UNCHANGED <<pc, context, message, objects, held>>

Ask(build, scope, o) ==
  Hit(build, scope, o) \/ Refuse(build, scope, o) \/ Build(build, scope, o)

Next ==
  \/ \E at \in Addresses, t \in Texts : Allocate(at, t)
  \/ \E o \in held : Release(o) \/ NextMessage(o)
  \/ \E build \in Builds, scope \in Scopes \cup Texts \cup {None}, o \in held :
       Ask(build, scope, o)
  \/ Finish

Spec == Init /\ [][Next]_vars

-----------------------------------------------------------------------------
Key == [name : {Name[b] : b \in Builds}, scope : Scopes \cup Texts \cup {None},
        id : Addresses \cup {None}]

Frame == [build : Builds, scope : Scopes \cup Texts \cup {None}, object : Allocated]

Value == Builds \X Allocated \X (1..context)

Entry == [build : Builds, object : Allocated, value : Value]

\* Every variable holds what the code could hold there.
TypeOK ==
  /\ pc \in {"rules", "contract error"}
  /\ context \in 1..MaxContexts \cup {1}
  /\ objects \in Seq([at : Addresses, text : Texts])
  /\ held \subseteq Allocated
  /\ message \in held
  /\ DOMAIN memo \subseteq Key
  /\ \A k \in DOMAIN memo : memo[k] \in Entry
  /\ building \in Seq(Frame)
  /\ answer \in Entry \cup {None}
  /\ ran \in Seq(Frame)

\* Whoever asks is answered by the build it named, run over the very object it
\* passed, in this message's context: no reused address, no other message, no
\* namesake and no earlier context ever answers in its place (memo.py, "The
\* message is part of the cache key").
AnswersTheQuestion ==
  answer # None => answer.value = <<answer.build, answer.object, context>>

\* However many rules read a structure, its body runs at most once in a context
\* for one object and scope (memoised and walk_events, "at most once").
BuiltOnce ==
  \A i, j \in DOMAIN ran : ran[i] = ran[j] => i = j

\* What is memoised is well formed and was built once (memoised, walk_events).
MemoHolds == TypeOK /\ BuiltOnce

=============================================================================
