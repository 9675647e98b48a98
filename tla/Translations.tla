---------------------------- MODULE Translations ----------------------------
(***************************************************************************)
(* The walk that finds every translated string and every translated image  *)
(* of a message from the schema (rules/_shared/walk_translations.py), and  *)
(* the rules S031 to S036 on what it finds.                                *)
(*                                                                         *)
(* The closure over the schema and the descent into the message are both   *)
(* taken step by step.  A message is its type, its members where it is a   *)
(* translated one, and the messages in its fields that were written, in    *)
(* the order of its descriptor.                                            *)
(***************************************************************************)
EXTENDS Naturals, Sequences, FiniteSets

CONSTANTS
  Worlds,             \* a schema and a message that may be met together
  Translated,         \* the two types: "TranslatedString" and "TranslatedImage"
  Depth               \* how many messages deep a message is

VARIABLES
  schema,             \* per message type the types of its message fields
  message, wanted,
  pc, holders,
  rest,               \* the types this pass over the schema has still to look at
  growing,            \* whether this pass added any
  stack,              \* what is left to visit: places and messages
  sites               \* the sites found

vars == <<schema, message, wanted, pc, holders, rest, growing, stack, sites>>

-----------------------------------------------------------------------------
(* A message, and the messages in it.                                      *)

\* A mistake: the index of a repeated field is left out of the place.
fields_only(item) == [k \in DOMAIN item[2].present |-> <<Append(item[1], 1), item[2].present[k]>>]

Children(item) ==
  [k \in DOMAIN item[2].present |-> <<Append(item[1], k), item[2].present[k]>>]

\* What a message holds, at any depth, and itself: the places, each with what
\* was written there.
Tree(item) ==
  LET level[n \in 0..Depth] == IF n = 0 THEN {item}
                               ELSE UNION {{Children(i)[k] : k \in DOMAIN i[2].present} : i \in level[n - 1]}
  IN  UNION {level[n] : n \in 0..Depth}

\* What the program hands this part: the instances assume it.  A schema declares
\* the types its fields have, a message holds what its type declares, and a
\* translated value holds members only.  Nothing is asked of a type the schema
\* does not declare, nor of the message the walk starts from.
LegalInputs ==
  /\ Depth \in Nat /\ Translated = {"TranslatedString", "TranslatedImage"}
  /\ \A w \in Worlds :
       /\ DOMAIN w.schema # {} /\ \A t \in DOMAIN w.schema : IsFiniteSet(w.schema[t])
       /\ \A t \in DOMAIN w.schema : w.schema[t] \subseteq DOMAIN w.schema \cup Translated
       /\ \A i \in Tree(<<<<>>, w.message>>) :
            LET held == {i[2].present[k] : k \in DOMAIN i[2].present}
            IN  /\ i[2].present \in Seq(held)
                /\ i[2].members \in Seq({i[2].members[k] : k \in DOMAIN i[2].members})
                /\ Len(i[1]) = Depth \/ i[2].type \in Translated => held = {}
                /\ i[1] # <<>> /\ i[2].type \in DOMAIN w.schema => \A m \in held : m.type \in w.schema[i[2].type]

-----------------------------------------------------------------------------
(* Which types can reach the wanted one.                                   *)

Init ==
  /\ \E w \in Worlds : schema = w.schema /\ message = w.message
  /\ wanted \in Translated
  /\ pc = "closing"
  /\ holders = {t \in DOMAIN schema : wanted \in schema[t]}
  /\ rest = DOMAIN schema
  /\ growing = FALSE
  /\ stack = <<>>
  /\ sites = <<>>

\* One type of a pass, in an order that does not matter.
Look(t) ==
  /\ pc = "closing" /\ t \in rest
  /\ rest' = rest \ {t}
  /\ IF t \notin holders /\ schema[t] \cap holders # {}
     THEN holders' = holders \cup {t} /\ growing' = TRUE
     ELSE UNCHANGED <<holders, growing>>
  /\ UNCHANGED <<schema, message, wanted, pc, stack, sites>>

\* Another pass while one adds a type.
Pass ==
  /\ pc = "closing" /\ rest = {}
  /\ IF growing
     THEN rest' = DOMAIN schema /\ growing' = FALSE /\ UNCHANGED <<pc, stack>>
     ELSE pc' = "walking" /\ stack' = <<<<<<>>, message>>>> /\ UNCHANGED <<rest, growing>>
  /\ UNCHANGED <<schema, message, wanted, holders, sites>>

-----------------------------------------------------------------------------
(* The walk.                                                               *)

\* A type the schema does not declare may hold anything.
descends(type) == type \in holders \/ type \notin DOMAIN schema

\* A mistake: what a message holds is left for later.
VisitLater ==
  /\ pc = "walking" /\ stack # <<>>
  /\ LET item == Head(stack)
     IN  IF item[2].type = wanted /\ item[1] # <<>>
         THEN sites' = Append(sites, item) /\ stack' = Tail(stack)
         ELSE /\ stack' = Tail(stack) \o (IF item[1] = <<>> \/ descends(item[2].type) THEN Children(item) ELSE <<>>)
              /\ UNCHANGED sites
  /\ UNCHANGED <<schema, message, wanted, pc, holders, rest, growing>>

\* The message the walk starts from is entered whatever its type.
Visit ==
  /\ pc = "walking" /\ stack # <<>>
  /\ LET item == Head(stack)
     IN  IF item[2].type = wanted /\ item[1] # <<>>
         THEN sites' = Append(sites, item) /\ stack' = Tail(stack)
         ELSE /\ stack' = (IF item[1] = <<>> \/ descends(item[2].type) THEN Children(item) ELSE <<>>) \o Tail(stack)
              /\ UNCHANGED sites
  /\ UNCHANGED <<schema, message, wanted, pc, holders, rest, growing>>

Finish ==
  /\ pc = "walking" /\ stack = <<>>
  /\ pc' = "done"
  /\ UNCHANGED <<schema, message, wanted, holders, rest, growing, stack, sites>>

Next == (\E t \in rest : Look(t)) \/ Pass \/ Visit \/ Finish

Spec == Init /\ [][Next]_vars /\ WF_vars(Next)

-----------------------------------------------------------------------------
(* The rules.  A member is whether it names a language, and for an image   *)
(* its media type and its URL.                                             *)

untagged(members) == {k \in DOMAIN members : ~members[k].language}

\* S031 of a string, S033 of an image.
without_any(item) == item[2].members = <<>>

\* S032 of a string, S034 of an image.
two_last_resorts(item) == Cardinality(untagged(item[2].members)) > 1

S031 == IF wanted = "TranslatedString" THEN {item[1] : item \in {s \in {sites[k] : k \in DOMAIN sites} : without_any(s)}} ELSE {}
S032 == IF wanted = "TranslatedString" THEN {item[1] : item \in {s \in {sites[k] : k \in DOMAIN sites} : two_last_resorts(s)}} ELSE {}
S033 == IF wanted = "TranslatedImage" THEN {item[1] : item \in {s \in {sites[k] : k \in DOMAIN sites} : without_any(s)}} ELSE {}
S034 == IF wanted = "TranslatedImage" THEN {item[1] : item \in {s \in {sites[k] : k \in DOMAIN sites} : two_last_resorts(s)}} ELSE {}

localized_images ==
  UNION {{<<sites[k][1], n, sites[k][2].members[n]>> : n \in DOMAIN sites[k][2].members} :
           k \in {j \in DOMAIN sites : wanted = "TranslatedImage"}}

S035 == {<<i[1], i[2]>> : i \in {j \in localized_images : ~j[3].image_type}}

\* An escape is a percent sign and two hexadecimal digits.
escaped(url, k) == url[k] = "%" => k + 2 <= Len(url) /\ {url[k + 1], url[k + 2]} \subseteq {"hex"}

unescaped(url) == \E k \in DOMAIN url : url[k] = "other" \/ ~escaped(url, k)

S036 == {<<i[1], i[2]>> : i \in {j \in localized_images : ~j[3].scheme \/ unescaped(j[3].url)}}

-----------------------------------------------------------------------------
\* The walk keeps to the schema: what is held is declared, what is found is of
\* the type that was asked for, each place once.
TypeOK ==
  /\ holders \subseteq DOMAIN schema /\ rest \subseteq DOMAIN schema
  /\ pc \in {"closing", "walking", "done"} /\ growing \in BOOLEAN
  /\ \A k \in DOMAIN sites : sites[k][2].type = wanted
  /\ \A j, k \in DOMAIN sites : sites[j][1] = sites[k][1] => j = k

\* Every translated value a producer wrote is a site, wherever the schema puts
\* the type, through types nobody here has seen and through a type that holds
\* itself, and nothing else is: pruning by the closure over the schema loses
\* none (containers and _sites).
EverySiteIsFound ==
  pc = "done" =>
    {sites[k] : k \in DOMAIN sites}
      = {i \in Tree(<<<<>>, message>>) : i[2].type = wanted /\ i[1] # <<>>}

\* Sites come in document order: the rules' occurrences read top to bottom.
SitesAreInOrder ==
  \A j, k \in DOMAIN sites :
    j < k => \E n \in 1..Len(sites[j][1]) :
               /\ n <= Len(sites[k][1]) /\ sites[j][1][n] < sites[k][1][n]
               /\ \A l \in 1..(n - 1) : sites[j][1][l] = sites[k][1][l]

\* The words made of characters that may stand and of whole escapes, to a length.
Uris(n) ==
  LET words[k \in 0..n] ==
        IF k = 0 THEN {<<>>}
        ELSE words[k - 1] \cup {Append(w, c) : w \in words[k - 1], c \in {"hex", "literal"}}
             \cup {w \o <<"%", "hex", "hex">> : w \in words[k - 1]}
  IN  words[n]

Readable == Uris(4)

\* Nothing is said of an image exactly when its type is an image's, its URL has a
\* scheme a consumer can use and the rest of the URL is put together from
\* characters a URI may carry and whole escapes (S035, S036); the rule reads
\* characters one at a time and never knows where an escape ends.
SilentUrlsAreUris ==
  pc = "done" =>
    \A i \in localized_images :
      <<i[1], i[2]>> \notin S035 \cup S036 <=>
        i[3].image_type /\ i[3].scheme /\ i[3].url \in Readable

\* A reader whose language is not there is shown one thing at most: a value
\* that no rule speaks of has a member, and one last resort or none (S031 to
\* S034).
OneLastResort ==
  pc = "done" =>
    \A k \in DOMAIN sites :
      LET item == sites[k]
      IN  item[1] \notin S031 \cup S032 \cup S033 \cup S034 <=>
            /\ Len(item[2].members) > 0
            /\ \A a, b \in DOMAIN item[2].members :
                 ~item[2].members[a].language /\ ~item[2].members[b].language => a = b

\* The closure and the walk are over; both stop on every schema, one whose types
\* hold each other included.
Walked == pc = "done"
=============================================================================
