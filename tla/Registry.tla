------------------------------ MODULE Registry ------------------------------
(***************************************************************************)
(* How rules come to be known and how a mode picks its own                 *)
(* (rules/registry.py), over the packed manifest that owns upstream's ids  *)
(* (report/manifest.py).                                                   *)
(*                                                                         *)
(* A rule registers while its module is imported, and who imports it first *)
(* is nobody's decision: a test, or a module that needs another, imports   *)
(* any of them before discover does.  A module that raises while it is     *)
(* imported is not kept, so the next import runs it again.                 *)
(***************************************************************************)
EXTENDS Integers, Sequences, FiniteSets, SequencesExt, Orders

CONSTANTS
  Trees,       \* the source trees: sequences of modules, in the order of their names
  Declared,    \* the ids of rules.json, in declaration order
  Reachable,   \* those the batch processor's validators emit
  Grave,       \* those whose severity in rules.json is ERROR
  None

VARIABLES
  tree,         \* the modules on disk
  imported,     \* sys.modules: those whose import has ended
  registered,   \* _REGISTERED, in insertion order
  queue,        \* what discover has still to import
  pc,           \* "idle", "discovering", "raised" or "built"
  wanted,       \* the registry discover was called for
  rules         \* Registry._rules

vars == <<tree, imported, registered, queue, pc, wanted, rules>>

TIERS == <<"upstream", "spec", "practice">>
CITED_TIERS == [spec |-> "S", practice |-> "P"]
Severity == {"ERROR", "WARNING"}

\* An id is its letter and its number.
letter(id) == id[1]

\* What the trees and the manifest of a model may be.  The manifest's ids begin
\* with E or W (rules.json), so none begins with a cited tier's letter.
LegalInputs ==
  /\ \A t \in Trees : t \in Seq(Range(t))
  /\ Declared \in Seq(Range(Declared))
  /\ \A id \in Range(Declared) : letter(id) \notin {"S", "P"}
  /\ None \notin Severity

\* manifest.rule: the rule or a KeyError, and the ids --compat is about.
knows(id) == Contains(Declared, id)
severity_of(id) == IF id \in Grave THEN "ERROR" ELSE "WARNING"
batch_reachable_ids == Picked(Declared, {k \in DOMAIN Declared : Declared[k] \in Reachable})

own_letter(id, tier) == letter(id) = CITED_TIERS[tier]

\* _check_citation and _check_severity.
is_cited(module) == module.source = module.tier
declares_severity(module) == module.severity \in Severity

is_upstream(module) == module.source = None /\ module.severity = None /\ knows(module.id)

ids(entries) == [k \in DOMAIN entries |-> entries[k].id]

claimed(id, entries) == Contains(ids(entries), id)

\* Whether register takes what the module says of itself.
accepts(module, entries) ==
  /\ Contains(TIERS, module.tier)
  /\ IF module.tier = "upstream" THEN is_upstream(module)
     ELSE is_cited(module) /\ declares_severity(module) /\ own_letter(module.id, module.tier)
  /\ ~claimed(module.id, entries)

register(i) ==
  Append(registered, [id |-> tree[i].id, tier |-> tree[i].tier, module |-> i, severity |-> tree[i].severity])

Init ==
  /\ tree \in Trees
  /\ imported = {} /\ registered = <<>> /\ queue = <<>>
  /\ pc = "idle" /\ wanted = None /\ rules = <<>>

\* Somebody imports one module before discover does.  One that is wrong about
\* itself raises there, and leaves everything as it was.
import_module(i) ==
  /\ pc \in {"idle", "raised"} /\ i \notin imported
  /\ accepts(tree[i], registered)
  /\ imported' = imported \cup {i} /\ registered' = register(i)
  /\ UNCHANGED <<tree, queue, pc, wanted, rules>>

modules_of(tier) == {i \in DOMAIN tree : tree[i].tier = tier /\ ~tree[i].private}

in_tier(tier) == Ranked(modules_of(tier), Upwards(modules_of(tier)))

\* A tier after another, and a tier's modules by name.
sorted_modules == in_tier("upstream") \o in_tier("spec") \o in_tier("practice")

discover(mode) ==
  /\ pc \in {"idle", "raised", "built"}
  /\ mode # wanted
  /\ pc' = "discovering" /\ queue' = sorted_modules /\ wanted' = mode
  /\ UNCHANGED <<tree, imported, registered, rules>>

Discover ==
  /\ pc = "discovering" /\ queue # <<>>
  /\ LET i == Head(queue)
     IN  \/ /\ i \in imported
            /\ queue' = Tail(queue)
            /\ UNCHANGED <<imported, registered, pc>>
         \/ /\ i \notin imported /\ accepts(tree[i], registered)
            /\ imported' = imported \cup {i} /\ registered' = register(i)
            /\ queue' = Tail(queue)
            /\ UNCHANGED pc
         \/ /\ i \notin imported /\ ~accepts(tree[i], registered)
            /\ pc' = "raised" /\ queue' = <<>>
            /\ UNCHANGED <<imported, registered>>
  /\ UNCHANGED <<tree, wanted, rules>>

entry(id) == registered[CHOOSE k \in DOMAIN registered : registered[k].id = id]

\* Registry._of.
of(rule_ids) ==
  LET known == Picked(rule_ids, {k \in DOMAIN rule_ids : claimed(rule_ids[k], registered)})
  IN  [k \in DOMAIN known |-> entry(known[k])]

compat == of(batch_reachable_ids)

modern == of(ids(registered))

\* Registry.compat and Registry.modern.
Build ==
  /\ pc = "discovering" /\ queue = <<>>
  /\ rules' = IF wanted = "compat" THEN compat ELSE modern
  /\ pc' = "built"
  /\ UNCHANGED <<tree, imported, registered, queue, wanted>>

Next ==
  \/ \E i \in DOMAIN tree : import_module(i)
  \/ \E mode \in {"compat", "modern"} : discover(mode)
  \/ Discover
  \/ Build

Spec == Init /\ [][Next]_vars

\* severity_for: the rule's own, else the manifest's, else a KeyError.
severity_for(id) ==
  IF claimed(id, registered) /\ entry(id).severity # None THEN entry(id).severity
  ELSE IF knows(id) THEN severity_of(id) ELSE None

-----------------------------------------------------------------------------
Claim(i) == [id |-> tree[i].id, tier |-> tree[i].tier, module |-> i, severity |-> tree[i].severity]

\* Every variable holds what the code could hold there.
TypeOK ==
  /\ imported \subseteq DOMAIN tree
  /\ \A k \in DOMAIN registered : registered[k] \in {Claim(i) : i \in imported}
  /\ \A k \in DOMAIN queue : queue[k] \in DOMAIN tree
  /\ pc \in {"idle", "discovering", "raised", "built"}
  /\ wanted \in {None, "compat", "modern"}
  /\ \A k \in DOMAIN rules : rules[k] \in {Claim(i) : i \in imported}

Public == {i \in DOMAIN tree : Contains(TIERS, tree[i].tier) /\ ~tree[i].private}

\* Whatever was imported first, and whatever the tree holds besides, a compat
\* registry is the manifest's batch-reachable rules that have an upstream
\* module, in the manifest's order: a rule of another tier never enters it
\* (registry.py, "a rule outside the 56 cannot enter however it registered").
CompatIsTheManifests ==
  pc = "built" /\ wanted = "compat" =>
    /\ ids(rules) = Picked(Declared, {k \in DOMAIN Declared :
                      /\ Declared[k] \in Reachable
                      /\ \E i \in imported : tree[i].id = Declared[k] /\ tree[i].tier = "upstream"})
    /\ \A k \in DOMAIN rules : rules[k].tier = "upstream"

\* A registry is only ever built of a tree that is right about itself: every
\* module discover looks for has registered its own id by then, no two have
\* registered one id, and modern runs them all (register, discover).
WholeTreeOrNoRegistry ==
  pc = "built" =>
    /\ Public \subseteq imported
    /\ \A i, j \in imported : tree[i].id = tree[j].id => i = j
    /\ wanted = "modern" => {rules[k].module : k \in DOMAIN rules} = imported

\* Whichever tier wrote the rule that fired, the report has one severity for
\* it and only one place it could come from (severity_for, "a writer never
\* parses an id to decide which to ask").
OneSourceOfSeverity ==
  \A k \in DOMAIN registered :
    /\ severity_for(registered[k].id) \in Severity
    /\ (registered[k].severity # None) # knows(registered[k].id)

\* registry.py, discover's docstring: Registry.modern() has "a deterministic
\* order that does not depend on who imported what first", the order discover
\* imports in.
OrderIsDiscoverys ==
  pc = "built" /\ wanted = "modern" =>
    \A k, l \in DOMAIN rules :
      {rules[k].module, rules[l].module} \subseteq Public /\ k < l =>
        \E m, n \in DOMAIN sorted_modules :
          m < n /\ sorted_modules[m] = rules[k].module /\ sorted_modules[n] = rules[l].module
=============================================================================
