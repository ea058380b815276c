----------------------------- MODULE RuleEngine -----------------------------
(***************************************************************************)
(* The detection rules (detect/condition_parser.cpp, rule_loader.cpp,      *)
(* rule_engine.cpp): a directory of rules is parsed, compiled into buckets *)
(* with a prefilter of event types, and the first rule that matches an     *)
(* event of the consumer is its alert (baseline/monitor.cpp).              *)
(*                                                                         *)
(* A condition is the sequence of words the lexer gives; the model parses  *)
(* it as the code does, by recursive descent.  An event is its type and    *)
(* the words each field has: none for a number that is missing, one for a  *)
(* scalar, any number for an array field.                                  *)
(***************************************************************************)
EXTENDS Integers, Sequences, FiniteSets, SequencesExt

CONSTANTS
  Fields,        (* field paths: event_type and others                     *)
  NumberFields, ArrayFields,
  FieldLike,     (* words with the prefix of a family that are no field    *)
  Numbers,       (* words that are numbers                                 *)
  KnownTypes,    (* event types the prefilter has a bit for                *)
  CategoryOf,    (* category of words shaped like an event type            *)
  StartPairs,    (* pairs <<word, prefix>>                                 *)
  PartPairs,     (* pairs <<word, part>>                                   *)
  Dirs,          (* contents the directory may have at first               *)
  EditedDirs,    (* contents it may be given later                         *)
  Events,
  MaxEdits       (* bound *)

Symbols == {"(", ")", ",", "=", "!="}
Keywords == {"and", "or", "not", "in", "contains", "startswith"}
Ops == {"=", "!=", "in", "contains", "startswith"}
Categories == {"file", "process", "network", "dns", "priv", "ns"}

VARIABLES
  dir,     (* rules of the directory, in the order of its files            *)
  engine,  (* the compiled rules: [rules, buckets]                         *)
  hit,     (* the event evaluated last and the index of its rule, 0 if none *)
  edits
vars == <<dir, engine, hit, edits>>

-----------------------------------------------------------------------------
(* The parser: each operator takes the words that are left and returns     *)
(* whether it succeeded, its node and the words after it.                  *)
Fail == [ok |-> FALSE, node |-> <<>>, rest |-> <<>>]
Done(node, rest) == [ok |-> TRUE, node |-> node, rest |-> rest]
At(s, word) == IF s = <<>> THEN FALSE ELSE Head(s) = word

(* The right side of a comparison with event_type is a literal even where  *)
(* it looks like a field.                                                  *)
IsOperand(s, forced) ==
  /\ s # <<>> /\ Head(s) \notin Symbols \cup Keywords
  /\ forced \/ Head(s) \in Fields \/ Head(s) \notin FieldLike
Operand(word, forced) == [field |-> ~forced /\ word \in Fields, word |-> word]

RECURSIVE ParseList_TrailingComma(_, _, _)
ParseList_TrailingComma(s, items, forced) ==
  IF At(s, ")") /\ items # <<>> THEN Done(items, Tail(s))
  ELSE IF ~IsOperand(s, forced) THEN Fail
  ELSE IF Operand(Head(s), forced).field THEN Fail
  ELSE LET more == Append(items, Operand(Head(s), forced))
           next == Tail(s)
       IN IF At(next, ",") THEN ParseList_TrailingComma(Tail(next), more, forced)
          ELSE IF At(next, ")") THEN Done(more, Tail(next)) ELSE Fail

RECURSIVE ParseList(_, _, _)
ParseList(s, items, forced) ==
  IF ~IsOperand(s, forced) THEN Fail
  ELSE IF Operand(Head(s), forced).field THEN Fail
  ELSE LET more == Append(items, Operand(Head(s), forced))
           next == Tail(s)
       IN IF At(next, ",") THEN ParseList(Tail(next), more, forced)
          ELSE IF At(next, ")") THEN Done(more, Tail(next)) ELSE Fail

ParseComparison(s) ==
  IF Len(s) < 3 \/ ~IsOperand(s, FALSE) THEN Fail
  ELSE LET lhs == Operand(s[1], FALSE)
           op == s[2]
           forced == s[1] = "event_type"
           after == SubSeq(s, 3, Len(s))
           right == IF At(after, "(") /\ op = "in" THEN ParseList(Tail(after), <<>>, forced)
                    ELSE IF op # "in" /\ IsOperand(after, forced)
                      THEN Done(<<Operand(after[1], forced)>>, Tail(after))
                    ELSE Fail
       IN IF \/ op \notin Ops \/ ~right.ok
             \/ op \in {"contains", "startswith"} /\ lhs.word \in NumberFields
            THEN Fail
            ELSE Done([k |-> "cmp", op |-> op, lhs |-> lhs, rhs |-> right.node],
                      right.rest)

RECURSIVE ParseOr(_), ParseAnd(_), ParseNot(_), ParseMore(_, _, _)
ParseNot(s) ==
  IF At(s, "not") THEN
    LET child == ParseNot(Tail(s)) IN
    IF child.ok THEN Done([k |-> "not", kids |-> <<child.node>>], child.rest) ELSE Fail
  ELSE IF At(s, "(") THEN
    LET inner == ParseOr(Tail(s)) IN
    IF inner.ok /\ At(inner.rest, ")") THEN Done(inner.node, Tail(inner.rest)) ELSE Fail
  ELSE ParseComparison(s)

(* The operands that follow the first one, each after the same word.       *)
ParseMore(word, kids, s) ==
  IF At(s, word) THEN
    LET next == IF word = "or" THEN ParseAnd(Tail(s)) ELSE ParseNot(Tail(s)) IN
    IF next.ok THEN ParseMore(word, Append(kids, next.node), next.rest) ELSE Fail
  ELSE Done(IF Len(kids) = 1 THEN kids[1] ELSE [k |-> word, kids |-> kids], s)

ParseAnd(s) ==
  LET first == ParseNot(s) IN
  IF first.ok THEN ParseMore("and", <<first.node>>, first.rest) ELSE Fail
ParseOr(s) ==
  LET first == ParseAnd(s) IN
  IF first.ok THEN ParseMore("or", <<first.node>>, first.rest) ELSE Fail

ParseCondition(s) ==
  LET p == ParseOr(s) IN IF p.ok /\ p.rest = <<>> THEN p ELSE Fail

-----------------------------------------------------------------------------
(* Evaluation.  A number that is missing makes every comparison false, a   *)
(* string that is missing is empty (the word "").                          *)
Rel(op, v, l) == \/ op \in {"=", "in"} /\ v = l
                 \/ op = "!=" /\ v # l
                 \/ op = "contains" /\ <<v, l>> \in PartPairs
                 \/ op = "startswith" /\ <<v, l>> \in StartPairs

IsNumber(o) == IF o.field THEN o.word \in NumberFields ELSE o.word \in Numbers
(* The value of an operand as a set: empty where operand_value is invalid. *)
Value(ev, o) == IF ~o.field THEN {o.word}
                ELSE IF o.word \in ArrayFields THEN {} ELSE ev.has[o.word]

(* A mutant that lets every operator hold between two wholes.              *)
eval_compare_AnyOperator(ev, n) ==
  LET whole == ~n.lhs.field \/ (n.rhs[1].field /\ n.op # "in")
      vs == IF whole THEN Value(ev, n.lhs) ELSE ev.has[n.lhs.word]
  IN \E i \in 1..Len(n.rhs), v \in vs :
       IF whole THEN /\ IsNumber(n.lhs) = IsNumber(n.rhs[i])
                     /\ \E b \in Value(ev, n.rhs[i]) : Rel(n.op, v, b)
       ELSE /\ n.lhs.word \in NumberFields => n.rhs[i].word \in Numbers
            /\ Rel(n.op, v, n.rhs[i].word)

eval_compare(ev, n) ==
  LET vs == ev.has[n.lhs.word]
      l == n.rhs[1]
  IN IF ~n.lhs.field \/ (l.field /\ n.op # "in")
       THEN /\ n.op \in {"=", "!="} /\ IsNumber(n.lhs) = IsNumber(l)
            /\ \E a \in Value(ev, n.lhs), b \in Value(ev, l) : Rel(n.op, a, b)
       ELSE \E i \in 1..Len(n.rhs) :
              /\ n.lhs.word \in NumberFields => n.rhs[i].word \in Numbers
              /\ \E v \in vs : Rel(n.op, v, n.rhs[i].word)

RECURSIVE eval_node(_, _)
eval_node(ev, n) ==
  CASE n.k = "and" -> \A i \in 1..Len(n.kids) : eval_node(ev, n.kids[i])
    [] n.k = "or"  -> \E i \in 1..Len(n.kids) : eval_node(ev, n.kids[i])
    [] n.k = "not" -> ~eval_node(ev, n.kids[1])
    [] OTHER       -> eval_compare(ev, n)

-----------------------------------------------------------------------------
(* Compilation: the event types a node can be true for, and the bucket.    *)
TypeBit(word) == IF word \in KnownTypes THEN word ELSE "unknown"
AllBits == KnownTypes \cup {"unknown"}

NamesTypes(n) == n.k = "cmp" /\ n.lhs = Operand("event_type", FALSE)
                 /\ n.op \in {"=", "in"}

RECURSIVE et_necessary_mask_Not(_)
et_necessary_mask_Not(n) ==
  IF n.k = "cmp" THEN
    IF NamesTypes(n) /\ (n.op = "in" \/ n.rhs[1].word \notin Numbers)
      THEN {TypeBit(n.rhs[i].word) : i \in 1..Len(n.rhs)}
      ELSE AllBits
  ELSE LET masks == {et_necessary_mask_Not(n.kids[i]) : i \in 1..Len(n.kids)} IN
       IF n.k = "and" THEN {b \in AllBits : \A m \in masks : b \in m} ELSE UNION masks

RECURSIVE et_necessary_mask(_)
et_necessary_mask(n) ==
  CASE n.k = "cmp" -> IF NamesTypes(n) /\ (n.op = "in" \/ n.rhs[1].word \notin Numbers)
                        THEN {TypeBit(n.rhs[i].word) : i \in 1..Len(n.rhs)}
                        ELSE AllBits
    [] n.k = "and" -> {b \in AllBits : \A i \in 1..Len(n.kids) :
                                         b \in et_necessary_mask(n.kids[i])}
    [] n.k = "or"  -> UNION {et_necessary_mask(n.kids[i]) : i \in 1..Len(n.kids)}
    [] OTHER       -> AllBits

BucketOfEventType(word) ==
  IF word \in DOMAIN CategoryOf THEN CategoryOf[word] ELSE "all"

(* One category when every type the comparison names has it, else "all".   *)
BucketOfCompare(n) ==
  LET cats == {BucketOfEventType(n.rhs[i].word) : i \in 1..Len(n.rhs)} IN
  IF NamesTypes(n) THEN IF Cardinality(cats) = 1 THEN CHOOSE c \in cats : TRUE ELSE "all"
  ELSE "all"

ExtractBucket(n) ==
  LET found == {BucketOfCompare(n.kids[i]) : i \in 1..Len(n.kids)} \ {"all"} IN
  IF n.k = "cmp" THEN BucketOfCompare(n)
  ELSE IF n.k = "and" /\ Cardinality(found) = 1 THEN CHOOSE c \in found : TRUE
  ELSE "all"

(* A rule of the directory is [name, words].                               *)
Build(rules) ==
  LET nodes == [i \in 1..Len(rules) |-> ParseCondition(rules[i].words).node]
      indices == [i \in 1..Len(rules) |-> i]
  IN [rules |-> rules,
      node |-> nodes,
      mask |-> [i \in 1..Len(rules) |-> et_necessary_mask(nodes[i])],
      buckets |-> [b \in Categories \cup {"all"} |->
                     SelectSeq(indices, LAMBDA i : ExtractBucket(nodes[i]) = b)]]

(* Loading is strict: one rule that is refused refuses the directory.      *)
LoadRulesDir(rules) ==
  /\ \A i \in 1..Len(rules) : ParseCondition(rules[i].words).ok
  /\ \A i, j \in 1..Len(rules) : rules[i].name = rules[j].name => i = j

Candidates_AllFirst(e, type) ==
  LET b == BucketOfEventType(type) IN
  e.buckets["all"] \o (IF b = "all" THEN <<>> ELSE e.buckets[b])

Candidates(e, type) ==
  LET b == BucketOfEventType(type) IN
  (IF b = "all" THEN <<>> ELSE e.buckets[b]) \o e.buckets["all"]

FirstHit(e, ev) ==
  LET hits == SelectSeq(Candidates(e, ev.type),
                LAMBDA i : /\ TypeBit(ev.type) \in e.mask[i]
                           /\ eval_node(ev, e.node[i]))
  IN IF hits = <<>> THEN 0 ELSE Head(hits)

-----------------------------------------------------------------------------
NoHit == [ev |-> <<>>, rule |-> 0]

(* At start a directory that does not load leaves the empty engine.        *)
Init ==
  /\ dir \in Dirs /\ edits = 0 /\ hit = NoHit
  /\ engine = IF LoadRulesDir(dir) THEN Build(dir) ELSE Build(<<>>)

Edit ==
  /\ edits < MaxEdits /\ edits' = edits + 1
  /\ dir' \in EditedDirs
  /\ UNCHANGED <<engine, hit>>

(* SIGHUP.  A directory that does not load leaves the engine in place.     *)
Reload ==
  /\ engine' = IF LoadRulesDir(dir) THEN Build(dir) ELSE engine
  /\ hit' = NoHit
  /\ UNCHANGED <<dir, edits>>

(* A file event, or an exec, is evaluated by the consumer.                 *)
Evaluate(ev) ==
  /\ hit' = [ev |-> ev, rule |-> FirstHit(engine, ev)]
  /\ UNCHANGED <<dir, engine, edits>>

Next == Edit \/ Reload \/ (\E ev \in Events : Evaluate(ev))

Spec == Init /\ [][Next]_vars

-----------------------------------------------------------------------------
(* What a condition means, said of its words: `or' splits before `and',    *)
(* `and' before `not', and a comparison of a field with literals holds     *)
(* when some value of the field stands in the relation to some literal.    *)
Depth(s, i) == Cardinality({j \in 1..(i - 1) : s[j] = "("})
               - Cardinality({j \in 1..(i - 1) : s[j] = ")"})
Splits(s, word) == {i \in 1..Len(s) : s[i] = word /\ Depth(s, i) = 0}
Before(s, i) == SubSeq(s, 1, i - 1)
After(s, i) == SubSeq(s, i + 1, Len(s))
Inner(s) == SubSeq(s, 2, Len(s) - 1)
Bracketed(s) == Len(s) > 1 /\ s[1] = "(" /\ s[Len(s)] = ")"

IsTerm(w) == w \notin Symbols \cup Keywords
Literals(s) == IF Len(s) = 3 THEN {s[3]} ELSE {s[i] : i \in {j \in 4..Len(s) : j % 2 = 0}}
IsComparison(s) ==
  /\ Len(s) >= 3 /\ s[1] \notin FieldLike
  /\ \A w \in Literals(s) \cup {s[1]} :
       IsTerm(w) /\ (w \in FieldLike => s[1] = "event_type")
  /\ \/ Len(s) = 3 /\ s[2] \in Ops \ {"in"}
     \/ /\ Len(s) >= 5 /\ Len(s) % 2 = 1 /\ s[2] = "in" /\ s[3] = "(" /\ s[Len(s)] = ")"
        /\ \A i \in 5..(Len(s) - 1) : i % 2 = 1 => s[i] = ","
        /\ s[1] # "event_type" => Literals(s) \cap Fields = {}
  /\ s[1] \in NumberFields => s[2] \notin {"contains", "startswith"}

RECURSIVE WellFormed(_), Holds(_, _)
WellFormed(s) ==
  LET at == IF Splits(s, "or") # {} THEN Splits(s, "or") ELSE Splits(s, "and") IN
  IF at # {} THEN \E i \in at : WellFormed(Before(s, i)) /\ WellFormed(After(s, i))
  ELSE IF At(s, "not") THEN WellFormed(Tail(s))
  ELSE IF Bracketed(s) THEN WellFormed(Inner(s))
  ELSE IsComparison(s)

(* With a literal on the left or a field on the right, which the grammar   *)
(* allows too, the two sides are compared as wholes: they are equal or     *)
(* they differ, a number only with a number, and an array never.  No       *)
(* other operator holds of them (rule_engine.cpp:319-326 and 340-347),     *)
(* though docs/rule-dsl-v1.md:79 does not set them apart.                  *)
Whole(s) == s[1] \notin Fields \/ (s[1] # "event_type" /\ s[3] \in Fields)
Numeric == NumberFields \cup Numbers
Side(ev, w) == IF w \in Fields THEN ev.has[w] ELSE {w}
MeantWhole(ev, s) ==
  /\ s[2] \in {"=", "!="}
  /\ s[1] \in Numeric <=> s[3] \in Numeric
  /\ s[1] \notin ArrayFields /\ s[3] \notin ArrayFields
  /\ \E v \in Side(ev, s[1]), w \in Side(ev, s[3]) : (v = w) <=> (s[2] = "=")
MeantField(ev, s) ==
  \E v \in ev.has[s[1]], l \in Literals(s) :
    Rel(s[2], v, l) /\ (s[1] \in NumberFields => l \in Numbers)
Meant(ev, s) == IF Whole(s) THEN MeantWhole(ev, s) ELSE MeantField(ev, s)

Holds(s, ev) ==
  LET or == Splits(s, "or")
      and == Splits(s, "and")
      i == CHOOSE j \in or \cup and : j \in or \/ or = {}
  IN IF or # {} THEN Holds(Before(s, i), ev) \/ Holds(After(s, i), ev)
     ELSE IF and # {} THEN Holds(Before(s, i), ev) /\ Holds(After(s, i), ev)
     ELSE IF At(s, "not") THEN ~Holds(Tail(s), ev)
     ELSE IF Bracketed(s) THEN Holds(Inner(s), ev)
     ELSE Meant(ev, s)

Loads(rules) == /\ \A i \in 1..Len(rules) : WellFormed(rules[i].words)
                /\ Cardinality({rules[i].name : i \in 1..Len(rules)}) = Len(rules)

(* Every variable has its type, and each rule is in one bucket.            *)
TypeOK ==
  /\ \A i \in 1..Len(engine.rules) :
       Cardinality({b \in DOMAIN engine.buckets : i \in ToSet(engine.buckets[b])}) = 1
  /\ dir \in Dirs \cup EditedDirs /\ edits \in 0..MaxEdits
  /\ engine.rules \in Dirs \cup EditedDirs \cup {<<>>}
  /\ hit.rule \in 0..Len(engine.rules)

(* An event is reported if and only if the condition of some loaded rule   *)
(* holds for it by its words, as Meant reads them: neither the parser, nor *)
(* the buckets, nor the prefilter by event type, nor the short cuts lose   *)
(* or invent a match.                                                      *)
NoMatchLost ==
  hit.ev # <<>> =>
    LET matching == {i \in 1..Len(engine.rules) : Holds(engine.rules[i].words, hit.ev)} IN
    IF hit.rule = 0 THEN matching = {} ELSE hit.rule \in matching

(* A rule that matches and was loaded earlier is passed over only for one  *)
(* that is bound to the category of the event, where it is not itself.     *)
OrderWithinBucket ==
  hit.rule # 0 =>
    \A i \in 1..(hit.rule - 1) :
      Holds(engine.rules[i].words, hit.ev) =>
        /\ i \in ToSet(engine.buckets["all"])
        /\ hit.rule \notin ToSet(engine.buckets["all"])

(* What holds of the compiled rules and of every verdict: the types above,  *)
(* and the first rule of the event's candidates.                            *)
EngineInv == TypeOK /\ OrderWithinBucket

(* The rules in force are always those of a directory in which each        *)
(* condition is one of the grammar and no name is used twice; a reload     *)
(* takes such a directory whole, and any other changes nothing.  This is   *)
(* about the text of the rules; a subdirectory that cannot be read throws  *)
(* (rule_loader.cpp:136-137) and ends the monitor instead.                 *)
ReloadIsStrict ==
  /\ []Loads(engine.rules)
  /\ [][engine' # engine => engine'.rules = dir]_vars
  /\ [][Reload /\ Loads(dir) => engine'.rules = dir]_vars

=============================================================================
