----------------------------- MODULE RulesParser -----------------------------
(***************************************************************************)
(* The schema text parser, RulesParser (src/fdb5/RulesParser.cc): a        *)
(* recursive descent parser with one character of lookahead.               *)
(*                                                                         *)
(* Each parse function becomes an operator from a text s and a position p  *)
(* (the next character to read) to a result [ok, pos, val]: on success,    *)
(* pos is the position after what the function consumed; on failure (a     *)
(* consume() that finds another character, or the final throw), pos is    *)
(* where it stopped.  White space, which StreamParser skips, is left out   *)
(* of the alphabet.  The loops of the code are tail-recursive operators    *)
(* with the vector they fill as an accumulator; the recursion of parseRule *)
(* is a loop over an explicit stack of calls.                              *)
(*                                                                         *)
(* The reference is the grammar of the spec (section 4.1), written as a    *)
(* recogniser that splits the text instead of reading it left to right.   *)
(* The module has one variable, the text handed to RulesParser::parse.     *)
(***************************************************************************)
EXTENDS Naturals, Sequences, SequencesExt, FiniteSets

CONSTANTS
    IdentChars,   \* characters that may occur in a name or a value
    MaxLen        \* bound on the length of the texts parsed

Delims == {"[", "]", "=", "/", ","}
Chars == Delims \cup IdentChars
EOS == "EOS"    \* what peek() returns at the end of the stream (0)

VARIABLES
    input,    \* the text handed to RulesParser::parse
    result,   \* what parse returns for it
    grammar   \* the rule sequences the spec grammar reads in it

-----------------------------------------------------------------------------
(* Trees and results.                                                      *)

\* new Predicate(k, ...): the match policy follows the number of values.
Pred(k, values) ==
    [key |-> k, values |-> values,
     kind |-> CASE Cardinality(values) = 0 -> "MatchAlways"
                [] Cardinality(values) = 1 -> "MatchValue"
                [] OTHER                   -> "MatchAny"]

RuleOf(preds, rules) == [preds |-> preds, rules |-> rules]

Ok(p, v) == [ok |-> TRUE, pos |-> p, val |-> v]
Err(p) == [ok |-> FALSE, pos |-> p, val |-> <<>>]

-----------------------------------------------------------------------------
(* The parser.                                                             *)

\* StreamParser::peek
Peek(s, p) == IF p <= Len(s) THEN s[p] ELSE EOS

\* parseIdent: every character up to a delimiter or the end of the stream.
ParseIdent(s, p) ==
    LET q == Min({i \in p..Len(s) + 1 : Peek(s, i) \in Delims \cup {EOS}})
    IN  [pos |-> q, val |-> SubSeq(s, p, q - 1)]

RECURSIVE ParseValues(_, _, _)

\* Fault variant of ParseValues: the while loop over '/' is an if, so only
\* the first two values are read.
ParseValuesOnce(s, p, values) ==
    LET v == ParseIdent(s, p)
        w == ParseIdent(s, v.pos + 1)
    IN  IF Peek(s, v.pos) = "/"
        THEN [pos |-> w.pos, val |-> values \cup {v.val, w.val}]
        ELSE [pos |-> v.pos, val |-> values \cup {v.val}]

\* The values loop of parsePredicate: insert(parseIdent()) while '/'.
ParseValues(s, p, values) ==
    LET v == ParseIdent(s, p)
    IN  IF Peek(s, v.pos) = "/"
        THEN ParseValues(s, v.pos + 1, values \cup {v.val})
        ELSE [pos |-> v.pos, val |-> values \cup {v.val}]

\* parsePredicate: a name, then '=' and values unless ',' '[' or ']' follows.
ParsePredicate(s, p) ==
    LET k == ParseIdent(s, p)
        c == Peek(s, k.pos)
    IN  IF c \in {",", "[", "]"} THEN Ok(k.pos, Pred(k.val, {}))
        ELSE IF c # "=" THEN Err(k.pos)
        ELSE LET vs == ParseValues(s, k.pos + 1, {})
             IN  Ok(vs.pos, Pred(k.val, vs.val))

\* The predicate branch of the parseRule loop: parsePredicate, then more
\* of them while ',' follows.
RECURSIVE Predicates(_, _, _)
Predicates(s, p, preds) ==
    LET r == ParsePredicate(s, p)
    IN  IF ~r.ok THEN r
        ELSE IF Peek(s, r.pos) = ","
        THEN Predicates(s, r.pos + 1, Append(preds, r.val))
        ELSE Ok(r.pos, Append(preds, r.val))

(* The nesting of parseRule calls is kept as an explicit stack: a machine  *)
(* [pos, stack, status] whose stack holds one frame [preds, rules] per     *)
(* parseRule call in progress, above a bottom frame whose rules is the     *)
(* result vector of parse.                                                 *)

Start == [pos |-> 1, stack |-> <<RuleOf(<<>>, <<>>)>>, status |-> "run"]

\* Push r onto the rules vector of the innermost call.
AddRule(stack, r) == [stack EXCEPT ![Len(stack)].rules = Append(@, r)]

\* parseRule entered at '[': consume it; "[]" is the empty rule, returned
\* at once, else a new call starts its for(;;) loop.
OpenRule(s, m) ==
    IF Peek(s, m.pos + 1) = "]"
    THEN [m EXCEPT !.pos = m.pos + 2,
                   !.stack = AddRule(@, RuleOf(<<>>, <<>>))]
    ELSE [m EXCEPT !.pos = m.pos + 1,
                   !.stack = Append(@, RuleOf(<<>>, <<>>))]

\* ']' at the end of a turn: consume it, return the rule to the caller.
CloseRule(m) ==
    [m EXCEPT !.pos = m.pos + 1,
              !.stack = AddRule(Front(@), Last(@))]

\* One step at the next character c.  In parse, '[' calls parseRule and
\* anything else ends the loop.  In parseRule the for(;;) loop reads, at
\* each point where it peeks: '[' a nested rule (the while loop, and a turn
\* starting with '['), ']' the end of the rule (only reached after a run,
\* since "[]" is taken by OpenRule), anything else a run of predicates.
Step(s, m) ==
    LET c == Peek(s, m.pos)
    IN  CASE c = "[" -> OpenRule(s, m)
          [] Len(m.stack) = 1 -> [m EXCEPT !.status = "end"]
          [] c = "]" -> CloseRule(m)
          [] OTHER ->
               LET r == Predicates(s, m.pos, Last(m.stack).preds)
               IN  IF ~r.ok THEN [m EXCEPT !.pos = r.pos, !.status = "error"]
                   ELSE [m EXCEPT !.pos = r.pos,
                                  !.stack[Len(m.stack)].preds = r.val]

\* The machine run until parse's loop ends or a consume() throws.
RECURSIVE Run(_, _)
Run(s, m) == IF m.status # "run" THEN m ELSE Run(s, Step(s, m))

\* Fault variant of Parse: the check for a remaining character is missing.
ParseNoTrailingCheck(s) ==
    LET m == Run(s, Start)
    IN  IF m.status = "error" THEN Err(m.pos) ELSE Ok(m.pos, m.stack[1].rules)

\* RulesParser::parse: parseRule while '[', then a remaining character is
\* an error.
Parse(s) ==
    LET m == Run(s, Start)
    IN  IF m.status = "error" \/ Peek(s, m.pos) # EOS THEN Err(m.pos)
        ELSE Ok(m.pos, m.stack[1].rules)

-----------------------------------------------------------------------------
(* The reference: the grammar of spec section 4.1.                         *)
(*                                                                         *)
(*   rule      := '[' ']' | '[' ruleList ']' | '[' predList ']'            *)
(*   ruleList  := rule+                                                    *)
(*   predList  := predicate (',' predicate)*                               *)
(*   predicate := ident ['=' value ('/' value)*]                           *)
(*                                                                         *)
(* A schema is a sequence of rules.  A name or value is a run of non-      *)
(* delimiter characters, taken here to include the empty run; "[]" is the  *)
(* empty rule, not a rule with one nameless predicate.                     *)

IsRun(s) == \A i \in 1..Len(s) : s[i] \in IdentChars

\* The pieces of s between the occurrences of the character d.
RECURSIVE SplitOn(_, _)
SplitOn(s, d) ==
    LET at == {i \in 1..Len(s) : s[i] = d}
    IN  IF at = {} THEN <<s>>
        ELSE <<SubSeq(s, 1, Min(at) - 1)>>
                \o SplitOn(SubSeq(s, Min(at) + 1, Len(s)), d)

\* The predicates the grammar reads in s: one, or none.
RefPredicate(s) ==
    LET parts == SplitOn(s, "=")
        values == SplitOn(parts[Len(parts)], "/")
    IN  CASE Len(parts) = 1 /\ IsRun(s) -> {Pred(s, {})}
          [] Len(parts) = 2 /\ IsRun(parts[1])
                /\ \A i \in 1..Len(values) : IsRun(values[i])
                -> {Pred(parts[1], ToSet(values))}
          [] OTHER -> {}

\* The predicate lists the grammar reads in s.
RefPredList(s) ==
    LET parts == SplitOn(s, ",")
    IN  IF \A i \in 1..Len(parts) : RefPredicate(parts[i]) # {}
        THEN {[i \in 1..Len(parts) |->
                  CHOOSE x \in RefPredicate(parts[i]) : TRUE]}
        ELSE {}

RECURSIVE RefRule(_), RefRules(_)

\* The rules the grammar reads in s.
RefRule(s) ==
    IF Len(s) < 2 \/ s[1] # "[" \/ s[Len(s)] # "]" THEN {}
    ELSE LET inner == SubSeq(s, 2, Len(s) - 1)
         IN  IF inner = <<>> THEN {RuleOf(<<>>, <<>>)}
             ELSE {RuleOf(<<>>, rs) : rs \in RefRules(inner)}
                  \cup {RuleOf(ps, <<>>) : ps \in RefPredList(inner)}

\* The sequences of rules the grammar reads in s (rule*).
RefRules(s) ==
    IF s = <<>> THEN {<<>>}
    ELSE UNION {{<<r>> \o rest : r \in RefRule(SubSeq(s, 1, i)),
                                 rest \in RefRules(SubSeq(s, i + 1, Len(s)))}
                : i \in 2..Len(s)}

-----------------------------------------------------------------------------
(* Every text up to MaxLen characters, built one character at a time.     *)
(* The parser keeps no state between calls: each text is parsed on its own. *)

Init ==
    /\ input = <<>>
    /\ result = Parse(<<>>)
    /\ grammar = RefRules(<<>>)

Next ==
    /\ Len(input) < MaxLen
    /\ \E c \in Chars : input' = Append(input, c)
    /\ result' = Parse(input')
    /\ grammar' = RefRules(input')

Spec == Init /\ [][Next]_<<input, result, grammar>>

-----------------------------------------------------------------------------
(* Properties.                                                             *)

\* parse returns normally only when it consumed the whole text, and
\* reports a position inside the text (or just past it) when it throws.
TypeOK ==
    /\ input \in Seq(Chars)
    /\ result.ok \in BOOLEAN
    /\ result.pos \in 1..Len(input) + 1
    /\ result.ok => result.pos = Len(input) + 1

\* Every schema text of the spec's grammar is accepted, and parsed into the
\* rules, predicates and match policies (always, value, any) the grammar
\* gives it: the peek-driven loops of parseRule and parsePredicate agree
\* with the grammar on every text it generates.
GrammarAccepted ==
    \A t \in grammar : result = Ok(Len(input) + 1, t)

\* The spec (4.1, 7) treats malformed schema text as a parse error: parse
\* only accepts texts of the grammar, with ',' between predicates and
\* nested rules and predicates not mixed in one bracket.
OnlyGrammarAccepted ==
    result.ok => grammar # {}

=============================================================================
