--------------------------------- MODULE Peg ---------------------------------
(***************************************************************************)
(* What the rules of compiler/parser/parser.leg are made of.  leg          *)
(* translates an expression into code with a position in the text and a    *)
(* list of actions to do if the whole rule matches; both are set back when *)
(* an alternative fails.  A text is a sequence of chunks: a word of        *)
(* letters, or one other character.  Words that touch are one identifier,  *)
(* as "int" and "erval" are.                                               *)
(***************************************************************************)
EXTENDS Integers, Sequences

Str(chunks) == [peg |-> "string", chunks |-> chunks]      \* "abc"
Class(chunks) == [peg |-> "class", chunks |-> chunks]     \* [abc]
Dot == [peg |-> "dot"]                                    \* .
None == [peg |-> "none"]
Star(e) == [peg |-> "star", of |-> e]                     \* e*
Not(e) == [peg |-> "not", of |-> e]                       \* !e
Text(e) == [peg |-> "text", of |-> e]                     \* < e >
Bind(v, e) == [peg |-> "bind", var |-> v, of |-> e]       \* v:e
Rule(name) == [peg |-> "rule", name |-> name]             \* a rule has its own variables
Do(rule, a) == [peg |-> "action", rule |-> rule, do |-> a]              \* { $$ = a }
Assign(v, rule, a) == [peg |-> "assign", var |-> v, rule |-> rule, do |-> a] \* { v = a }

RECURSIVE Joined(_, _)         \* by halves, so that no expression is deep
Joined(kind, es) ==
  LET half == Len(es) \div 2
  IN  IF Len(es) = 1 THEN es[1]
      ELSE [peg |-> kind, first |-> Joined(kind, SubSeq(es, 1, half)),
            second |-> Joined(kind, SubSeq(es, half + 1, Len(es)))]
Seq_(es) == Joined("then", es)                            \* e f
Alt(es) == Joined("or", es)                               \* e | f

Plus(e) == Seq_(<<e, Star(e)>>)                           \* e+
Opt(e) == Alt(<<e, None>>)                                \* e?
And(e) == Not(Not(e))                                     \* &e
==============================================================================
