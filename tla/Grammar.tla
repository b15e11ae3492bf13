------------------------------- MODULE Grammar -------------------------------
(***************************************************************************)
(* The language: every rule of the generated parser, which                 *)
(* compiler/parser/parser.c holds as a function yy_name.                   *)
(***************************************************************************)
EXTENDS Peg

CONSTANT Words          \* words of letters

Digits == {"0", "1", "2", "3", "4", "5", "6", "7", "8", "9"}
Keywords == {"state", "print", "if", "else", "while", "for", "run", "continue", "break",
             "return", "struct", "event", "advice", "pointcut", "before", "after", "around",
             "trans", "init", "const", "int", "long", "dou", "flo", "cha", "str", "key", "e"}
Marks == {" ", "\n", "\"", "'", ".", "=", "+", "-", "*", "/", "%", "&", "|", "!", "<", ">",
          "(", ")", "[", "]", ",", ";", ":", "{", "}"}
ASSUME GrammarAssumption == Keywords \subseteq Words /\ Words \cap (Digits \cup Marks) = {}

------------------------------------------------------------------------------
(* Blanks, words and numbers. *)
yy_alpha == Class(Words)
yy_alnum == Class(Words \cup Digits)
yy_eol == Class({"\n"})
comment == Seq_(<<Str(<<"/", "/">>), Star(Seq_(<<Not(yy_eol), Dot>>))>>)
yy_space == Alt(<<Class({" "}), comment>>)
yy__ == Star(yy_space)
yy_NLINE == Str(<<"\n">>)
yy_blank == Alt(<<Class({" "}), yy_NLINE, comment>>)
\* A slip: a blank that may be nothing.
yy_bln_empty == Star(Opt(yy_blank))
yy_bln == Star(yy_blank)

yy_mkNil == Do("mk", "nil")
yy_ident == Seq_(<<Text(Seq_(<<yy_alpha, Star(yy_alnum)>>)), Do("token", "intern")>>)
yy_id == Seq_(<<Text(Seq_(<<yy_alpha, Star(yy_alnum)>>)), yy__, Do("token", "intern")>>)
digits == Plus(Class(Digits))
yy_integer == Seq_(<<Text(digits), yy__, Do("token", "newInteger")>>)
yy_expnt == Seq_(<<Str(<<"e">>), Opt(Class({"-", "+"})), digits>>)
yy_float_ ==
  Seq_(<<Text(Alt(<<Seq_(<<digits, yy_expnt>>),
              Seq_(<<digits, Str(<<".">>), Star(Class(Digits)), Opt(yy_expnt)>>),
              Seq_(<<Star(Class(Digits)), Str(<<".">>), digits, Opt(yy_expnt)>>)>>)),
         yy__, Do("token", "newFloat")>>)
yy_QUOTE == Str(<<"'">>)
yy_DQUOTE == Str(<<"\"">>)
yy_string == Seq_(<<Text(Star(Seq_(<<Not(yy_DQUOTE), Dot>>))), yy__, Do("token", "newString")>>)
yy_character == Seq_(<<yy_alpha, Do("token", "newStrChar")>>)

------------------------------------------------------------------------------
(* Marks and keywords.  Three keywords and the types may be the beginning  *)
(* of a longer word.                                                       *)
Mark(chunks) == Seq_(<<Str(chunks), yy__>>)
MarkBut(c, next) == Seq_(<<Str(<<c>>), Not(Class(next)), yy__>>)
Keyword(word) == Seq_(<<Str(<<word>>), Not(yy_alnum), yy__>>)

yy_ASSIGN == MarkBut("=", {"="})
yy_ADDEQU == Mark(<<"+", "=">>)
yy_SUBEQU == Mark(<<"-", "=">>)
yy_MULEQU == Mark(<<"*", "=">>)
yy_DIVEQU == Mark(<<"/", "=">>)
yy_LOGAND == Mark(<<"&", "&">>)
yy_LOGOR == Mark(<<"|", "|">>)
yy_BITAND == MarkBut("&", {"=", "&"})
yy_BITOR == MarkBut("|", {"=", "|"})
yy_EQUAL == Mark(<<"=", "=">>)
yy_NOTEQ == Mark(<<"!", "=">>)
yy_LESS == MarkBut("<", {"=", "<"})
yy_LESSEQ == Mark(<<"<", "=">>)
yy_GREATEQ == Mark(<<">", "=">>)
yy_GREATER == MarkBut(">", {"=", ">"})
yy_LSHIFT == Mark(<<"<", "<">>)
yy_RSHIFT == Mark(<<">", ">">>)
yy_PLURS == Mark(<<"+">>)
yy_MINUS == Mark(<<"-">>)
yy_STAR == Mark(<<"*">>)
yy_SLASH == Mark(<<"/">>)
yy_PCENT == Mark(<<"%">>)
yy_INCRE == Str(<<"+", "+">>)
yy_DECRE == Str(<<"-", "-">>)
yy_LPAR == Mark(<<"(">>)
yy_RPAR == Mark(<<")">>)
yy_LSQP == Mark(<<"[">>)
yy_RSQP == Mark(<<"]">>)
yy_COMMA == Mark(<<",">>)
yy_SEMI == Mark(<<";">>)
yy_COLON == Mark(<<":">>)
yy_LBRACE == Mark(<<"{">>)
yy_RBRACE == Mark(<<"}">>)

yy_STATE == Keyword("state")
yy_PRINT == Keyword("print")
yy_IF == Keyword("if")
yy_ELSE == Keyword("else")
yy_WHILE == Keyword("while")
yy_FOR == Keyword("for")
yy_RUN == Keyword("run")
yy_CONTINUE == Str(<<"continue">>)
yy_BREAK == Str(<<"break">>)
yy_RETURN == Str(<<"return">>)
yy_STRUCT == Keyword("struct")
yy_EVENT == Keyword("event")
yy_ADVICE == Keyword("advice")
yy_POINTCUT == Keyword("pointcut")
yy_BEF == Keyword("before")
yy_AFT == Keyword("after")
yy_AROUD == Keyword("around")

yy_CONST == Seq_(<<Str(<<"const">>), yy__, Do("mk", "one")>>)
yy_MkZero == Do("mk", "zero")
TypeWord(word, type) == Seq_(<<Str(<<word>>), yy__, Do("TYPE", type)>>)
yy_TYPE ==
  Seq_(<<Alt(<<Bind("c", yy_CONST), Bind("c", yy_MkZero)>>),
         Alt(<<TypeWord("int", "_Integer"), TypeWord("long", "_Long"),
               TypeWord("dou", "_Double"), TypeWord("flo", "_Float"),
               TypeWord("cha", "_Char"), TypeWord("str", "String"),
               TypeWord("key", "Key")>>)>>)

------------------------------------------------------------------------------
(* Expressions.  A level is a chain of the next level's operands, which    *)
(* its operators join from the left.                                       *)
Join(token, operand, op) == Seq_(<<token, Bind("rhs", operand), Assign("lhs", "binop", op)>>)
Chain(operand, joins) ==
  Seq_(<<Bind("lhs", operand), Star(Alt(joins)), Do("binop", "lhs")>>)

yy_exp == Rule("exp")
\* A slip: arguments need no comma between them.
yy_args_loose ==
  Seq_(<<yy_LPAR, Bind("a", yy_mkNil),
         Star(Seq_(<<Bind("i", yy_exp), Assign("a", "list", "more args"), Opt(yy_COMMA)>>)),
         yy_RPAR, Do("list", "args")>>)
yy_args ==
  Seq_(<<yy_LPAR, Bind("a", yy_mkNil),
         Opt(Seq_(<<Bind("i", yy_exp), Assign("a", "list", "more args"),
                    Star(Seq_(<<yy_COMMA, Bind("i", yy_exp), Assign("a", "list", "more args")>>))>>)),
         yy_RPAR, Do("list", "args")>>)
yy_func ==
  Alt(<<Seq_(<<Bind("i", yy_id), Bind("a", Rule("args")), Do("sym", "newCall")>>),
        Seq_(<<Str(<<"init">>), yy__, Bind("i", yy_id), Bind("a", Rule("args")),
               Do("sym", "newEventCall")>>)>>)
yy_sym ==
  Alt(<<Seq_(<<yy_LPAR, Bind("lhs", yy_exp), yy_RPAR, Do("sym", "lhs")>>),
        Seq_(<<Bind("i", yy_ident), Str(<<".">>), Bind("s", Rule("sym")),
               Do("sym", "newGetElement")>>),
        Rule("func"),
        Seq_(<<Bind("i", yy_id), Do("sym", "newGetVar")>>)>>)
yy_value ==
  Alt(<<Seq_(<<yy_QUOTE, yy_character, yy_QUOTE, yy__>>),
        Seq_(<<yy_DQUOTE, Rule("string"), yy_DQUOTE, yy__>>),
        Rule("float_"), Rule("integer"), Rule("sym")>>)
yy_postfix ==
  Alt(<<Seq_(<<Bind("i", yy_id), yy_INCRE, yy__, Do("unyop", "AINC")>>),
        Seq_(<<Bind("i", yy_id), yy_DECRE, yy__, Do("unyop", "ADEC")>>),
        Rule("value")>>)
yy_prefix ==
  Alt(<<Seq_(<<yy_MINUS, Bind("x", Rule("value")), Do("unyop", "NEG")>>),
        Seq_(<<yy_INCRE, Bind("i", yy_id), Do("unyop", "BINC")>>),
        Seq_(<<yy_DECRE, Bind("i", yy_id), Do("unyop", "BDEC")>>),
        Rule("postfix")>>)
yy_mul ==
  Chain(Rule("prefix"), <<Join(yy_STAR, Rule("prefix"), "MUL"), Join(yy_SLASH, Rule("prefix"), "DIV"),
                          Join(yy_PCENT, Rule("prefix"), "MOD")>>)
\* A slip: an operator's right-hand side takes all that follows.
yy_add_right ==
  Chain(Rule("mul"), <<Join(yy_PLURS, Rule("mul"), "ADD"), Join(yy_MINUS, yy_exp, "SUB")>>)
yy_add == Chain(Rule("mul"), <<Join(yy_PLURS, Rule("mul"), "ADD"), Join(yy_MINUS, Rule("mul"), "SUB")>>)
yy_shift == Chain(Rule("add"), <<Join(yy_LSHIFT, Rule("add"), "LSH"), Join(yy_RSHIFT, Rule("add"), "RSH")>>)
yy_ineq ==
  Chain(Rule("shift"), <<Join(yy_GREATER, Rule("shift"), "GT"), Join(yy_GREATEQ, Rule("shift"), "GE"),
                         Join(yy_LESSEQ, Rule("shift"), "LE"), Join(yy_LESS, Rule("shift"), "LT")>>)
yy_eqop == Chain(Rule("ineq"), <<Join(yy_EQUAL, Rule("ineq"), "EQ"), Join(yy_NOTEQ, Rule("ineq"), "NE")>>)
yy_bitadd == Chain(Rule("eqop"), <<Join(yy_BITOR, Rule("eqop"), "BOR"), Join(yy_BITAND, Rule("eqop"), "BAND")>>)
yy_logmul == Chain(Rule("bitadd"), <<Join(yy_LOGAND, Rule("bitadd"), "AND")>>)
yy_logadd == Chain(Rule("logmul"), <<Join(yy_LOGOR, Rule("logmul"), "OR")>>)

------------------------------------------------------------------------------
(* Statements. *)
yy_bracket == Seq_(<<yy_LSQP, Bind("e", yy_exp), yy_RSQP, Do("stmt", "e")>>)
yy_mkBlock == Do("mk", "newBlock")
yy_list ==
  Seq_(<<yy_LBRACE, Bind("b", yy_mkBlock), yy_bln,
         Plus(Seq_(<<Bind("s", yy_exp), Assign("b", "list", "Block_append"),
                     Star(Seq_(<<yy_bln, yy_COMMA, yy_bln, Bind("s", yy_exp),
                                 Assign("b", "list", "Block_append")>>))>>)),
         yy_bln, yy_RBRACE, Do("list", "b")>>)
Typed == Alt(<<Bind("t", Rule("TYPE")), Bind("t", yy_mkNil)>>)
Assigned(token, a) == Seq_(<<token, Bind("x", yy_exp), Do("assign", a)>>)
yy_assign ==
  Alt(<<Seq_(<<Typed, Bind("i", yy_id),
               Alt(<<Assigned(yy_ASSIGN, "newSetVar"),
                     Assigned(yy_ADDEQU, "ADD"), Assigned(yy_SUBEQU, "SUB"),
                     Assigned(yy_MULEQU, "MUL"), Assigned(yy_DIVEQU, "DIV")>>)>>),
        Seq_(<<Typed, Bind("i", yy_id), Bind("b", Rule("bracket")), yy_ASSIGN,
               Alt(<<Bind("x", Rule("list")), Bind("x", yy_exp)>>), Do("assign", "newSetArray")>>),
        Rule("func"),
        Seq_(<<Bind("i", yy_ident), Str(<<".">>), Bind("s", Rule("sym")),
               Do("sym", "newGetElement")>>)>>)
yy_expr == Rule("assign")

\* < (!eol &. .)* > { fatal("line %d syntax error: [%s]") }
SyntaxError == Seq_(<<Text(Star(Seq_(<<Not(yy_eol), And(Dot), Dot>>))), Do("mk", "fatal")>>)

\* A slip: the end of the text ends a block too.
yy_block_open ==
  Seq_(<<yy_LBRACE, Bind("b", yy_mkBlock),
         Plus(Seq_(<<yy_bln, Not(yy_RBRACE), And(Dot), Bind("s", Rule("stmt")),
                     Assign("b", "list", "Block_append")>>)),
         yy_bln, Opt(yy_RBRACE), Do("list", "b")>>)
yy_block ==
  Seq_(<<yy_LBRACE, Bind("b", yy_mkBlock),
         Plus(Seq_(<<yy_bln, Not(yy_RBRACE), Bind("s", Rule("stmt")),
                     Assign("b", "list", "Block_append")>>)),
         yy_bln, yy_RBRACE, Do("list", "b")>>)
yy_stmtbl == Alt(<<Rule("block"), Rule("stmt")>>)

If == Seq_(<<yy_IF, yy_LPAR, Bind("c", yy_exp), yy_RPAR, Bind("s", Rule("stmtbl"))>>)
OrNone(v, e) == Alt(<<Bind(v, e), Bind(v, yy_mkNil)>>)
yy_stmt ==
  Alt(<<Seq_(<<yy_PRINT, Bind("a", Rule("args")), Do("stmt", "newPrint")>>),
        Seq_(<<If, yy_bln, yy_ELSE, Bind("t", Rule("stmtbl")), Do("stmt", "newIf")>>),
        Seq_(<<If, Bind("t", yy_mkNil), Do("stmt", "newIf")>>),
        Seq_(<<yy_WHILE, yy_LPAR, Bind("c", yy_exp), yy_RPAR, Bind("s", Rule("stmtbl")),
               Do("stmt", "newWhile")>>),
        Seq_(<<yy_FOR, yy_LPAR, OrNone("i", yy_expr), yy_SEMI, OrNone("e", yy_exp), yy_SEMI,
               OrNone("u", yy_expr), yy_RPAR, Bind("s", Rule("stmtbl")), Do("stmt", "newFor")>>),
        Seq_(<<yy_CONTINUE, yy_NLINE, Do("stmt", "newContinue")>>),
        Seq_(<<yy_BREAK, yy_NLINE, Do("stmt", "newBreak")>>),
        Seq_(<<yy_RETURN, yy__, Bind("e", yy_exp), Do("stmt", "newReturn")>>),
        Seq_(<<yy_STATE, Bind("i", yy_id), Do("stmt", "newRun")>>),
        Seq_(<<Bind("x", yy_expr), Do("stmt", "x")>>),
        Seq_(<<Not(Dot), Do("mk", "nil")>>),
        SyntaxError>>)

------------------------------------------------------------------------------
(* Definitions. *)
Param(next, a) == Seq_(<<Bind("t", Rule("TYPE")), Bind("i", yy_id), next, Assign("p", "list", a)>>)
Params(param) ==
  Seq_(<<yy_LPAR, Bind("p", yy_mkNil),
         Opt(Seq_(<<param, Star(Seq_(<<yy_COMMA, param>>))>>)), yy_RPAR, Do("list", "p")>>)
Condition == Seq_(<<Bind("c", yy_mkNil), Opt(Seq_(<<yy_COLON, Bind("c", yy_exp)>>))>>)
yy_params == Params(Param(None, "newParam"))
yy_eventparams == Params(Param(Condition, "newEventParam"))

yy_defEvent ==
  Seq_(<<yy_EVENT, Bind("n", yy_id), yy_ASSIGN, Bind("i", yy_id),
         Alt(<<Seq_(<<Bind("p", Rule("eventparams")), Bind("b", Rule("block")),
                      Do("event", "newSetVarEvent")>>),
               Seq_(<<yy_LPAR, Bind("p", yy_mkNil), yy__, yy_RPAR, Bind("b", yy_mkNil),
                      Do("event", "newSetVarEvent")>>)>>)>>)
yy_event ==
  Alt(<<Seq_(<<Bind("i", yy_id), Bind("p", Rule("eventparams")), Bind("b", Rule("block")),
               Do("event", "newEvent")>>),
        Seq_(<<Bind("e", Rule("defEvent")), Do("event", "e")>>),
        Seq_(<<Bind("t", Rule("TYPE")), Bind("i", yy_id), yy_ASSIGN, Bind("x", yy_exp),
               Do("event", "newSetVarL")>>),
        Seq_(<<Bind("t", Rule("TYPE")), Bind("i", yy_id), Bind("b", Rule("bracket")), yy_ASSIGN,
               Bind("x", Rule("list")), yy_NLINE, Do("assign", "newSetArray")>>),
        Seq_(<<Bind("i", yy_id), Bind("a", Rule("args")), Do("event", "newCall")>>)>>)
yy_mkState == Do("mk", "newState")
yy_state ==
  Seq_(<<yy_LBRACE, Bind("s", yy_mkState),
         Plus(Seq_(<<yy_bln, Not(yy_RBRACE), Bind("e", Rule("event")),
                     Assign("s", "list", "State_append")>>)),
         yy_bln, yy_RBRACE, Do("list", "s")>>)

yy_child ==
  Seq_(<<yy_LBRACE, Bind("p", yy_mkNil),
         Plus(Seq_(<<yy_bln, Not(yy_RBRACE), Bind("t", Rule("TYPE")), Bind("i", yy_id), yy_SEMI,
                     Assign("p", "list", "newParam")>>)),
         yy_bln, yy_RBRACE, Do("list", "p")>>)
Joint(token, point) == Seq_(<<token, Bind("i", yy_id), Do("jointp", point)>>)
yy_jointp ==
  Alt(<<Joint(yy_BEF, "BEFORE"), Joint(yy_AFT, "AFTER"), Joint(yy_AROUD, "AROUND")>>)
yy_jointps ==
  Seq_(<<yy_LBRACE, Bind("p", yy_mkNil),
         Plus(Seq_(<<yy_bln, Not(yy_RBRACE), Bind("j", Rule("jointp")), yy_COMMA,
                     Assign("p", "list", "newPair")>>)),
         yy_bln, yy_RBRACE, Do("list", "p")>>)
Wildcard(v) == Alt(<<Seq_(<<yy_STAR, Bind(v, yy_mkNil)>>), Bind(v, yy_id)>>)
yy_trans ==
  Seq_(<<Wildcard("i"), yy_COMMA, Wildcard("j"), OrNone("p", Rule("params")), Bind("b", Rule("block")),
         Do("define", "newTransAspect")>>)
yy_define ==
  Alt(<<Seq_(<<yy_STATE, Bind("i", yy_id), Bind("s", Rule("state")), Do("define", "setState")>>),
        Seq_(<<Str(<<"trans">>), yy__, Rule("trans")>>),
        Seq_(<<yy_ADVICE, Bind("i", yy_id), Bind("b", Rule("block")), Do("define", "newAdvice")>>),
        Seq_(<<yy_POINTCUT, Bind("i", yy_id), Bind("j", Rule("jointps")), Do("define", "newPointcut")>>),
        Seq_(<<yy_STRUCT, Bind("i", yy_id), Bind("p", Rule("child")), Do("define", "newSetType")>>),
        Rule("defEvent"),
        Seq_(<<Bind("t", Rule("TYPE")), Bind("i", yy_id), Bind("p", Rule("params")), Bind("s", Rule("stmtbl")),
               Do("define", "newFunction")>>),
        Seq_(<<Bind("t", Rule("TYPE")), Bind("i", yy_id), yy_ASSIGN, Bind("x", yy_exp),
               Do("define", "newSetVarG")>>),
        Seq_(<<yy_RUN, Bind("i", yy_id), Do("define", "newRun")>>),
        Seq_(<<Not(Dot), Do("define", "newEND")>>),
        SyntaxError>>)
yy_start == Seq_(<<yy_bln, yy_define>>)

Rules ==
  [exp |-> yy_logadd, logmul |-> yy_logmul, bitadd |-> yy_bitadd, eqop |-> yy_eqop,
   ineq |-> yy_ineq, shift |-> yy_shift, add |-> yy_add, mul |-> yy_mul, prefix |-> yy_prefix,
   postfix |-> yy_postfix, value |-> yy_value, sym |-> yy_sym, func |-> yy_func, args |-> yy_args,
   string |-> yy_string, float_ |-> yy_float_, integer |-> yy_integer, TYPE |-> yy_TYPE,
   stmt |-> yy_stmt, stmtbl |-> yy_stmtbl, block |-> yy_block, assign |-> yy_assign,
   bracket |-> yy_bracket, list |-> yy_list, params |-> yy_params, eventparams |-> yy_eventparams,
   defEvent |-> yy_defEvent, event |-> yy_event, state |-> yy_state, child |-> yy_child,
   jointp |-> yy_jointp, jointps |-> yy_jointps, trans |-> yy_trans]
==============================================================================
