----------------------------- MODULE Dependency -----------------------------
(***************************************************************************)
(* tools/vkex/parse_dependency.py: dependency expressions of the registry, *)
(* names joined by '+' (and) and ',' (or), which bind equally and from the *)
(* left, with parentheses.  The parser leaves the expression on a stack in *)
(* postfix order (exprStack); the other functions consume that stack.      *)
(*                                                                         *)
(* An expression is a sequence of tokens; so is what is made of it.  The   *)
(* operators are recursive like the functions of the code.                 *)
(***************************************************************************)
EXTENDS Naturals, Sequences, SequencesExt, FiniteSets

Ops == {"+", ","}
Parens == {"(", ")"}

(***************************************************************************)
(* Parsing.  A parse from position i gives the position after what it      *)
(* consumed, 0 if it failed, and what it pushed (push_first).              *)
(***************************************************************************)

Failed == [next |-> 0, stack |-> <<>>]

\* boolop[...]: operators before an atom are accepted and not pushed.
RECURSIVE SkipOps(_, _)
SkipOps(toks, i) == IF i <= Len(toks) /\ toks[i] \in Ops THEN SkipOps(toks, i + 1) ELSE i

RECURSIVE ParseExpr(_, _), ParseRest(_, _)

\* atom :: boolop* (name | '(' expr ')')
ParseAtom(toks, i) ==
    LET k == SkipOps(toks, i)
        e == ParseExpr(toks, k + 1)
    IN  CASE k > Len(toks) -> Failed
          [] toks[k] \notin Ops \cup Parens -> [next |-> k + 1, stack |-> <<toks[k]>>]
          [] toks[k] = "(" -> IF e.next # 0 /\ e.next <= Len(toks) /\ toks[e.next] = ")"
                              THEN [e EXCEPT !.next = @ + 1] ELSE Failed
          [] OTHER -> Failed

\* (boolop atom)*, where the operator is pushed after its second operand
ParseRest(toks, sofar) ==
    LET i == sofar.next
        a == ParseAtom(toks, i + 1)
    IN  IF i = 0 \/ i > Len(toks) \/ toks[i] \notin Ops \/ a.next = 0 THEN sofar
        ELSE ParseRest(toks, [next |-> a.next, stack |-> sofar.stack \o a.stack \o <<toks[i]>>])

ParseExpr(toks, i) == ParseRest(toks, ParseAtom(toks, i))

\* parse_string(dependency, parse_all=True): <<>> stands for ParseException.
ExprStack(toks) == LET e == ParseExpr(toks, 1)
                   IN  IF e.next = Len(toks) + 1 THEN e.stack ELSE <<>>

(***************************************************************************)
(* Consuming a stack from its end.  Each gives the value and what is left. *)
(***************************************************************************)

RECURSIVE EvaluateStack(_, _)
EvaluateStack(stack, supported) ==
    LET op == Last(stack)
        op2 == EvaluateStack(Front(stack), supported)
        op1 == EvaluateStack(op2.stack, supported)
    IN  IF op \in Ops
        THEN [val |-> IF op = "+" THEN op1.val /\ op2.val ELSE op1.val \/ op2.val,
              stack |-> op1.stack]
        ELSE [val |-> op \in supported, stack |-> Front(stack)]

EvaluateDependency(toks, supported) == EvaluateStack(ExprStack(toks), supported).val

RECURSIVE EvalDependencyNames(_)
EvalDependencyNames(stack) ==
    LET op == Last(stack)
        rhs == EvalDependencyNames(Front(stack))
        lhs == EvalDependencyNames(rhs.stack)
    IN  IF op \in Ops THEN [val |-> rhs.val \cup lhs.val, stack |-> lhs.stack]
        ELSE [val |-> {op}, stack |-> Front(stack)]

DependencyNames(toks) == EvalDependencyNames(ExprStack(toks)).val

OpMarkupC(op) == IF op = "+" THEN "&&" ELSE "||"

\* Mutant: parentheses only where the operator is the parent's.
ParenthesizeSame(op, parent) == parent # "root" /\ parent = op

\* Parentheses are added where the operator differs from the parent's.
Parenthesize(op, parent) == parent # "root" /\ parent # op

\* evalDependencyLanguage with opMarkupC and parenthesize=True; names are
\* left as they are.  "root" is the parent operator of the whole expression.
RECURSIVE EvalDependencyLanguage(_, _)
EvalDependencyLanguage(stack, parent) ==
    LET op == Last(stack)
        rhs == EvalDependencyLanguage(Front(stack), op)
        lhs == EvalDependencyLanguage(rhs.stack, op)
        joined == lhs.val \o <<OpMarkupC(op)>> \o rhs.val
    IN  IF op \in Ops
        THEN [val |-> IF Parenthesize(op, parent) THEN <<"(">> \o joined \o <<")">> ELSE joined,
              stack |-> lhs.stack]
        ELSE [val |-> <<op>>, stack |-> Front(stack)]

DependencyLanguageC(toks) == EvalDependencyLanguage(ExprStack(toks), "root").val

(***************************************************************************)
(* References: what an expression means, and what a C expression means.    *)
(* A tree is a name, or <<op, tree, tree>>.                                *)
(***************************************************************************)

\* All the trees with the leaves of the sequence names, in that order
RECURSIVE Trees(_)
Trees(names) ==
    IF Len(names) = 1 THEN {<<names[1]>>}
    ELSE UNION {{<<op, l, r>> : op \in Ops, l \in Trees(SubSeq(names, 1, k)),
                                r \in Trees(SubSeq(names, k + 1, Len(names)))}
                : k \in 1 .. Len(names) - 1}

RECURSIVE Meaning(_, _)
Meaning(tree, supported) ==
    CASE Len(tree) = 1 -> tree[1] \in supported
      [] tree[1] = "+" -> Meaning(tree[2], supported) /\ Meaning(tree[3], supported)
      [] tree[1] = "," -> Meaning(tree[2], supported) \/ Meaning(tree[3], supported)

\* The tree written left to right: only a right operand needs parentheses.
RECURSIVE Written(_)
Written(tree) ==
    IF Len(tree) = 1 THEN tree
    ELSE Written(tree[2]) \o <<tree[1]>>
         \o (IF Len(tree[3]) = 1 THEN Written(tree[3]) ELSE <<"(">> \o Written(tree[3]) \o <<")">>)

Depth(toks, i) == Cardinality({j \in 1 .. i : toks[j] = "("}) - Cardinality({j \in 1 .. i : toks[j] = ")"})
TopLevel(toks, op) == {i \in 1 .. Len(toks) : toks[i] = op /\ Depth(toks, i) = 0}

\* C: && binds tighter than ||
RECURSIVE CMeaning(_, _)
CMeaning(toks, supported) ==
    LET Split(op) == CHOOSE i \in TopLevel(toks, op) : TRUE
        Left(op) == CMeaning(SubSeq(toks, 1, Split(op) - 1), supported)
        Right(op) == CMeaning(SubSeq(toks, Split(op) + 1, Len(toks)), supported)
    IN  CASE TopLevel(toks, "||") # {} -> Left("||") \/ Right("||")
          [] TopLevel(toks, "||") = {} /\ TopLevel(toks, "&&") # {} -> Left("&&") /\ Right("&&")
          [] toks[1] = "(" /\ TopLevel(toks, "||") \cup TopLevel(toks, "&&") = {}
               -> CMeaning(SubSeq(toks, 2, Len(toks) - 1), supported)
          [] OTHER -> toks[1] \in supported
=============================================================================
