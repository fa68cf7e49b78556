---------------------------- MODULE Expressions ----------------------------
(***************************************************************************)
(* The routing conditions of a workflow (src/internal/workflow/expr.go):   *)
(* the recursive descent parser, the check that `nexus compose validate`   *)
(* makes of names, fields, functions and arguments, and the evaluation     *)
(* against what the agents before a route have produced.                   *)
(*                                                                         *)
(* A condition is a sequence of tokens; how characters make a token is     *)
(* left out.  A condition is validated, and then evaluated in a run in     *)
(* which some agents were skipped.                                         *)
(***************************************************************************)
EXTENDS Naturals, Sequences, TLC

CONSTANTS
  Agents,      \* of the workflow; their names are not those of a constant
  Conditions,  \* the syntax trees that are looked at
  Outputs,     \* what an agent may have said
  Counts,      \* how many tokens it may have used
  MaxDepth     \* bound: how deep a condition nests

VARIABLES
  condition, phase,   \* written, valid or refused, evaluated
  made,               \* what the agents produced that ran
  result              \* what the condition came to

vars == <<condition, phase, made, result>>

(* Values, and what goes wrong with them.                                  *)
Bool(b) == [type |-> "boolean", bool |-> b]
Text(s) == [type |-> "text", text |-> s]
Number(n) == [type |-> "number", number |-> n]
Nothing == [type |-> "nothing"]
Fields(f) == [type |-> "record", fields |-> f]
Wrong(why) == [type |-> "error", why |-> why]
IsWrong(x) == x.type = "error"

(* Syntax trees.                                                           *)
Literal(x) == [node |-> "literal", value |-> x]
Ref(parts) == [node |-> "ref", parts |-> parts]
Binary(op, l, r) == [node |-> "binary", op |-> op, l |-> l, r |-> r]
Not(x) == [node |-> "unary", x |-> x]
Call(f, args) == [node |-> "call", name |-> f, args |-> args]

Constants == {"always", "never", "input"}
AgentFields == {"output", "tokens", "ok"}
Measures == {"len", "words", "lines"}
Reshapes == {"lower", "upper", "trim"}
Arity == [f \in Measures \cup Reshapes \cup {"contains", "matches"} |->
            IF f \in {"contains", "matches"} THEN 2 ELSE 1]
Comparisons == {"==", "!=", "<", "<=", ">", ">="}

-----------------------------------------------------------------------------
(* The parser.  What a rule reads from a position on is a sequence, of one *)
(* tree but for the operands of an operator, the arguments of a call and   *)
(* the parts of a name, and the position after it.  The rules call one     *)
(* another through p, which is what each of them reads from each position. *)
Parsed(ns, i) == [ok |-> TRUE, ns |-> ns, i |-> i]
Unparsed == [ok |-> FALSE, ns |-> <<>>, i |-> 0]
At(t, i) == IF i <= Len(t) THEN t[i] ELSE [kind |-> "end", text |-> ""]
Is(t, i, text) == At(t, i).kind = "mark" /\ At(t, i).text = text

(* Operands of one kind group from the left.                               *)
Grouped(op, r) ==
  LET upTo[k \in 1..Len(r.ns)] == IF k = 1 THEN r.ns[1] ELSE Binary(op, upTo[k - 1], r.ns[k])
  IN  IF r.ok THEN Parsed(<<upTo[Len(r.ns)]>>, r.i) ELSE r

Separator == [or |-> "or", and |-> "and", args |-> ",", name |-> "."]

Listed(p, t, rule, first) ==
  LET rest == p[rule, first.i + 1] IN
  CASE ~first.ok \/ ~Is(t, first.i, Separator[rule]) -> first
    [] rest.ok -> Parsed(first.ns \o rest.ns, rest.i)
    [] OTHER -> rest

ParseOr(p, i) == Grouped("or", p["or", i])
ParseAnd(p, i) == Grouped("and", p["and", i])

(* One comparison: `a < b < c` is refused by whoever reads on.             *)
ParseCmp(p, t, i) ==
  LET l == p["unary", i]
      r == p["unary", l.i + 1]
      op == At(t, l.i)
  IN  CASE ~l.ok \/ op.kind # "mark" \/ op.text \notin Comparisons -> l
        [] r.ok -> Parsed(<<Binary(op.text, l.ns[1], r.ns[1])>>, r.i)
        [] OTHER -> r

ParseUnary(p, t, i) ==
  LET x == p["unary", i + 1] IN
  CASE ~Is(t, i, "not") -> p["primary", i]
    [] x.ok -> Parsed(<<Not(x.ns[1])>>, x.i)
    [] OTHER -> x

Named(parts) ==
  CASE parts = <<"true">> -> Literal(Bool(TRUE))
    [] parts = <<"false">> -> Literal(Bool(FALSE))
    [] OTHER -> Ref(parts)

ParseCall(p, t, i) ==
  LET args == p["args", i + 2] IN
  CASE Is(t, i + 2, ")") -> Parsed(<<Call(t[i].text, <<>>)>>, i + 3)
    [] args.ok /\ Is(t, args.i, ")") -> Parsed(<<Call(t[i].text, args.ns)>>, args.i + 1)
    [] OTHER -> Unparsed

ParseIdent(p, t, i) ==
  LET name == p["name", i] IN
  CASE Is(t, i + 1, "(") -> ParseCall(p, t, i)
    [] name.ok -> Parsed(<<Named(name.ns)>>, name.i)
    [] OTHER -> Unparsed

ParsePrimary(p, t, i) ==
  LET c == At(t, i)
      n == ParseOr(p, i + 1)
  IN  CASE c.kind = "text" -> Parsed(<<Literal(Text(c.text))>>, i + 1)
        [] c.kind = "number" -> Parsed(<<Literal(Number(c.text))>>, i + 1)
        [] c.kind = "name" -> ParseIdent(p, t, i)
        [] Is(t, i, "(") /\ n.ok /\ Is(t, n.i, ")") -> Parsed(n.ns, n.i + 1)
        [] OTHER -> Unparsed

Rules == {"or", "and", "cmp", "unary", "primary", "args", "name"}

Parse(t) ==
  LET p[rule \in Rules, i \in Nat] ==
        CASE rule = "or" -> Listed(p, t, rule, ParseAnd(p, i))
          [] rule = "and" -> Listed(p, t, rule, p["cmp", i])
          [] rule = "cmp" -> ParseCmp(p, t, i)
          [] rule = "unary" -> ParseUnary(p, t, i)
          [] rule = "primary" -> ParsePrimary(p, t, i)
          [] rule = "args" -> Listed(p, t, rule, ParseOr(p, i))
          [] rule = "name" ->
               IF At(t, i).kind # "name" THEN Unparsed
               ELSE Listed(p, t, rule, Parsed(<<t[i].text>>, i + 1))
      n == ParseOr(p, 1)
  IN  IF n.ok /\ n.i = Len(t) + 1 THEN n ELSE Unparsed

-----------------------------------------------------------------------------
(* A tree and all trees in it.                                             *)
Children(e) ==
  CASE e.node = "unary" -> {e.x}
    [] e.node = "binary" -> {e.l, e.r}
    [] e.node = "call" -> {e.args[i] : i \in DOMAIN e.args}
    [] OTHER -> {}

Nodes(e) ==
  LET below[n \in Nat] == IF n = 0 THEN {e} ELSE UNION {Children(x) : x \in below[n - 1]}
  IN  UNION {below[n] : n \in 0..MaxDepth}

(* CheckCondition: every name is the workflow's, every field an agent's,   *)
(* every function known and given as many arguments as it takes.           *)
Known(e) ==
  CASE e.node = "ref" -> \/ Len(e.parts) = 1 /\ e.parts[1] \in Constants
                         \/ /\ Len(e.parts) = 2 /\ e.parts[1] \in Agents
                            /\ e.parts[2] \in AgentFields
    [] e.node = "call" -> e.name \in DOMAIN Arity /\ Len(e.args) = Arity[e.name]
    [] OTHER -> TRUE

Checked(e) == \A x \in Nodes(e) : Known(x)

-----------------------------------------------------------------------------
(* Evaluation.                                                             *)
AsString(x) ==
  CASE x.type = "text" -> x.text
    [] x.type = "number" -> ToString(x.number)
    [] x.type = "boolean" -> IF x.bool THEN "true" ELSE "false"
    [] x.type = "nothing" -> ""
    [] x.type = "record" -> "map"

IsNumber(x) == x.type \in {"number", "boolean"}
AsNumber(x) == IF x.type = "boolean" THEN (IF x.bool THEN 1 ELSE 0) ELSE x.number

Equal(x, y) ==
  IF IsNumber(x) /\ IsNumber(y) THEN AsNumber(x) = AsNumber(y) ELSE AsString(x) = AsString(y)

Compare(op, x, y) ==
  CASE op = "==" -> Bool(Equal(x, y))
    [] op = "!=" -> Bool(~Equal(x, y))
    [] ~(IsNumber(x) /\ IsNumber(y)) -> Wrong("compare")
    [] op = "<" -> Bool(AsNumber(x) < AsNumber(y))
    [] op = "<=" -> Bool(AsNumber(x) <= AsNumber(y))
    [] op = ">" -> Bool(AsNumber(x) > AsNumber(y))
    [] op = ">=" -> Bool(AsNumber(x) >= AsNumber(y))

Truthy(x) ==
  CASE x.type = "error" -> x
    [] x.type = "record" -> Wrong("truth")
    [] OTHER -> Bool(CASE x.type = "boolean" -> x.bool
                       [] x.type = "text" -> x.text # ""
                       [] x.type = "number" -> x.number # 0
                       [] x.type = "nothing" -> FALSE)

(* A name that is missing is an error when it stands alone, and nothing    *)
(* when a field of it is asked for: an agent that has not run.             *)
Field(rec, name) ==
  IF rec.type # "record" THEN Wrong("fields")
  ELSE IF name \notin DOMAIN rec.fields THEN Wrong("field") ELSE rec.fields[name]

(* Broken: an agent that has not run is an unknown name.                   *)
LookupStrict(parts, e) ==
  IF parts[1] \notin DOMAIN e THEN Wrong("name")
  ELSE IF Len(parts) = 1 THEN e[parts[1]] ELSE Field(e[parts[1]], parts[2])

Lookup(parts, e) ==
  IF parts[1] \notin DOMAIN e THEN IF Len(parts) = 1 THEN Wrong("name") ELSE Nothing
  ELSE IF Len(parts) = 1 THEN e[parts[1]]
  ELSE LET f == Field(e[parts[1]], parts[2]) IN
       IF IsWrong(f) \/ Len(parts) = 2 THEN f ELSE Field(f, parts[3])

Within(n, h) == \E i \in 0..Len(h) : i + Len(n) <= Len(h) /\ SubSeq(h, i + 1, i + Len(n)) = n

(* The functions; a pattern of `matches` may not compile.  Texts here are  *)
(* one word of one line, in lower case.                                    *)
Apply(f, a) ==
  LET s == AsString(a[1]) IN
  CASE f = "len" -> Number(Len(s))
    [] f \in {"words", "lines"} -> Number(IF s = "" THEN 0 ELSE 1)
    [] f \in Reshapes -> Text(s)
    [] f = "matches" /\ AsString(a[2]) = "(" -> Wrong("pattern")
    [] f \in {"contains", "matches"} -> Bool(Within(AsString(a[2]), s))

FirstWrong(xs) ==
  LET bad == {i \in DOMAIN xs : IsWrong(xs[i])}
  IN  IF bad = {} THEN Nothing ELSE xs[CHOOSE i \in bad : \A j \in bad : i <= j]

(* `and` and `or` look at their right side only if it decides.             *)
ValueOf(v, e, en) ==
  CASE e.node = "literal" -> e.value
    [] e.node = "ref" -> Lookup(e.parts, en)
    [] e.node = "unary" ->
         LET x == Truthy(v[e.x]) IN IF IsWrong(x) THEN x ELSE Bool(~x.bool)
    [] e.node = "binary" /\ e.op \in {"and", "or"} ->
         LET l == Truthy(v[e.l])
         IN  IF IsWrong(l) \/ l.bool = (e.op = "or") THEN l ELSE Truthy(v[e.r])
    [] e.node = "binary" /\ e.op \in Comparisons ->
         LET l == v[e.l]  r == v[e.r]
         IN  IF IsWrong(l) THEN l ELSE IF IsWrong(r) THEN r ELSE Compare(e.op, l, r)
    [] e.node = "call" ->
         LET xs == [i \in DOMAIN e.args |-> v[e.args[i]]] IN
         CASE e.name \notin DOMAIN Arity -> Wrong("function")
           [] Len(e.args) # Arity[e.name] -> Wrong("arity")
           [] IsWrong(FirstWrong(xs)) -> FirstWrong(xs)
           [] OTHER -> Apply(e.name, xs)

Value(e, en) == LET v[x \in Nodes(e)] == ValueOf(v, x, en) IN v[e]

Eval(e, en) == Truthy(Value(e, en))

-----------------------------------------------------------------------------
(* A condition is validated, and a route evaluates it in a run: agents     *)
(* that were skipped are not in the environment.                           *)
Environment(input, said) ==
  [n \in Constants \cup DOMAIN said |->
     CASE n = "always" -> Bool(TRUE)
       [] n = "never" -> Bool(FALSE)
       [] n = "input" -> Text(input)
       [] OTHER -> Fields([output |-> Text(said[n].output), tokens |-> Number(said[n].tokens),
                           ok |-> Bool(TRUE)])]

Runs == UNION {[ran -> [output : Outputs, tokens : Counts]] : ran \in SUBSET Agents}
NoRun == [n \in {} |-> Nothing]

Init ==
  /\ condition \in Conditions /\ phase = "written" /\ made = NoRun /\ result = Nothing

Validate ==
  /\ phase = "written"
  /\ phase' = IF Checked(condition) THEN "valid" ELSE "refused"
  /\ UNCHANGED <<condition, made, result>>

Evaluate(input, m) ==
  /\ phase = "valid"
  /\ phase' = "evaluated" /\ made' = m
  /\ result' = Eval(condition, Environment(input, m))
  /\ UNCHANGED condition

Next == Validate \/ \E input \in Outputs, m \in Runs : Evaluate(input, m)

Spec == Init /\ [][Next]_vars

-----------------------------------------------------------------------------
(* The words of a condition, with no more parentheses than it needs.       *)
Mark(s) == <<[kind |-> "mark", text |-> s]>>
Name(s) == <<[kind |-> "name", text |-> s]>>

(* How tightly an expression holds together: or, and, comparison, the rest.*)
Tightness(e) ==
  CASE e.node = "binary" /\ e.op = "or" -> 1
    [] e.node = "binary" /\ e.op = "and" -> 2
    [] e.node = "binary" /\ e.op \in Comparisons -> 3
    [] OTHER -> 4

Join(xs, mark) ==
  LET upTo[k \in 1..Len(xs)] == IF k = 1 THEN xs[1] ELSE upTo[k - 1] \o Mark(mark) \o xs[k]
  IN  IF xs = <<>> THEN <<>> ELSE upTo[Len(xs)]

Enclosed(w, e, least) == IF Tightness(e) >= least THEN w[e] ELSE Mark("(") \o w[e] \o Mark(")")

WordsOf(w, e) ==
  CASE e.node = "literal" /\ e.value.type = "boolean" -> Name(IF e.value.bool THEN "true" ELSE "false")
    [] e.node = "literal" /\ e.value.type = "text" -> <<[kind |-> "text", text |-> e.value.text]>>
    [] e.node = "literal" /\ e.value.type = "number" -> <<[kind |-> "number", text |-> e.value.number]>>
    [] e.node = "ref" -> Join([i \in DOMAIN e.parts |-> Name(e.parts[i])], ".")
    [] e.node = "unary" -> Mark("not") \o Enclosed(w, e.x, 4)
    [] e.node = "binary" ->
         LET n == Tightness(e)
         IN  Enclosed(w, e.l, IF n = 3 THEN 4 ELSE n) \o Mark(e.op) \o Enclosed(w, e.r, n + 1)
    [] e.node = "call" ->
         Name(e.name) \o Mark("(") \o Join([i \in DOMAIN e.args |-> w[e.args[i]]], ",") \o Mark(")")

Words(e) == LET w[x \in Nodes(e)] == WordsOf(w, x) IN w[e]

(* What is written with the parentheses that precedence asks for, and no   *)
(* others, is read as it was meant: `or` holds loosest, then `and`, one    *)
(* comparison, `not`; operators of one kind group from the left.           *)
ReadAsMeant ==
  phase = "written" => Parse(Words(condition)) = Parsed(<<condition>>, Len(Words(condition)) + 1)

(* A condition that was validated never fails in a run for a name, a field,*)
(* a function or its arguments, whichever agents were skipped: it does for *)
(* a comparison of things that have no order, of which what a skipped agent*)
(* said is one (SkippedDoesNotFire), and a pattern that does not compile.  *)
ValidatedIsBound ==
  phase = "evaluated" /\ IsWrong(result) => result.why \in {"compare", "pattern"}

(* A condition is safe behind the `ok` of an agent: `a.ok and ...` is      *)
(* false, and no error, in every run that skipped the agent.               *)
OkGuards ==
  phase = "valid" =>
    \A a \in Agents : \A m \in Runs : a \notin DOMAIN m =>
      Eval(Binary("and", Ref(<<a, "ok">>), condition), Environment("", m)) = Bool(FALSE)

(* "This is not an error: a route whose condition mentions a stage that was*)
(* skipped should simply not fire" (expr.go:128), "condition on an agent   *)
(* that never ran should be false" (expr_test.go:84): when the condition   *)
(* compares what that agent produced with something, and no `not` or `or`  *)
(* turns it round.                                                         *)
SkippedDoesNotFire ==
  /\ phase = "evaluated"
  /\ condition.node = "binary" /\ condition.op \in Comparisons \ {"!="}
  /\ condition.l.node = "ref" /\ condition.l.parts[1] \in Agents \ DOMAIN made
  => result = Bool(FALSE)

=============================================================================
