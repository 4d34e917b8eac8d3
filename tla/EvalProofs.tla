----------------------------- MODULE EvalProofs -----------------------------
(***************************************************************************)
(* Proofs about the evaluator, for every set of programs and every         *)
(* arithmetic that NumbersClosed admits.                                   *)
(***************************************************************************)
EXTENDS Knots, Integers, SequenceTheorems, TLAPS

(* What a heap of n closures can hold, a larger one can. *)
LEMMA SeqGrows ==
  ASSUME NEW S, NEW T, S \subseteq T
  PROVE  Seq(S) \subseteq Seq(T)
  OBVIOUS

LEMMA ValueGrows ==
  ASSUME NEW n \in Nat, NEW m \in Nat, n <= m
  PROVE  Value(n) \subseteq Value(m)
  BY DEF Value

LEMMA EnvGrows ==
  ASSUME NEW n \in Nat, NEW m \in Nat, n <= m
  PROVE  Env(n) \subseteq Env(m)
  <1> DEFINE Binding(k) == [name : Name, value : Value(k)]
  <1>1. Binding(n) \subseteq Binding(m)
    BY ValueGrows
  <1>2. QED  BY <1>1, SeqGrows DEF Env

LEMMA ClosureGrows ==
  ASSUME NEW n \in Nat, NEW m \in Nat, n <= m
  PROVE  Closure(n) \subseteq Closure(m)
  BY EnvGrows DEF Closure

LEMMA FrameGrows ==
  ASSUME NEW n \in Nat, NEW m \in Nat, n <= m
  PROVE  Frame(n) \subseteq Frame(m)
  <1>1. Seq(Value(n)) \subseteq Seq(Value(m))
    BY ValueGrows, SeqGrows
  <1>2. Env(n) \subseteq Env(m)
    BY EnvGrows
  <1>3. QED  BY <1>1, <1>2 DEF Frame

(* A value has the payload its kind calls for. *)
LEMMA ValueFields ==
  ASSUME NEW n \in Nat, NEW v \in Value(n)
  PROVE  /\ v.kind = "num" => v.num \in Num
         /\ v.kind = "str" => v.str \in Text
         /\ v.kind = "bool" => v.boolean \in BOOLEAN
         /\ v.kind = "fun" => v.fun \in 1..n
  BY DEF Value, Unit

(* What the evaluator constructs is a value. *)
LEMMA ValueMade ==
  ASSUME NEW n \in Nat
  PROVE  /\ Unit \in Value(n)
         /\ \A x \in Num : NumValue(x) \in Value(n)
         /\ \A x \in Text : StrValue(x) \in Value(n)
         /\ \A x \in BOOLEAN : BoolValue(x) \in Value(n)
         /\ \A x \in 1..n : FunValue(x) \in Value(n)
         /\ \A x \in Message : Error(x) \in Value(n)
  BY DEF Value, Unit, NumValue, StrValue, BoolValue, FunValue, Error

LEMMA NegateType ==
  ASSUME NEW n \in Nat, NEW v \in Value(n)
  PROVE  Negate(v) \in Value(n)
  <1>1. CASE v.kind = "num"
    <2>1. Negate(v) = NumValue(NumNeg(v.num))
      BY <1>1 DEF Negate
    <2>2. NumNeg(v.num) \in Num
      BY <1>1, ValueFields, NumbersClosed
    <2>3. QED  BY <2>1, <2>2, ValueMade
  <1>2. CASE v.kind = "bool"
    BY <1>2 DEF Negate
  <1>3. CASE v.kind \notin {"num", "bool"}
    <2>1. Negate(v) = Error("negation operand is not a number")
      BY <1>3 DEF Negate
    <2>2. QED  BY <2>1, ValueMade DEF Message
  <1>4. QED  BY <1>1, <1>2, <1>3

LEMMA NumOpType ==
  ASSUME NEW n \in Nat, NEW a \in Num, NEW b \in Num, NEW op \in Binary
  PROVE  NumOp(op, a, b) \in Value(n)
  <1>1. /\ NumAdd(a, b) \in Num /\ NumSub(a, b) \in Num
        /\ NumMul(a, b) \in Num /\ NumDiv(a, b) \in Num
        /\ NumEq(a, b) \in BOOLEAN
    BY NumbersClosed
  <1>2. \/ NumOp(op, a, b) \in {NumValue(NumAdd(a, b)), NumValue(NumSub(a, b)),
                                NumValue(NumMul(a, b)), NumValue(NumDiv(a, b))}
        \/ NumOp(op, a, b) = BoolValue(NumEq(a, b))
    BY DEF NumOp, Binary
  <1>3. QED  BY <1>1, <1>2, ValueMade DEF Message

LEMMA BoolOpType ==
  ASSUME NEW n \in Nat, NEW a \in BOOLEAN, NEW b \in BOOLEAN, NEW op \in Binary
  PROVE  BoolOp(op, a, b) \in Value(n)
  <1>1. \/ BoolOp(op, a, b) = BoolValue(a # b)
        \/ BoolOp(op, a, b) = BoolValue(a /\ b)
        \/ BoolOp(op, a, b) = BoolValue(a = b)
        \/ BoolOp(op, a, b) = Error("operator does not take this type")
    BY DEF BoolOp, Binary
  <1>2. (a # b) \in BOOLEAN /\ (a /\ b) \in BOOLEAN /\ (a = b) \in BOOLEAN
    OBVIOUS
  <1>3. QED  BY <1>1, <1>2, ValueMade DEF Message

LEMMA StrOpType ==
  ASSUME NEW n \in Nat, NEW s \in Text, NEW t \in Text, NEW op \in Binary
  PROVE  StrOp(op, s, t) \in Value(n)
  <1>1. \/ StrOp(op, s, t) = StrValue(Cat(s, t))
        \/ StrOp(op, s, t) = BoolValue(s = t)
        \/ StrOp(op, s, t) = Error("operator does not take this type")
    BY DEF StrOp, Binary
  <1>2. Cat(s, t) \in Text /\ (s = t) \in BOOLEAN
    BY TextClosed
  <1>3. QED  BY <1>1, <1>2, ValueMade DEF Message

LEMMA BinaryOpType ==
  ASSUME NEW n \in Nat, NEW l \in Value(n), NEW r \in Value(n), NEW op \in Binary
  PROVE  BinaryOp(op, l, r) \in Value(n)
  <1>1. CASE l.kind # r.kind
    BY <1>1, ValueMade DEF BinaryOp, Message
  <1>2. CASE l.kind = "num" /\ r.kind = "num"
    <2>1. BinaryOp(op, l, r) = NumOp(op, l.num, r.num)
      BY <1>2 DEF BinaryOp
    <2>2. QED  BY <1>2, <2>1, ValueFields, NumOpType
  <1>3. CASE l.kind = "bool" /\ r.kind = "bool"
    <2>1. BinaryOp(op, l, r) = BoolOp(op, l.boolean, r.boolean)
      BY <1>3 DEF BinaryOp
    <2>2. QED  BY <1>3, <2>1, ValueFields, BoolOpType
  <1>4. CASE l.kind = "str" /\ r.kind = "str"
    <2>1. BinaryOp(op, l, r) = StrOp(op, l.str, r.str)
      BY <1>4 DEF BinaryOp
    <2>2. QED  BY <1>4, <2>1, ValueFields, StrOpType
  <1>5. CASE l.kind = r.kind /\ l.kind \notin {"num", "bool", "str"}
    <2>1. \/ BinaryOp(op, l, r) = BoolValue(TRUE)
          \/ BinaryOp(op, l, r) = Error("operator does not take this type")
      BY <1>5 DEF BinaryOp
    <2>2. QED  BY <2>1, ValueMade DEF Message
  <1>6. QED  BY <1>1, <1>2, <1>3, <1>4, <1>5

(* push_env makes an environment of an environment. *)
LEMMA PushType ==
  ASSUME NEW n \in Nat, NEW e \in Env(n), NEW name \in Name, NEW v \in Value(n)
  PROVE  Push(e, name, v) \in Env(n)
  BY DEF Push, Env

(* The operands of a tree of the program are trees of the program. *)
LEMMA OperandType ==
  ASSUME NEW e \in Expr, e.kind \in Compound
  PROVE  /\ FirstOperand(e) \in Expr
         /\ e.kind \in Binary \cup {"call"} => SecondOperand(e) \in Expr
  BY ExprWellFormed DEF WellFormed, FirstOperand, SecondOperand, Compound, Binary
-----------------------------------------------------------------------------
(* Frames *)

LEMMA PopType ==
  ASSUME NEW S, NEW s \in Seq(S), s # << >>
  PROVE  /\ s[Len(s)] \in S
         /\ SubSeq(s, 1, Len(s) - 1) \in Seq(S)
         /\ \A i \in 1..(Len(s) - 1) : SubSeq(s, 1, Len(s) - 1)[i] = s[i]
         /\ Len(SubSeq(s, 1, Len(s) - 1)) = Len(s) - 1
  <1>1. Len(s) \in Nat \ {0}
    BY EmptySeq
  <1>2. \A i \in 1..(Len(s) - 1) : s[i] \in S
    BY <1>1, ElementOfSeq
  <1>3. s[Len(s)] \in S
    BY <1>1, ElementOfSeq
  <1> DEFINE m == Len(s) - 1
  <1>4. m \in Int /\ m >= 0 /\ m - 1 + 1 = m /\ \A i \in 1..m : 1 + i - 1 = i
    BY <1>1
  <1>5. /\ SubSeq(s, 1, m) \in Seq(S)
        /\ Len(SubSeq(s, 1, m)) = IF 1 <= m THEN m - 1 + 1 ELSE 0
        /\ \A i \in 1..(m - 1 + 1) : SubSeq(s, 1, m)[i] = s[1 + i - 1]
    BY <1>2, <1>4, SubSeqProperties
  <1>6. Len(SubSeq(s, 1, m)) = m
    BY <1>4, <1>5
  <1>7. \A i \in 1..m : SubSeq(s, 1, m)[i] = s[i]
    BY <1>4, <1>5
  <1>8. QED  BY <1>3, <1>5, <1>6, <1>7

LEMMA BindingFields ==
  ASSUME NEW n \in Nat, NEW e \in Env(n), NEW i \in 1..Len(e)
  PROVE  e[i].name \in Name /\ e[i].value \in Value(n)
  <1>1. e[i] \in [name : Name, value : Value(n)]
    BY ElementOfSeq DEF Env
  <1>2. QED  BY <1>1

LEMMA ClosureFields ==
  ASSUME NEW n \in Nat, NEW fs \in Seq(Closure(n)), NEW a \in 1..Len(fs)
  PROVE  fs[a].param \in Name /\ fs[a].expr \in Expr /\ fs[a].env \in Env(n)
  <1>1. fs[a] \in Closure(n)
    BY ElementOfSeq
  <1>2. QED  BY <1>1 DEF Closure

LEMMA FrameFields ==
  ASSUME NEW n \in Nat, NEW f \in Frame(n)
  PROVE  f.env \in Env(n) /\ f.expr \in Expr /\ f.got \in Seq(Value(n))
  BY DEF Frame

LEMMA CallOnType ==
  ASSUME NEW n \in Nat, NEW below \in Seq(Frame(n)), NEW e \in Env(n),
         NEW caller \in Expr, NEW got \in Seq(Value(n)), NEW x \in Expr,
         CallOn(below, e, caller, got, x)
  PROVE  stack' \in Seq(Frame(n)) /\ env' \in Env(n) /\ expr' \in Expr /\ mode' = "eval"
  BY DEF CallOn, Goto, Frame

\* A toplevel has the fields its kind calls for.
LEMMA ToplevelFields ==
  ASSUME NEW p \in Programs, NEW i \in 1..Len(p)
  PROVE  /\ p \in Seq(Toplevel)
         /\ p[i].kind # "error" => p[i].expr \in Expr
         /\ p[i].kind \in {"let", "letrec"} => p[i].name \in Name
         /\ p[i].kind \in {"expr", "let", "letrec", "error"}
  <1>1. p \in Seq(Toplevel) /\ p[i] \in Toplevel
    BY ProgramsWellFormed
  <1>2. QED  BY <1>1 DEF Toplevel
-----------------------------------------------------------------------------
(* Types *)

LEMMA TypeInit == Init => TypeOK
  <1> SUFFICES ASSUME Init PROVE TypeOK
    OBVIOUS
  <1>1. prog \in Programs /\ pos = 0 /\ Len(prog) \in Nat
    BY ProgramsWellFormed DEF Init
  <1>2. \A S : << >> \in Seq(S)
    OBVIOUS
  <1>3. QED
    BY <1>1, <1>2, ValueMade DEF Init, TypeOK, Env

\* What an activation that is resumed knows.
LEMMA ResumedTypes ==
  ASSUME TypeOK, Resumed
  PROVE  /\ Len(funs) \in Nat /\ pos < Len(prog)
         /\ Top \in Frame(Len(funs))
         /\ Top.env \in Env(Len(funs)) /\ Top.expr \in Expr
         /\ Top.got \in Seq(Value(Len(funs)))
         /\ Pop \in Seq(Frame(Len(funs)))
  <1>1. Len(funs) \in Nat
    BY DEF TypeOK
  <1>2. Top \in Frame(Len(funs)) /\ Pop \in Seq(Frame(Len(funs)))
    BY PopType DEF TypeOK, Resumed, Top, Pop
  <1>3. QED  BY <1>1, <1>2, FrameFields DEF TypeOK, Resumed

\* What the machine holds is still of its type when there are m closures.
HeapGrown(m) ==
  /\ genv \in Env(m) /\ env \in Env(m)
  /\ stack \in Seq(Frame(m))
  /\ funs' \in Seq(Closure(m))
  /\ out \in Seq(Value(m) \cup {[kind |-> "fun"]})

LEMMA HeapGrows ==
  ASSUME TypeOK, NEW m \in Nat, Len(funs) <= m, funs' \in Seq(Closure(Len(funs)))
  PROVE  HeapGrown(m)
  <1> DEFINE n == Len(funs)
  <1>1. n \in Nat
    BY DEF TypeOK
  <1>2. Value(n) \cup {[kind |-> "fun"]} \subseteq Value(m) \cup {[kind |-> "fun"]}
    BY <1>1, ValueGrows
  <1>3. Seq(Value(n) \cup {[kind |-> "fun"]}) \subseteq Seq(Value(m) \cup {[kind |-> "fun"]})
    BY <1>2, SeqGrows
  <1>4. Seq(Frame(n)) \subseteq Seq(Frame(m)) /\ Seq(Closure(n)) \subseteq Seq(Closure(m))
    BY <1>1, SeqGrows, FrameGrows, ClosureGrows
  <1>5. Env(n) \subseteq Env(m)
    BY <1>1, EnvGrows
  <1>6. QED  BY <1>3, <1>4, <1>5 DEF HeapGrown, TypeOK

\* let rec keeps the closures closures.
LEMMA PatchType ==
  ASSUME NEW n \in Nat, funs \in Seq(Closure(n)), n = Len(funs),
         NEW a \in 1..n, NEW name \in Name
  PROVE  /\ Patch(a, name) \in Seq(Closure(n))
         /\ Len(Patch(a, name)) = n
  <1>1. funs[a] \in Closure(n)
    BY ElementOfSeq
  <1>2. Push(funs[a].env, name, FunValue(a)) \in Env(n)
    BY <1>1, PushType, ValueMade DEF Closure
  <1> DEFINE new == [funs[a] EXCEPT !.env = Push(@, name, FunValue(a))]
  <1>3. new \in Closure(n)
    BY <1>1, <1>2 DEF Closure
  <1>4. Patch(a, name) = [funs EXCEPT ![a] = new]
    BY DEF Patch
  <1>5. QED  BY <1>3, <1>4, ExceptSeq

LEMMA TypeStep == TypeOK /\ [Next]_vars => TypeOK'
  <1> SUFFICES ASSUME TypeOK, [Next]_vars PROVE TypeOK'
    OBVIOUS
  <1> DEFINE n == Len(funs)
  <1>0. /\ n \in Nat /\ genv \in Env(n) /\ env \in Env(n) /\ val \in Value(n)
        /\ stack \in Seq(Frame(n)) /\ funs \in Seq(Closure(n))
    BY DEF TypeOK
  <1>1. CASE Literal
    <2>1. /\ expr.kind = "num" => expr.num \in Num
          /\ expr.kind = "str" => expr.str \in Text
          /\ expr.kind = "bool" => expr.boolean \in BOOLEAN
      BY <1>1, ExprWellFormed DEF Literal, TypeOK, WellFormed
    <2>2. "invalid expression" \in Message
      BY DEF Message
    <2>3. val' \in Value(n)
      BY <1>0, <1>1, <2>1, <2>2, ValueMade DEF Literal, Return
    <2>4. QED  BY <1>1, <2>3 DEF Literal, Return, TypeOK
  <1>2. CASE Variable
    <2>1. \A i \in 1..Len(env) : env[i].value \in Value(n)
      BY <1>0, BindingFields
    <2>2. Error("unknown binding") \in Value(n)
      BY <1>0, ValueMade DEF Message
    <2>3. val' \in Value(n)
      BY <1>2, <2>1, <2>2 DEF Variable, Return
    <2>4. QED  BY <1>2, <2>3 DEF Variable, Return, TypeOK
  <1>3. CASE Function
    <2>1. expr.param \in Name /\ expr.body \in Expr
      BY <1>3, ExprWellFormed DEF Function, TypeOK, WellFormed
    <2> DEFINE new == [param |-> expr.param, expr |-> expr.body, env |-> env]
    <2>2. new \in Closure(n)
      BY <1>0, <2>1 DEF Closure
    <2>3. funs' = Append(funs, new) /\ Len(funs') = n + 1 /\ n + 1 \in Nat
      BY <1>0, <1>3 DEF Function
    <2>4. funs' \in Seq(Closure(n))
      BY <1>0, <2>2, <2>3
    <2>5. HeapGrown(n + 1)
      BY <1>0, <2>3, <2>4, HeapGrows
    <2>6. val' = FunValue(n + 1) /\ val' \in Value(n + 1)
      BY <1>0, <1>3, <2>3, ValueMade DEF Function, Return
    <2>7. QED  BY <1>3, <2>3, <2>5, <2>6 DEF Function, Return, TypeOK, HeapGrown
  <1>4. CASE Descend
    <2>1. stack' \in Seq(Frame(n)) /\ env' \in Env(n) /\ expr' \in Expr /\ mode' = "eval"
      BY <1>0, <1>4, OperandType, CallOnType, EmptySeq DEF Descend, TypeOK
    <2>2. QED  BY <1>4, <2>1 DEF Descend, TypeOK
  <1>5. CASE Bubble
    BY <1>5, ResumedTypes DEF Bubble, TypeOK
  <1>6. CASE NextOperand
    <2>1. <<val>> \in Seq(Value(n))
      BY <1>0
    <2>2. stack' \in Seq(Frame(n)) /\ env' \in Env(n) /\ expr' \in Expr /\ mode' = "eval"
      BY <1>0, <1>6, <2>1, ResumedTypes, OperandType, CallOnType DEF NextOperand, Compound
    <2>3. QED  BY <1>6, <2>2, ResumedTypes DEF NextOperand, TypeOK
  <1>7. CASE Operator
    <2>1. val' \in Value(n)
      <3>1. CASE Top.expr.kind = "neg" /\ Return(Negate(val))
        BY <1>0, <3>1, NegateType DEF Return
      <3>2. CASE Top.expr.kind \in Binary /\ Top.got # << >> /\ Return(BinaryOp(Top.expr.kind, Top.got[1], val))
        <4>1. Top.got[1] \in Value(n)
          BY <1>7, <3>2, ResumedTypes DEF Operator
        <4>2. QED  BY <1>0, <3>2, <4>1, BinaryOpType DEF Return
      <3>3. QED  BY <1>7, <3>1, <3>2 DEF Operator
    <2>2. QED  BY <1>7, <2>1, ResumedTypes DEF Operator, Return, TypeOK
  <1>8. CASE Call
    <2> DEFINE callee == Top.got[1]
               f == funs[callee.fun]
    <2>1. callee \in Value(n)
      <3>1. Top.got \in Seq(Value(n)) /\ Top.got # << >>
        BY <1>8, ResumedTypes DEF Call
      <3>2. 1 \in 1..Len(Top.got)
        BY <3>1, EmptySeq
      <3>3. QED  BY <3>1, <3>2, ElementOfSeq
    <2>2. CASE callee.kind = "fun"
      <3>1. callee.fun \in 1..n
        BY <1>0, <2>1, <2>2, ValueFields
      <3>2. f.param \in Name /\ f.expr \in Expr /\ f.env \in Env(n)
        BY <1>0, <3>1, ClosureFields
      <3>3. Push(f.env, f.param, val) \in Env(n)
        BY <1>0, <3>2, PushType
      <3>4. QED  BY <1>8, <2>2, <3>2, <3>3, ResumedTypes DEF Call, Goto, TypeOK
    <2>3. CASE callee.kind # "fun"
      BY <1>0, <1>8, <2>3, ResumedTypes, ValueMade DEF Call, Return, TypeOK, Message
    <2>4. QED  BY <2>2, <2>3
  <1>9. CASE Let
    <2>1. Top.expr.name \in Name /\ Top.expr.body \in Expr
      BY <1>9, ResumedTypes, ExprWellFormed DEF Let, WellFormed
    <2>2. env' \in Env(n) /\ expr' \in Expr /\ mode' = "eval"
      BY <1>0, <1>9, <2>1, ResumedTypes, PushType DEF Let, Goto
    <2>3. QED  BY <1>9, <2>2, ResumedTypes DEF Let, TypeOK
  <1>10. CASE LetRec
    <2>1. Top.expr.name \in Name /\ Top.expr.body \in Expr
      BY <1>10, ResumedTypes, ExprWellFormed DEF LetRec, WellFormed
    <2>2. CASE val.kind = "fun"
      <3>1. val.fun \in 1..n
        BY <1>0, <2>2, ValueFields
      <3>2. funs' \in Seq(Closure(n)) /\ Len(funs') = n
        BY <1>0, <1>10, <2>1, <2>2, <3>1, PatchType DEF LetRec
      <3>3. env' \in Env(n) /\ expr' \in Expr /\ mode' = "eval"
        BY <1>0, <1>10, <2>1, <2>2, ResumedTypes, PushType DEF LetRec, Goto
      <3>4. QED  BY <1>10, <2>2, <3>2, <3>3, ResumedTypes DEF LetRec, TypeOK
    <2>3. CASE val.kind # "fun"
      BY <1>0, <1>10, <2>3, ResumedTypes, ValueMade DEF LetRec, Return, TypeOK, Message
    <2>4. QED  BY <2>2, <2>3
  <1>11. CASE If
    <2>1. Top.expr.then \in Expr /\ Top.expr.else \in Expr
      BY <1>11, ResumedTypes, ExprWellFormed DEF If, WellFormed
    <2>2. CASE val.kind = "bool"
      BY <1>11, <2>1, <2>2, ResumedTypes DEF If, Goto, TypeOK
    <2>3. CASE val.kind # "bool"
      BY <1>0, <1>11, <2>3, ResumedTypes, ValueMade DEF If, Return, TypeOK, Message
    <2>4. QED  BY <2>2, <2>3
  <1>12. CASE Begin
    <2>1. CASE Current.kind # "error"
      <3>1. Current.expr \in Expr
        BY <1>12, <2>1, ToplevelFields DEF Begin, Current, TypeOK
      <3>2. QED  BY <1>0, <1>12, <2>1, <3>1 DEF Begin, Goto, TypeOK
    <2>2. CASE Current.kind = "error"
      BY <1>12, <2>2, ProgramsWellFormed DEF Begin, TypeOK
    <2>3. QED  BY <2>1, <2>2
  <1>13. CASE WalkExpr
    <2>1. Shown(val) \in Value(n) \cup {[kind |-> "fun"]}
      BY <1>0 DEF Shown
    <2>2. out' \in Seq(Value(n) \cup {[kind |-> "fun"]})
      BY <1>13, <2>1 DEF WalkExpr, TypeOK
    <2>3. pos' \in 0..Len(prog)
      BY <1>13 DEF WalkExpr, Walked, TypeOK
    <2>4. QED  BY <1>13, <2>2, <2>3 DEF WalkExpr, Walked, TypeOK
  <1>14. CASE WalkLet
    <2>1. Current.name \in Name
      BY <1>14, ToplevelFields DEF WalkLet, Walked, Current, TypeOK
    <2>2. genv' \in Env(n)
      BY <1>0, <1>14, <2>1, PushType DEF WalkLet
    <2>3. QED  BY <1>14, <2>2 DEF WalkLet, Walked, TypeOK
  <1>15. CASE WalkLetRec
    <2>1. Current.name \in Name
      BY <1>15, ToplevelFields DEF WalkLetRec, Walked, Current, TypeOK
    <2>2. genv' \in Env(n)
      BY <1>0, <1>15, <2>1, PushType DEF WalkLetRec
    <2>3. funs' \in Seq(Closure(n)) /\ Len(funs') = n
      BY <1>0, <1>15, <2>1, ValueFields, PatchType DEF WalkLetRec
    <2>4. QED  BY <1>15, <2>2, <2>3 DEF WalkLetRec, Walked, TypeOK
  <1>16. CASE UNCHANGED vars
    BY <1>16 DEF vars, TypeOK
  <1>17. QED
    BY <1>1, <1>2, <1>3, <1>4, <1>5, <1>6, <1>7, <1>8, <1>9, <1>10, <1>11,
       <1>12, <1>13, <1>14, <1>15, <1>16 DEF Next, EvalStep, Exited

(* Whatever program runs, every pointer to a closure that the evaluator      *)
(* holds points to an allocated closure, and eval_expr is only ever at a tree *)
(* of the program (eval_expr, walk_file).                                     *)
THEOREM TypeCorrect == Spec => []TypeOK
  BY TypeInit, TypeStep, PTL DEF Spec
-----------------------------------------------------------------------------
(* A function made for a let rec is nobody's before the let rec has tied it *)

\* What is being evaluated for the activation below the k-th: for k = 0, for the
\* toplevel.
Evaluated(k) == IF k < Len(stack) THEN stack[k + 1].expr ELSE expr

\* The k-th activation (k = 0: the toplevel) is a let rec that waits for a maker.
WaitsForMaker(k) ==
  IF k = 0 THEN Current.kind = "letrec" /\ Current.expr \in Maker
  ELSE stack[k].expr.kind = "letrec" /\ stack[k].expr.expr \in Maker

\* While a let rec waits for a maker, eval_expr is at a maker on its behalf,
\* wherever the gotos have led it; and the function it gets is nobody's.
Making ==
  /\ mode = "top" => stack = << >>
  /\ mode # "top" =>
       \A k \in 0..Len(stack) :
         WaitsForMaker(k) /\ (mode = "return" => k < Len(stack)) => Evaluated(k) \in Maker
  /\ mode = "return" /\ WaitsForMaker(Len(stack)) /\ val.kind = "fun" => ~Held(val.fun)

LEMMA MakingInit == Init => Making
  BY DEF Init, Making

\* Nothing refers to an address beyond the heap.
LEMMA NewIsNotReferred ==
  ASSUME NEW n \in Nat, NEW e \in Env(n)
  PROVE  ~Refers(e, n + 1)
  <1> SUFFICES ASSUME NEW i \in 1..Len(e), e[i].value = FunValue(n + 1) PROVE FALSE
    BY DEF Refers
  <1>1. FunValue(n + 1) \in Value(n) /\ FunValue(n + 1).kind = "fun" /\ FunValue(n + 1).fun = n + 1
    BY BindingFields DEF FunValue
  <1>2. n + 1 \in 1..n
    BY <1>1, ValueFields
  <1>3. QED  BY <1>2

\* A closure that has just been made is held by nobody.
LEMMA NewIsNotHeld ==
  ASSUME TypeOK, Function
  PROVE  ~Held(val.fun)'
  <1> DEFINE n == Len(funs)
             new == [param |-> expr.param, expr |-> expr.body, env |-> env]
  <1>0. /\ n \in Nat /\ genv \in Env(n) /\ env \in Env(n)
        /\ stack \in Seq(Frame(n)) /\ funs \in Seq(Closure(n))
    BY DEF TypeOK
  <1>1. ~Refers(genv, n + 1)
    BY <1>0, NewIsNotReferred
  <1>2. ASSUME NEW k \in 1..Len(stack)
        PROVE  /\ ~Refers(stack[k].env, n + 1)
               /\ \A j \in 1..Len(stack[k].got) : stack[k].got[j] # FunValue(n + 1)
    <2>1. stack[k].env \in Env(n) /\ stack[k].got \in Seq(Value(n))
      BY <1>0, ElementOfSeq, FrameFields
    <2>2. ASSUME NEW j \in 1..Len(stack[k].got) PROVE stack[k].got[j] # FunValue(n + 1)
      <3>1. stack[k].got[j] \in Value(n)
        BY <2>1, ElementOfSeq
      <3>2. FunValue(n + 1).kind = "fun" /\ FunValue(n + 1).fun = n + 1
        BY DEF FunValue
      <3>3. n + 1 \notin 1..n
        BY <1>0
      <3>4. QED  BY <1>0, <3>1, <3>2, <3>3, ValueFields
    <2>3. QED  BY <1>0, <2>1, <2>2, NewIsNotReferred
  <1>3. ASSUME NEW i \in 1..Len(funs') PROVE ~Refers(funs'[i].env, n + 1)
    <2>1. funs' = Append(funs, new)
      BY DEF Function
    <2>2. CASE i \in 1..n
      <3>1. funs'[i] = funs[i] /\ funs[i].env \in Env(n)
        BY <1>0, <2>1, <2>2, ClosureFields
      <3>2. QED  BY <1>0, <3>1, NewIsNotReferred
    <2>3. CASE i \notin 1..n
      <3>1. i = n + 1 /\ funs'[i] = new
        BY <1>0, <2>1, <2>3
      <3>2. QED  BY <1>0, <3>1, NewIsNotReferred
    <2>4. QED  BY <2>2, <2>3
  <1>4. genv' = genv /\ stack' = stack /\ val'.fun = n + 1
    BY DEF Function, Return, FunValue
  <1>5. QED  BY <1>1, <1>2, <1>3, <1>4 DEF Held, Refers

\* What the evaluator constructs is of its kind.
LEMMA KindsMade ==
  /\ Unit.kind = "unit"
  /\ \A x : /\ NumValue(x).kind = "num" /\ StrValue(x).kind = "str"
           /\ BoolValue(x).kind = "bool" /\ Error(x).kind = "error"
  BY DEF Unit, NumValue, StrValue, BoolValue, Error

\* The value of an operator, a literal or a failure is no function.
LEMMA NoFunction ==
  ASSUME NEW n \in Nat, NEW l \in Value(n), NEW r \in Value(n), NEW op \in Binary
  PROVE  Negate(r).kind # "fun" /\ BinaryOp(op, l, r).kind # "fun"
  <1>1. Negate(r).kind # "fun"
    BY DEF Negate, NumValue, Error
  <1>2. \A a, b : NumOp(op, a, b).kind # "fun" /\ BoolOp(op, a, b).kind # "fun" /\ StrOp(op, a, b).kind # "fun"
    BY DEF NumOp, BoolOp, StrOp, NumValue, BoolValue, StrValue, Error, Binary
  <1>3. QED  BY <1>1, <1>2 DEF BinaryOp, BoolValue, Error

\* An activation that ends returns no function of its own; those below wait for
\* what they waited for.
LEMMA PopReturns ==
  ASSUME TypeOK, Making, Resumed, stack' = Pop, mode' = "return", val'.kind # "fun",
         prog' = prog, pos' = pos
  PROVE  Making'
  <1>1. stack \in Seq(Frame(Len(funs))) /\ stack # << >>
    BY DEF TypeOK, Resumed
  <1>2. Len(Pop) = Len(stack) - 1 /\ \A k \in 1..Len(Pop) : Pop[k] = stack[k]
    BY <1>1, PopType DEF Pop
  <1>3. Len(stack) \in Nat /\ Len(stack) > 0
    BY <1>1, EmptySeq
  <1>4. ASSUME NEW k \in 0..Len(stack'), WaitsForMaker(k)', k < Len(stack')
        PROVE  Evaluated(k)' \in Maker
    <2>1. k \in 0..Len(stack) /\ k < Len(stack) /\ WaitsForMaker(k)
      BY <1>2, <1>3, <1>4 DEF WaitsForMaker, Current
    <2>2. Evaluated(k) \in Maker
      BY <2>1 DEF Making, Resumed
    <2>3. Evaluated(k)' = Evaluated(k)
      BY <1>2, <1>3, <1>4, <2>1 DEF Evaluated
    <2>4. QED  BY <2>2, <2>3
  <1>5. QED  BY <1>4 DEF Making

\* An activation that goes on with x does so as a maker if it was one.
LEMMA PopGoesOn ==
  ASSUME TypeOK, Making, Resumed, stack' = Pop, mode' = "eval",
         Top.expr \in Maker => expr' \in Maker,
         prog' = prog, pos' = pos
  PROVE  Making'
  <1>1. stack \in Seq(Frame(Len(funs))) /\ stack # << >>
    BY DEF TypeOK, Resumed
  <1>2. Len(Pop) = Len(stack) - 1 /\ \A k \in 1..Len(Pop) : Pop[k] = stack[k]
    BY <1>1, PopType DEF Pop
  <1>3. Len(stack) \in Nat /\ Len(stack) > 0
    BY <1>1, EmptySeq
  <1>4. ASSUME NEW k \in 0..Len(stack'), WaitsForMaker(k)'
        PROVE  Evaluated(k)' \in Maker
    <2>1. k \in 0..Len(stack) /\ k < Len(stack) /\ WaitsForMaker(k)
      BY <1>2, <1>3, <1>4 DEF WaitsForMaker, Current
    <2>2. Evaluated(k) \in Maker
      BY <2>1 DEF Making, Resumed
    <2>3. CASE k < Len(stack')
      <3>1. Evaluated(k)' = Evaluated(k)
        BY <1>2, <1>3, <2>1, <2>3 DEF Evaluated
      <3>2. QED  BY <2>2, <3>1
    <2>4. CASE ~(k < Len(stack'))
      <3>1. k + 1 = Len(stack)
        BY <1>2, <1>3, <2>1, <2>4
      <3>2. Evaluated(k) = Top.expr /\ Evaluated(k)' = expr'
        BY <2>1, <2>4, <3>1 DEF Evaluated, Top
      <3>3. QED  BY <2>2, <3>2
    <2>5. QED  BY <2>3, <2>4
  <1>5. QED  BY <1>4 DEF Making

\* A recursive call on x suspends a maker, or an activation nobody below waits for.
LEMMA CallOnWaits ==
  ASSUME TypeOK, Making, NEW below \in Seq(Frame(Len(funs))),
         NEW e, NEW caller, NEW got, NEW x, CallOn(below, e, caller, got, x),
         mode # "top", prog' = prog, pos' = pos,
         caller.kind = "letrec" /\ caller.expr \in Maker => x \in Maker,
         Len(below) \in 0..Len(stack),
         \A k \in 1..Len(below) : below[k] = stack[k],
         Evaluated(Len(below)) = caller,
         Len(below) = Len(stack) => mode = "eval"
  PROVE  Making'
  <1> DEFINE new == [env |-> e, expr |-> caller, got |-> got]
             n == Len(below)
  <1>1. stack' = Append(below, new) /\ expr' = x /\ mode' = "eval"
    BY DEF CallOn, Goto
  <1>2. n \in Nat /\ Len(stack') = n + 1 /\ stack'[n + 1] = new
    BY <1>1
  <1>3. \A k \in 1..n : stack'[k] = stack[k]
    BY <1>1
  <1>4. ASSUME NEW k \in 0..Len(stack'), WaitsForMaker(k)'
        PROVE  Evaluated(k)' \in Maker
    <2>1. CASE k = n + 1
      <3>1. caller.kind = "letrec" /\ caller.expr \in Maker
        BY <1>2, <1>4, <2>1 DEF WaitsForMaker
      <3>2. Evaluated(k)' = x
        BY <1>1, <1>2, <2>1 DEF Evaluated
      <3>3. QED  BY <3>1, <3>2
    <2>2. CASE k # n + 1
      <3>1. k \in 0..n /\ k \in 0..Len(stack)
        BY <1>2, <2>2
      <3>2. WaitsForMaker(k)
        BY <1>3, <1>4, <3>1 DEF WaitsForMaker, Current
      <3>3. mode = "return" => k < Len(stack)
        BY <3>1
      <3>4. Evaluated(k) \in Maker
        BY <3>1, <3>2, <3>3 DEF Making
      <3>5. Evaluated(k)' = stack'[k + 1].expr
        BY <1>2, <3>1 DEF Evaluated
      <3>6. CASE k = n
        BY <1>2, <3>4, <3>5, <3>6
      <3>7. CASE k # n
        <4>1. k + 1 \in 1..n /\ k < Len(stack)
          BY <1>2, <3>1, <3>7
        <4>2. stack'[k + 1].expr = Evaluated(k)
          BY <1>3, <4>1 DEF Evaluated
        <4>3. QED  BY <3>4, <3>5, <4>2
      <3>8. QED  BY <3>6, <3>7
    <2>3. QED  BY <2>1, <2>2
  <1>5. QED  BY <1>1, <1>4 DEF Making

\* An activation that returns at once; what it returns is nobody's if it is a
\* function that a let rec waits for.
LEMMA ReturnsAtOnce ==
  ASSUME TypeOK, Making, mode = "eval", mode' = "return",
         stack' = stack, prog' = prog, pos' = pos, expr' = expr,
         expr \in Maker /\ val'.kind = "fun" => ~Held(val.fun)'
  PROVE  Making'
  <1>1. Len(stack) \in Nat
    BY DEF TypeOK
  <1>2. ASSUME NEW k \in 0..Len(stack) PROVE WaitsForMaker(k)' = WaitsForMaker(k) /\ Evaluated(k)' = Evaluated(k)
    BY DEF WaitsForMaker, Evaluated, Current
  <1>3. Evaluated(Len(stack)) = expr
    BY <1>1 DEF Evaluated
  <1>4. Len(stack) \in 0..Len(stack)
    BY <1>1
  <1>5. WaitsForMaker(Len(stack)) => expr \in Maker
    BY <1>3, <1>4 DEF Making
  <1>6. WaitsForMaker(Len(stack))' /\ val'.kind = "fun" => ~Held(val.fun)'
    BY <1>2, <1>4, <1>5
  <1>7. QED  BY <1>2, <1>6 DEF Making

LEMMA MakingStep == TypeOK /\ Making /\ [Next]_vars => Making'
  <1> SUFFICES ASSUME TypeOK, Making, [Next]_vars PROVE Making'
    OBVIOUS
  <1> DEFINE n == Len(funs)
  <1>0. /\ n \in Nat /\ val \in Value(n) /\ stack \in Seq(Frame(n))
        /\ Len(stack) \in Nat
    BY DEF TypeOK
  <1>1. CASE Literal
    <2>1. val'.kind # "fun"
      BY <1>1, KindsMade DEF Literal, Return
    <2>2. QED  BY <1>1, <2>1, ReturnsAtOnce DEF Literal, Return
  <1>2. CASE Variable
    <2>1. expr \notin Maker
      BY <1>2, MakersMake DEF Variable
    <2>2. QED  BY <1>2, <2>1, ReturnsAtOnce DEF Variable, Return
  <1>3. CASE Function
    BY <1>3, NewIsNotHeld, ReturnsAtOnce DEF Function, Return
  <1>4. CASE Descend
    <2>1. CallOn(stack, env, expr, << >>, FirstOperand(expr))
      BY <1>4 DEF Descend
    <2>2. expr.kind = "letrec" => FirstOperand(expr) = expr.expr
      BY DEF FirstOperand, Binary
    <2>3. Evaluated(Len(stack)) = expr
      BY <1>0 DEF Evaluated
    <2>4. QED  BY <1>0, <1>4, <2>1, <2>2, <2>3, CallOnWaits DEF Descend
  <1>5. CASE Bubble
    BY <1>5, PopReturns DEF Bubble, Resumed
  <1>6. CASE NextOperand
    <2>1. CallOn(Pop, Top.env, Top.expr, <<val>>, SecondOperand(Top.expr))
      BY <1>6 DEF NextOperand
    <2>2. Pop \in Seq(Frame(n)) /\ Resumed
      BY <1>6, ResumedTypes DEF NextOperand
    <2>3. Len(stack) > 0
      BY <1>0, <2>2, EmptySeq DEF Resumed
    <2>4. Len(Pop) = Len(stack) - 1 /\ \A k \in 1..Len(Pop) : Pop[k] = stack[k]
      BY <1>0, <2>2, PopType DEF Pop, Resumed
    <2>5. Evaluated(Len(Pop)) = Top.expr
      BY <1>0, <2>3, <2>4 DEF Evaluated, Top
    <2>6. Top.expr.kind # "letrec"
      BY <1>6 DEF NextOperand, Binary
    <2>7. Len(Pop) \in 0..Len(stack) /\ Len(Pop) # Len(stack)
      BY <1>0, <2>3, <2>4
    <2>8. QED
      BY <1>6, <2>1, <2>2, <2>4, <2>5, <2>6, <2>7, CallOnWaits DEF NextOperand, Resumed
  <1>7. CASE Operator
    <2>1. CASE Top.expr.kind = "neg"
      <3>1. val' = Negate(val)
        BY <1>7, <2>1 DEF Operator, Return, Binary
      <3>2. val'.kind # "fun"
        BY <1>0, <3>1, NoFunction DEF Binary
      <3>3. QED  BY <1>7, <3>2, PopReturns DEF Operator, Return
    <2>2. CASE Top.expr.kind # "neg"
      <3>1. Top.expr.kind \in Binary /\ Top.got # << >> /\ val' = BinaryOp(Top.expr.kind, Top.got[1], val)
        BY <1>7, <2>2 DEF Operator, Return
      <3>2. Top.got[1] \in Value(n)
        BY <1>7, <3>1, ResumedTypes, EmptySeq, ElementOfSeq DEF Operator
      <3>3. val'.kind # "fun"
        BY <1>0, <3>1, <3>2, NoFunction
      <3>4. QED  BY <1>7, <3>3, PopReturns DEF Operator, Return
    <2>3. QED  BY <2>1, <2>2
  <1>8. CASE Call
    <2>1. Top.expr \notin Maker
      BY <1>8, MakersMake DEF Call
    <2>2. CASE Top.got[1].kind = "fun"
      BY <1>8, <2>1, <2>2, PopGoesOn DEF Call, Goto
    <2>3. CASE Top.got[1].kind # "fun"
      <3>1. val'.kind # "fun"
        BY <1>8, <2>3, KindsMade DEF Call, Return
      <3>2. QED  BY <1>8, <2>3, <3>1, PopReturns DEF Call, Return
    <2>4. QED  BY <2>2, <2>3
  <1>9. CASE Let
    <2>1. Top.expr \in Maker => Top.expr.body \in Maker
      BY <1>9, MakersMake DEF Let
    <2>2. QED  BY <1>9, <2>1, PopGoesOn DEF Let, Goto
  <1>10. CASE LetRec
    <2>1. Top.expr \in Maker => Top.expr.body \in Maker
      BY <1>10, MakersMake DEF LetRec
    <2>2. CASE val.kind = "fun"
      BY <1>10, <2>1, <2>2, PopGoesOn DEF LetRec, Goto
    <2>3. CASE val.kind # "fun"
      <3>1. val'.kind # "fun"
        BY <1>10, <2>3, KindsMade DEF LetRec, Return
      <3>2. QED  BY <1>10, <2>3, <3>1, PopReturns DEF LetRec, Return
    <2>4. QED  BY <2>2, <2>3
  <1>11. CASE If
    <2>1. Top.expr \in Maker => Top.expr.then \in Maker /\ Top.expr.else \in Maker
      BY <1>11, MakersMake DEF If
    <2>2. CASE val.kind = "bool"
      BY <1>11, <2>1, <2>2, PopGoesOn DEF If, Goto
    <2>3. CASE val.kind # "bool"
      <3>1. val'.kind # "fun"
        BY <1>11, <2>3, KindsMade DEF If, Return
      <3>2. QED  BY <1>11, <2>3, <3>1, PopReturns DEF If, Return
    <2>4. QED  BY <2>2, <2>3
  <1>12. CASE Begin
    <2>1. stack = << >> /\ stack' = << >>
      BY <1>12 DEF Begin, Making
    <2>2. CASE Current.kind # "error"
      <3>1. mode' = "eval" /\ expr' = Current.expr /\ Current' = Current
        BY <1>12, <2>2 DEF Begin, Goto, Current
      <3>2. \A k \in 0..Len(stack') : WaitsForMaker(k)' => Evaluated(k)' \in Maker
        BY <2>1, <3>1 DEF WaitsForMaker, Evaluated
      <3>3. QED  BY <3>1, <3>2 DEF Making
    <2>3. CASE Current.kind = "error"
      BY <1>12, <2>1, <2>3 DEF Begin, Making
    <2>4. QED  BY <2>2, <2>3
  <1>13. CASE WalkExpr
    BY <1>13 DEF WalkExpr, Walked, Making
  <1>14. CASE WalkLet
    BY <1>14 DEF WalkLet, Walked, Making
  <1>15. CASE WalkLetRec
    BY <1>15 DEF WalkLetRec, Walked, Making
  <1>16. CASE UNCHANGED vars
    BY <1>16 DEF vars, Making, WaitsForMaker, Evaluated, Current, Held, Refers
  <1>17. QED
    BY <1>1, <1>2, <1>3, <1>4, <1>5, <1>6, <1>7, <1>8, <1>9, <1>10, <1>11,
       <1>12, <1>13, <1>14, <1>15, <1>16 DEF Next, EvalStep, Exited

(* Only a let rec rewrites a closure (eval.c:78, 222), and when its expression *)
(* makes the function, through whatever lets, branches and inner let recs,     *)
(* nothing in the interpreter refers to the closure yet: for every set Maker   *)
(* that is closed under the gotos of eval_expr.                                *)
THEOREM MadeFunctionsAreTiedUnseen == Spec => MadeFunctionsTiedUnseen
  <1> DEFINE Tied(a) ==
        funs'[a] # funs[a] =>
          /\ Receiver.kind = "letrec"
          /\ Receiver.expr \in Maker => ~Held(a)
  <1>1. TypeOK /\ Making /\ [Next]_vars => [\A a \in 1..Len(funs) : Tied(a)]_vars
    <2> SUFFICES ASSUME TypeOK, Making, [Next]_vars, NEW a \in 1..Len(funs) PROVE Tied(a)
      OBVIOUS
    <2>0. /\ funs \in Seq(Closure(Len(funs))) /\ Len(funs) \in Nat /\ val \in Value(Len(funs))
          /\ stack \in Seq(Frame(Len(funs))) /\ Len(stack) \in Nat
      BY DEF TypeOK
    <2>1. CASE Function
      BY <2>0, <2>1 DEF Function
    <2>2. CASE LetRec
      <3>1. stack # << >> /\ Len(stack) # 0 /\ Receiver = Top.expr /\ Receiver.kind = "letrec" /\ mode = "return"
        BY <2>0, <2>2, EmptySeq DEF LetRec, Resumed, Receiver
      <3>2. Receiver.expr \in Maker => WaitsForMaker(Len(stack))
        BY <3>1 DEF WaitsForMaker, Top
      <3>3. CASE val.kind = "fun" /\ a = val.fun
        BY <3>1, <3>2, <3>3 DEF Making
      <3>4. CASE val.kind = "fun" /\ a # val.fun
        BY <2>0, <2>2, <3>4 DEF LetRec, Patch
      <3>5. CASE val.kind # "fun"
        BY <2>2, <3>5 DEF LetRec
      <3>6. QED  BY <3>3, <3>4, <3>5
    <2>3. CASE WalkLetRec
      <3>1. stack = << >> /\ Receiver = Current /\ Receiver.kind = "letrec" /\ mode = "return"
        BY <2>3 DEF WalkLetRec, Walked, Receiver
      <3>2. Receiver.expr \in Maker => WaitsForMaker(Len(stack))
        BY <3>1 DEF WaitsForMaker
      <3>3. CASE val.kind = "fun" /\ a = val.fun
        BY <3>1, <3>2, <3>3 DEF Making
      <3>4. CASE val.kind = "fun" /\ a # val.fun
        BY <2>0, <2>3, <3>4 DEF WalkLetRec, Patch
      <3>5. CASE val.kind # "fun"
        BY <2>3, <3>5 DEF WalkLetRec
      <3>6. QED  BY <3>3, <3>4, <3>5
    <2>4. CASE UNCHANGED funs
      BY <2>4
    <2>5. QED
      BY <2>1, <2>2, <2>3, <2>4
      DEF Next, EvalStep, Literal, Variable, Descend, Bubble, NextOperand, Operator,
          Call, Let, If, Begin, WalkExpr, WalkLet, Exited, vars
  <1>2. Spec => []Making
    BY MakingInit, MakingStep, TypeCorrect, PTL DEF Spec
  <1>3. QED
    BY <1>1, <1>2, TypeCorrect, PTL DEF Spec, MadeFunctionsTiedUnseen
-----------------------------------------------------------------------------
(* Errors are met again only through toplevel names *)

LEMMA PushErrors ==
  ASSUME NEW n \in Nat, NEW e \in Env(n), NEW g \in Env(n), ErrorsFrom(e, g),
         NEW name, NEW v \in Value(n), v.kind # "error"
  PROVE  ErrorsFrom(Push(e, name, v), g)
  BY DEF Push, ErrorsFrom, Env

LEMMA MoreGlobals ==
  ASSUME NEW n \in Nat, NEW e \in Env(n), NEW g \in Env(n), ErrorsFrom(e, g), NEW b
  PROVE  ErrorsFrom(e, Append(g, b))
  BY DEF ErrorsFrom, Env

LEMMA ErrorsInit == Init => ErrorsAreGlobal
  BY DEF Init, ErrorsAreGlobal, ErrorsFrom

\* The errors held by an activation that is resumed.
LEMMA ResumedErrors ==
  ASSUME TypeOK, ErrorsAreGlobal, Resumed
  PROVE  /\ ErrorsFrom(Top.env, genv)
         /\ \A j \in 1..Len(Top.got) : Top.got[j].kind # "error"
         /\ \A k \in 1..Len(Pop) :
              /\ ErrorsFrom(Pop[k].env, genv)
              /\ \A j \in 1..Len(Pop[k].got) : Pop[k].got[j].kind # "error"
  <1>1. stack \in Seq(Frame(Len(funs))) /\ stack # << >>
    BY DEF TypeOK, Resumed
  <1>2. Len(stack) \in 1..Len(stack)
    BY <1>1, EmptySeq
  <1>3. Len(Pop) = Len(stack) - 1 /\ \A k \in 1..Len(Pop) : Pop[k] = stack[k]
    BY <1>1, PopType DEF Pop
  <1>4. \A k \in 1..Len(Pop) : k \in 1..Len(stack)
    BY <1>2, <1>3
  <1>5. QED  BY <1>2, <1>3, <1>4 DEF ErrorsAreGlobal, Top

\* let rec binds a closure, which is no error.
LEMMA PatchErrors ==
  ASSUME TypeOK, ErrorsAreGlobal, NEW a \in 1..Len(funs), NEW name \in Name,
         funs' = Patch(a, name)
  PROVE  \A i \in 1..Len(funs') : ErrorsFrom(funs'[i].env, genv)
  <1> DEFINE n == Len(funs)
  <1>1. n \in Nat /\ funs \in Seq(Closure(n)) /\ genv \in Env(n)
    BY DEF TypeOK
  <1>2. funs[a].env \in Env(n) /\ FunValue(a) \in Value(n)
    BY <1>1, ClosureFields, ValueMade
  <1>3. FunValue(a).kind # "error"
    BY DEF FunValue
  <1>4. ErrorsFrom(Push(funs[a].env, name, FunValue(a)), genv)
    BY <1>1, <1>2, <1>3, PushErrors DEF ErrorsAreGlobal
  <1>5. Len(funs') = n
    BY <1>1, PatchType
  <1>6. ASSUME NEW i \in 1..n PROVE ErrorsFrom(funs'[i].env, genv)
    <2>1. CASE i = a
      <3>1. funs[a] \in Closure(n)
        BY <1>1, ElementOfSeq
      <3>2. funs'[a] = [funs[a] EXCEPT !.env = Push(@, name, FunValue(a))]
        BY <1>1 DEF Patch
      <3>3. funs'[a].env = Push(funs[a].env, name, FunValue(a))
        BY <3>1, <3>2 DEF Closure
      <3>4. QED  BY <2>1, <3>3, <1>4
    <2>2. CASE i # a
      <3>1. funs'[i] = funs[i]
        BY <1>1, <2>2 DEF Patch
      <3>2. QED  BY <3>1 DEF ErrorsAreGlobal
    <2>3. QED  BY <2>1, <2>2
  <1>7. QED  BY <1>5, <1>6

\* A recursive call suspends the activation that makes it.
LEMMA CallOnErrors ==
  ASSUME NEW n \in Nat, NEW below \in Seq(Frame(n)),
         NEW e, NEW caller, NEW got, NEW x, CallOn(below, e, caller, got, x),
         ErrorsFrom(e, genv), \A j \in 1..Len(got) : got[j].kind # "error",
         \A k \in 1..Len(below) :
           /\ ErrorsFrom(below[k].env, genv)
           /\ \A j \in 1..Len(below[k].got) : below[k].got[j].kind # "error"
  PROVE  /\ ErrorsFrom(env', genv)
         /\ \A k \in 1..Len(stack') :
              /\ ErrorsFrom(stack'[k].env, genv)
              /\ \A j \in 1..Len(stack'[k].got) : stack'[k].got[j].kind # "error"
  <1> DEFINE new == [env |-> e, expr |-> caller, got |-> got]
  <1>1. stack' = Append(below, new) /\ env' = e
    BY DEF CallOn, Goto
  <1>2. Len(stack') = Len(below) + 1 /\ stack'[Len(below) + 1] = new
    BY <1>1
  <1>3. \A k \in 1..Len(below) : stack'[k] = below[k]
    BY <1>1
  <1>4. Len(below) \in Nat
    OBVIOUS
  <1>5. new.env = e /\ new.got = got
    OBVIOUS
  <1>6. ASSUME NEW k \in 1..Len(stack')
        PROVE  /\ ErrorsFrom(stack'[k].env, genv)
               /\ \A j \in 1..Len(stack'[k].got) : stack'[k].got[j].kind # "error"
    <2>1. CASE k = Len(below) + 1
      BY <1>2, <1>5, <2>1
    <2>2. CASE k # Len(below) + 1
      <3>1. k \in 1..Len(below)
        BY <1>2, <1>4, <2>2
      <3>2. QED  BY <1>3, <3>1
    <2>3. QED  BY <2>1, <2>2
  <1>7. QED  BY <1>1, <1>6

\* A new toplevel binding leaves the old ones where they are.
LEMMA GlobalsGrow ==
  ASSUME TypeOK, ErrorsAreGlobal, NEW b, genv' = Append(genv, b),
         env' = env, stack' = stack, funs' \in Seq(Closure(Len(funs))),
         \A i \in 1..Len(funs') : ErrorsFrom(funs'[i].env, genv)
  PROVE  ErrorsAreGlobal'
  <1> DEFINE n == Len(funs)
  <1>0. /\ n \in Nat /\ genv \in Env(n) /\ env \in Env(n) /\ stack \in Seq(Frame(n))
    BY DEF TypeOK
  <1>1. ErrorsFrom(env', genv')
    BY <1>0, MoreGlobals DEF ErrorsAreGlobal
  <1>2. \A i \in 1..Len(funs') : ErrorsFrom(funs'[i].env, genv')
    BY <1>0, ClosureFields, MoreGlobals
  <1>3. ASSUME NEW k \in 1..Len(stack) PROVE ErrorsFrom(stack[k].env, genv')
    <2>1. stack[k].env \in Env(n)
      BY <1>0, ElementOfSeq, FrameFields
    <2>2. QED  BY <1>0, <2>1, MoreGlobals DEF ErrorsAreGlobal
  <1>4. QED  BY <1>1, <1>2, <1>3 DEF ErrorsAreGlobal

LEMMA ErrorsStep == TypeOK /\ ErrorsAreGlobal /\ [Next]_vars => ErrorsAreGlobal'
  <1> SUFFICES ASSUME TypeOK, ErrorsAreGlobal, [Next]_vars PROVE ErrorsAreGlobal'
    OBVIOUS
  <1> DEFINE n == Len(funs)
             Waiting(f, g) == /\ ErrorsFrom(f.env, g)
                              /\ \A j \in 1..Len(f.got) : f.got[j].kind # "error"
  <1>0. /\ n \in Nat /\ genv \in Env(n) /\ env \in Env(n) /\ val \in Value(n)
        /\ stack \in Seq(Frame(n)) /\ funs \in Seq(Closure(n))
    BY DEF TypeOK
  <1>1. CASE Literal
    BY <1>1 DEF Literal, ErrorsAreGlobal
  <1>2. CASE Variable
    BY <1>2 DEF Variable, ErrorsAreGlobal
  <1>3. CASE Function
    <2> DEFINE new == [param |-> expr.param, expr |-> expr.body, env |-> env]
    <2>1. funs' = Append(funs, new) /\ Len(funs') = n + 1
      BY <1>0, <1>3 DEF Function
    <2>2. \A i \in 1..n : funs'[i] = funs[i]
      BY <1>0, <2>1
    <2>3. funs'[n + 1] = new
      BY <1>0, <2>1
    <2>4. ErrorsFrom(new.env, genv)
      BY DEF ErrorsAreGlobal
    <2>5. \A i \in 1..Len(funs') : ErrorsFrom(funs'[i].env, genv)
      BY <1>0, <2>1, <2>2, <2>3, <2>4 DEF ErrorsAreGlobal
    <2>6. QED  BY <1>3, <2>5 DEF Function, ErrorsAreGlobal
  <1>4. CASE Descend
    <2>1. CallOn(stack, env, expr, << >>, FirstOperand(expr))
      BY <1>4 DEF Descend
    <2>2. \A j \in 1..Len(<< >>) : << >>[j].kind # "error"
      OBVIOUS
    <2>3. /\ ErrorsFrom(env', genv)
          /\ \A k \in 1..Len(stack') : Waiting(stack'[k], genv)
      BY <1>0, <2>1, <2>2, CallOnErrors DEF ErrorsAreGlobal
    <2>4. QED  BY <1>4, <2>3 DEF Descend, ErrorsAreGlobal
  <1>5. CASE Bubble
    BY <1>5, ResumedErrors DEF Bubble, ErrorsAreGlobal
  <1>6. CASE NextOperand
    <2>1. CallOn(Pop, Top.env, Top.expr, <<val>>, SecondOperand(Top.expr))
      BY <1>6 DEF NextOperand
    <2>2. \A j \in 1..Len(<<val>>) : <<val>>[j].kind # "error"
      BY <1>6 DEF NextOperand
    <2>3. /\ ErrorsFrom(env', genv)
          /\ \A k \in 1..Len(stack') : Waiting(stack'[k], genv)
      BY <1>0, <1>6, <2>1, <2>2, CallOnErrors, ResumedTypes, ResumedErrors DEF NextOperand
    <2>4. QED  BY <1>6, <2>3 DEF NextOperand, ErrorsAreGlobal
  <1>7. CASE Operator
    BY <1>7, ResumedErrors DEF Operator, ErrorsAreGlobal
  <1>8. CASE Call
    <2> DEFINE callee == Top.got[1]
               f == funs[callee.fun]
    <2>1. CASE callee.kind = "fun"
      <3>1. callee.fun \in 1..n
        <4>1. Top.got \in Seq(Value(n)) /\ Top.got # << >>
          BY <1>8, ResumedTypes DEF Call
        <4>2. 1 \in 1..Len(Top.got)
          BY <4>1, EmptySeq
        <4>3. callee \in Value(n)
          BY <4>1, <4>2, ElementOfSeq
        <4>4. QED  BY <1>0, <2>1, <4>3, ValueFields
      <3>2. f.env \in Env(n) /\ ErrorsFrom(f.env, genv)
        BY <1>0, <3>1, ClosureFields DEF ErrorsAreGlobal
      <3>3. ErrorsFrom(Push(f.env, f.param, val), genv)
        BY <1>0, <1>8, <3>2, PushErrors DEF Call
      <3>4. env' = Push(f.env, f.param, val)
        BY <1>8, <2>1 DEF Call, Goto
      <3>5. QED  BY <1>8, <3>3, <3>4, ResumedErrors DEF Call, ErrorsAreGlobal
    <2>2. CASE callee.kind # "fun"
      BY <1>8, <2>2, ResumedErrors DEF Call, ErrorsAreGlobal
    <2>3. QED  BY <2>1, <2>2
  <1>9. CASE Let
    <2>1. ErrorsFrom(Push(Top.env, Top.expr.name, val), genv)
      BY <1>0, <1>9, ResumedTypes, ResumedErrors, PushErrors DEF Let
    <2>2. QED  BY <1>9, <2>1, ResumedErrors DEF Let, Goto, ErrorsAreGlobal
  <1>10. CASE LetRec
    <2>1. CASE val.kind = "fun"
      <3>1. ErrorsFrom(Push(Top.env, Top.expr.name, val), genv)
        BY <1>0, <1>10, ResumedTypes, ResumedErrors, PushErrors DEF LetRec
      <3>2. Top.expr.name \in Name
        BY <1>10, ResumedTypes, ExprWellFormed DEF LetRec, WellFormed
      <3>3. val.fun \in 1..n /\ funs' = Patch(val.fun, Top.expr.name)
        BY <1>0, <1>10, <2>1, ValueFields DEF LetRec
      <3>4. \A i \in 1..Len(funs') : ErrorsFrom(funs'[i].env, genv)
        BY <3>2, <3>3, PatchErrors
      <3>5. env' = Push(Top.env, Top.expr.name, val)
        BY <1>10, <2>1 DEF LetRec, Goto
      <3>6. QED  BY <1>10, <3>1, <3>4, <3>5, ResumedErrors DEF LetRec, ErrorsAreGlobal
    <2>2. CASE val.kind # "fun"
      BY <1>10, <2>2, ResumedErrors DEF LetRec, ErrorsAreGlobal
    <2>3. QED  BY <2>1, <2>2
  <1>11. CASE If
    <2>1. CASE val.kind = "bool"
      <3>1. env' = Top.env
        BY <1>11, <2>1 DEF If, Goto
      <3>2. QED  BY <1>11, <3>1, ResumedErrors DEF If, ErrorsAreGlobal
    <2>2. CASE val.kind # "bool"
      BY <1>11, <2>2, ResumedErrors DEF If, ErrorsAreGlobal
    <2>3. QED  BY <2>1, <2>2
  <1>12. CASE Begin
    <2>1. ErrorsFrom(genv, genv)
      BY DEF ErrorsFrom
    <2>2. QED  BY <1>12, <2>1 DEF Begin, Goto, ErrorsAreGlobal
  <1>13. CASE WalkExpr
    BY <1>13 DEF WalkExpr, Walked, ErrorsAreGlobal
  <1>14. CASE WalkLet
    <2> DEFINE b == [name |-> Current.name, value |-> val]
    <2>1. genv' = Append(genv, b) /\ env' = env /\ stack' = stack /\ funs' = funs
      BY <1>14 DEF WalkLet, Walked, Push
    <2>2. QED  BY <1>0, <2>1, GlobalsGrow DEF ErrorsAreGlobal
  <1>15. CASE WalkLetRec
    <2> DEFINE b == [name |-> Current.name, value |-> val]
    <2>1. genv' = Append(genv, b) /\ env' = env /\ stack' = stack
      BY <1>15 DEF WalkLetRec, Walked, Push
    <2>2. Current.name \in Name
      BY <1>15, ToplevelFields DEF WalkLetRec, Walked, Current, TypeOK
    <2>3. CASE val.kind = "fun"
      <3>1. val.fun \in 1..n /\ funs' = Patch(val.fun, Current.name)
        BY <1>0, <1>15, <2>3, ValueFields DEF WalkLetRec
      <3>2. \A i \in 1..Len(funs') : ErrorsFrom(funs'[i].env, genv)
        BY <2>2, <3>1, PatchErrors
      <3>3. funs' \in Seq(Closure(n))
        BY <1>0, <2>2, <3>1, PatchType
      <3>4. QED  BY <2>1, <3>2, <3>3, GlobalsGrow
    <2>4. CASE val.kind # "fun"
      <3>1. funs' = funs
        BY <1>15, <2>4 DEF WalkLetRec
      <3>2. QED  BY <1>0, <2>1, <3>1, GlobalsGrow DEF ErrorsAreGlobal
    <2>5. QED  BY <2>3, <2>4
  <1>16. CASE UNCHANGED vars
    BY <1>16 DEF vars, ErrorsAreGlobal
  <1>17. QED
    BY <1>1, <1>2, <1>3, <1>4, <1>5, <1>6, <1>7, <1>8, <1>9, <1>10, <1>11,
       <1>12, <1>13, <1>14, <1>15, <1>16 DEF Next, EvalStep, Exited

(* An error value reaches a variable only as the value of the toplevel        *)
(* binding that failed: BUBBLE lets none into a parameter, a let, a let rec,  *)
(* a captured environment or a half-evaluated operator.                       *)
THEOREM ErrorsStayGlobal == Spec => []ErrorsAreGlobal
  BY TypeCorrect, ErrorsInit, ErrorsStep, PTL DEF Spec
=============================================================================
