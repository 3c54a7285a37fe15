-------------------------- MODULE EvaluationProofs --------------------------
(***************************************************************************)
(* Proofs about GrammarCode and Evaluation.                                *)
(*                                                                         *)
(* For every grammar within the limits that the generator checks, the      *)
(* rules that the engine makes are the ones that were written, in their    *)
(* order, and what is found under the number of a rule was written for     *)
(* that rule.                                                              *)
(*                                                                         *)
(* In every state of an engine, and for any grammar, semantics, parse      *)
(* trees, handlers and number of inputs, each value counts exactly the     *)
(* references to it that there are.  Behind that are what each operation   *)
(* on values does to the counts (Exact), what get_sv makes (LexValue,      *)
(* RuleValue), and the counts that the places of the engine stand for      *)
(* (Holding).                                                              *)
(***************************************************************************)
EXTENDS Evaluation, RangesProofs

-----------------------------------------------------------------------------
(* Words                                                                   *)

\* An instruction gives back what was put into it.
LEMMA CmdParts ==
    ASSUME NEW t \in 0 .. 15, NEW v \in Symbols
    PROVE  Cmd(t, v) \in Nat /\ Command(Cmd(t, v)) = t /\ Detail(Cmd(t, v)) = v
BY DEF Cmd, Command, Detail, Symbols, High

\* Two bytes put into one word come back from it.
LEMMA BoxrParts ==
    ASSUME NEW a \in 0 .. Byte - 1, NEW b \in 0 .. Byte - 1
    PROVE  Boxr(a, b) \in Nat /\ Boxr(a, b) \div Byte = a /\ Boxr(a, b) % Byte = b
BY DEF Boxr, Byte

-----------------------------------------------------------------------------
(* Sequences, one behind the other                                         *)

\* What is in the first and what is in the second of two sequences, one behind the other.
LEMMA ConcatParts ==
    ASSUME NEW S, NEW a \in Seq(S), NEW b \in Seq(S)
    PROVE  /\ a \o b \in Seq(S) /\ Len(a) \in Nat /\ Len(b) \in Nat
           /\ Len(a \o b) = Len(a) + Len(b)
           /\ \A j \in 1 .. Len(a) : (a \o b)[j] = a[j]
           /\ \A j \in 1 .. Len(b) : (a \o b)[Len(a) + j] = b[j]
OBVIOUS

\* Joined has the sequences it is defined by.
LEMMA JoinedFacts ==
    ASSUME NEW S, NEW ss \in Seq(Seq(S))
    PROVE  /\ Joined(ss) \in [0 .. Len(ss) -> Seq(S)]
           /\ Joined(ss)[0] = << >>
           /\ \A k \in 1 .. Len(ss) : Joined(ss)[k] = Joined(ss)[k-1] \o ss[k]
<1> DEFINE n == Len(ss)
           Unfolds(f) == f = [k \in 0 .. n |-> IF k = 0 THEN << >> ELSE f[k-1] \o ss[k]]
           joined == CHOOSE f : Unfolds(f)
<1>1. n \in Nat /\ \A k \in 1 .. n : ss[k] \in Seq(S)
  OBVIOUS
<1>2. Joined(ss) = joined
  BY DEF Joined
<1> HIDE DEF n
<1>3. \E f : Unfolds(f)
  <2> DEFINE T == Seq(S)
             step == [w \in (1 .. n) \X T |-> w[2] \o ss[w[1]]]
             first == << >>
  <2>1. step \in [(1 .. n) \X T -> T] /\ first \in T
    BY <1>1
  <2>2. \A k \in 1 .. n, x \in T : step[<< k, x >>] = x \o ss[k]
    OBVIOUS
  <2> HIDE DEF step, T, first
  <2>3. PICK f \in [0 .. n -> T] : IsLoop(f, n, first, step)
    BY <1>1, <2>1, LoopExists
  <2>4. ASSUME NEW k \in 1 .. n PROVE f[k] = f[k-1] \o ss[k]
    <3>1. k - 1 \in 0 .. n
      BY <1>1
    <3>2. f[k-1] \in T
      BY <3>1
    <3> QED BY <2>2, <2>3, <3>2 DEF IsLoop
  <2>5. \A k \in 0 .. n : f[k] = IF k = 0 THEN first ELSE f[k-1] \o ss[k]
    <3> TAKE k \in 0 .. n
    <3>1. CASE k = 0
      BY <2>3, <3>1 DEF IsLoop
    <3>2. CASE k # 0
      <4>1. k \in 1 .. n
        BY <1>1, <3>2
      <4> QED BY <2>4, <3>2, <4>1
    <3> QED BY <3>1, <3>2
  <2>6. f = [k \in 0 .. n |-> IF k = 0 THEN first ELSE f[k-1] \o ss[k]]
    BY <2>3, <2>5
  <2> QED BY <2>6 DEF first
<1>4. Unfolds(joined)
  BY <1>3
<1> HIDE DEF joined
<1>5. joined[0] = << >> /\ \A k \in 1 .. n : joined[k] = joined[k-1] \o ss[k]
  <2>1. \A k \in 0 .. n : joined[k] = IF k = 0 THEN << >> ELSE joined[k-1] \o ss[k]
    BY <1>4
  <2>2. 0 \in 0 .. n /\ \A k \in 1 .. n : k \in 0 .. n /\ k # 0
    BY <1>1
  <2> QED BY <2>1, <2>2
<1> DEFINE T == {k \in 0 .. n : joined[k] \in Seq(S)}
<1>6. 0 \in T
  <2>1. 0 \in 0 .. n
    BY <1>1
  <2>2. << >> \in Seq(S)
    OBVIOUS
  <2> QED BY <1>5, <2>1, <2>2, Zenon
<1>7. ASSUME NEW k \in 0 .. n - 1, k \in T PROVE k + 1 \in T
  <2>1. k + 1 \in 1 .. n /\ k + 1 \in 0 .. n /\ (k + 1) - 1 = k
    BY <1>1
  <2>2. joined[k + 1] = joined[k] \o ss[k + 1]
    BY <1>5, <2>1
  <2>3. joined[k] \in Seq(S) /\ ss[k + 1] \in Seq(S)
    BY <1>1, <1>7, <2>1
  <2> QED BY <2>1, <2>2, <2>3, ConcatProperties
<1> HIDE DEF T
<1>8. \A k \in 0 .. n : k \in T
  BY <1>1, <1>6, <1>7, BoundedInduction
<1>9. DOMAIN joined = 0 .. n
  BY <1>4
<1>10. joined = [k \in 0 .. n |-> joined[k]]
  BY <1>4, <1>9
<1>11. joined \in [0 .. n -> Seq(S)]
  BY <1>8, <1>10 DEF T
<1> QED BY <1>2, <1>5, <1>11 DEF n

\* What was joined stays where it is when more follows.
LEMMA JoinedPrefix ==
    ASSUME NEW S, NEW ss \in Seq(Seq(S)), NEW k \in 0 .. Len(ss)
    PROVE  \A m \in k .. Len(ss) :
             /\ Joined(ss)[m] \in Seq(S) /\ Len(Joined(ss)[k]) <= Len(Joined(ss)[m])
             /\ \A j \in 1 .. Len(Joined(ss)[k]) : Joined(ss)[m][j] = Joined(ss)[k][j]
<1> DEFINE n == Len(ss)
           J == Joined(ss)
           Holds(m) == /\ Len(J[k]) <= Len(J[m])
                       /\ \A j \in 1 .. Len(J[k]) : J[m][j] = J[k][j]
           T == {m \in 0 .. n : m >= k => Holds(m)}
<1>0. n \in Nat
  OBVIOUS
<1>1. /\ n \in Nat /\ J \in [0 .. n -> Seq(S)]
      /\ \A m \in 1 .. n : J[m] = J[m-1] \o ss[m]
  BY <1>0, JoinedFacts, Zenon
<1>2. \A m \in 1 .. n : ss[m] \in Seq(S)
  OBVIOUS
<1>3. k \in Nat /\ k <= n /\ k \in 0 .. n
  OBVIOUS
<1> HIDE DEF J, n
<1>4. J[k] \in Seq(S)
  BY <1>1, <1>3, Zenon
<1>5. Len(J[k]) \in Nat
  BY <1>4
<1>6. Holds(k)
  BY <1>5
<1> HIDE DEF Holds
<1>7. 0 \in T
  <2>1. 0 >= k => k = 0
    BY <1>3
  <2>2. 0 \in 0 .. n
    BY <1>1
  <2> QED BY <1>6, <2>1, <2>2
<1>8. ASSUME NEW m \in 0 .. n - 1, m \in T PROVE m + 1 \in T
  <2>1. m \in 0 .. n /\ m + 1 \in 1 .. n /\ m + 1 \in 0 .. n /\ (m + 1) - 1 = m /\ m \in Nat
    BY <1>1
  <2>2. SUFFICES ASSUME m + 1 >= k PROVE Holds(m + 1)
    BY <2>1
  <2>3. CASE m + 1 = k
    BY <1>6, <2>3
  <2>4. CASE m + 1 # k
    <3>1. m >= k
      BY <1>3, <2>1, <2>2, <2>4
    <3>2. Holds(m)
      BY <1>8, <3>1
    <3> DEFINE a == J[m]
               b == ss[m + 1]
               c == J[k]
    <3>3. J[m + 1] = a \o b /\ a \in Seq(S) /\ b \in Seq(S)
      BY <1>1, <1>2, <2>1
    <3> HIDE DEF a, b, c
    <3>4. /\ Len(a \o b) = Len(a) + Len(b) /\ Len(a) \in Nat /\ Len(b) \in Nat
          /\ \A j \in 1 .. Len(a) : (a \o b)[j] = a[j]
      BY <3>3, ConcatParts
    <3>5. Len(c) \in Nat /\ Len(c) <= Len(a) /\ \A j \in 1 .. Len(c) : a[j] = c[j]
      BY <1>5, <3>2 DEF Holds, a, c
    <3>6. Len(c) <= Len(a \o b)
      BY <3>4, <3>5
    <3>7. ASSUME NEW j \in 1 .. Len(c) PROVE (a \o b)[j] = c[j]
      <4>1. j \in 1 .. Len(a)
        BY <3>4, <3>5
      <4> QED BY <3>4, <3>5, <4>1
    <3> QED BY <3>3, <3>6, <3>7 DEF Holds, c
  <2> QED BY <2>3, <2>4
<1> HIDE DEF T
<1>9. \A m \in 0 .. n : m \in T
  BY <1>1, <1>7, <1>8, BoundedInduction
<1>10. ASSUME NEW m \in k .. n PROVE J[m] \in Seq(S) /\ Holds(m)
  <2>1. m \in 0 .. n /\ m >= k
    BY <1>1, <1>3
  <2>2. J[m] \in Seq(S)
    BY <1>1, <2>1, Zenon
  <2> QED BY <1>9, <2>1, <2>2 DEF T
<1> QED BY <1>10 DEF n, J, Holds

\* The place of a sequence among those it was joined with.
LEMMA JoinedPlace ==
    ASSUME NEW S, NEW ss \in Seq(Seq(S)), NEW k \in 1 .. Len(ss)
    PROVE  LET J == Joined(ss)
               n == Len(ss)
           IN  /\ J[k-1] \in Seq(S) /\ J[k] \in Seq(S) /\ J[n] \in Seq(S)
               /\ Len(J[k-1]) \in Nat /\ Len(ss[k]) \in Nat
               /\ Len(J[k]) = Len(J[k-1]) + Len(ss[k]) /\ Len(J[k]) <= Len(J[n])
               /\ \A j \in 1 .. Len(ss[k]) : J[n][Len(J[k-1]) + j] = ss[k][j]
<1> DEFINE J == Joined(ss)
           n == Len(ss)
           a == Len(J[k-1])
           b == Len(ss[k])
<1>1. k \in 0 .. n /\ k - 1 \in 0 .. n /\ n \in k .. n /\ n \in 0 .. n /\ ss[k] \in Seq(S)
  OBVIOUS
<1>2. J[k-1] \in Seq(S) /\ J[k] = J[k-1] \o ss[k] /\ J[k] \in Seq(S) /\ J[n] \in Seq(S)
  BY <1>1, JoinedFacts
<1>3. Len(J[k]) <= Len(J[n]) /\ \A j \in 1 .. Len(J[k]) : J[n][j] = J[k][j]
  BY <1>1, JoinedPrefix
<1> DEFINE x == J[k-1]
           y == ss[k]
<1>4. J[k] = x \o y /\ x \in Seq(S) /\ y \in Seq(S)
  BY <1>1, <1>2
<1> HIDE DEF J, n, x, y
<1>5. /\ Len(x) \in Nat /\ Len(y) \in Nat /\ Len(J[k]) = Len(x) + Len(y)
      /\ \A j \in 1 .. Len(y) : J[k][Len(x) + j] = y[j]
  BY <1>4, ConcatParts
<1>6. ASSUME NEW j \in 1 .. Len(y) PROVE J[n][Len(x) + j] = y[j]
  <2>1. Len(x) + j \in 1 .. Len(J[k])
    BY <1>5
  <2> QED BY <1>3, <1>5, <2>1
<1> QED BY <1>2, <1>3, <1>5, <1>6 DEF J, n, x, y
-----------------------------------------------------------------------------
(* The generator                                                           *)

\* Symbols are numbers that fit into the detail of an instruction.
LEMMA SymbolNat ==
    /\ \A s \in Symbols : s \in Nat /\ s < High
    /\ \A s \in Seq(Symbols) : s \in Seq(Nat) /\ Len(s) \in Nat
    /\ \A n \in Nat : n < High => n \in Symbols
<1>0. \A n \in Nat : n < High => n \in Symbols
  BY DEF Symbols, High
<1>1. \A s \in Symbols : s \in Nat /\ s < High
  BY DEF Symbols, High
<1> SUFFICES ASSUME NEW s \in Seq(Symbols) PROVE s \in Seq(Nat) /\ Len(s) \in Nat
  BY <1>0, <1>1
<1>2. Len(s) \in Nat /\ s \in [1 .. Len(s) -> Symbols]
  OBVIOUS
<1>3. s \in [1 .. Len(s) -> Nat]
  BY <1>1, <1>2
<1> QED BY <1>2, <1>3, IsSequence

\* An instruction is a number.
LEMMA CmdNat == \A t \in Nat, v \in Nat : Cmd(t, v) \in Nat
BY DEF Cmd, High

GoodRules(rs) == rs \in Seq(Range(rs)) /\ \A r \in Range(rs) : IsRule(r)

\* The rules at the positions of a good sequence of them.
LEMMA RulesAt ==
    ASSUME NEW rs, GoodRules(rs)
    PROVE  Len(rs) \in Nat /\ DOMAIN rs = 1 .. Len(rs) /\ \A k \in 1 .. Len(rs) : IsRule(rs[k])
<1>1. Len(rs) \in Nat /\ DOMAIN rs = 1 .. Len(rs)
  BY DEF GoodRules
<1>2. \A k \in 1 .. Len(rs) : rs[k] \in Range(rs)
  BY <1>1 DEF Range
<1> QED BY <1>1, <1>2 DEF GoodRules

\* What is gathered over the rules.
Gathered == [words : Seq(Nat), last : Symbols \cup {-1}, pad : Symbols]

\* The instruction of a rule is a sequence of words.
LEMMA InstructionWords ==
    ASSUME NEW r, IsRule(r), NEW last
    PROVE  Instruction(r, last) \in Seq(Nat)
<1> DEFINE n == Len(r.rhs)
<1>1. r.lhs \in Symbols /\ r.rhs \in Seq(Symbols) /\ r.type \in {"priority", "quantified", "brange"}
  BY DEF IsRule
<1>2. n \in Nat /\ r.rhs \in Seq(Nat) /\ r.lhs \in Nat
  BY <1>1, SymbolNat
<1>3. /\ PRIS \in Nat /\ PRIO \in Nat /\ BRAN \in Nat
      /\ \A p \in {0, 1} : QUANT + p \in Nat /\ QUANT + 2 + p \in Nat
  BY DEF PRIS, PRIO, BRAN, QUANT
<1> HIDE DEF n
<1>4. CASE r.type = "priority" /\ r.lhs = last
  <2>1. Instruction(r, last) = << Cmd(PRIS, n) >> \o r.rhs
    BY <1>4 DEF Instruction, n
  <2>2. Cmd(PRIS, n) \in Nat
    BY <1>2, <1>3, CmdNat
  <2>3. << Cmd(PRIS, n) >> \in Seq(Nat)
    BY <2>2
  <2> QED BY <1>2, <2>1, <2>3, ConcatProperties
<1>5. CASE r.type = "priority" /\ r.lhs # last
  <2>1. Instruction(r, last) = << Cmd(PRIO, n), r.lhs >> \o r.rhs
    BY <1>5 DEF Instruction, n
  <2>2. Cmd(PRIO, n) \in Nat
    BY <1>2, <1>3, CmdNat
  <2>3. << Cmd(PRIO, n), r.lhs >> \in Seq(Nat)
    BY <1>2, <2>2
  <2> QED BY <1>2, <2>1, <2>3, ConcatProperties
<1>6. CASE r.type = "quantified"
  <2>0. /\ Len(r.rhs) = 1 /\ r.pos \in {0, 1} /\ r.proper \in {0, 1}
        /\ r.sep # NoSep => r.sep \in Symbols
    BY <1>6 DEF IsRule
  <2>1. /\ r.rhs[1] \in Nat /\ r.proper \in Nat
        /\ r.sep # NoSep => r.sep \in Nat
    BY <1>2, <2>0, SymbolNat
  <2>2. CASE r.sep = NoSep
    <3>1. Instruction(r, last) = << Cmd(QUANT + r.pos, r.lhs), r.rhs[1] >>
      BY <1>6, <2>2 DEF Instruction
    <3>2. Cmd(QUANT + r.pos, r.lhs) \in Nat
      BY <1>2, <1>3, <2>0, CmdNat
    <3> QED BY <2>1, <3>1, <3>2
  <2>3. CASE r.sep # NoSep
    <3>1. Instruction(r, last) = << Cmd(QUANT + 2 + r.pos, r.lhs), r.rhs[1], Cmd(r.proper, r.sep) >>
      BY <1>6, <2>3 DEF Instruction
    <3>2. Cmd(QUANT + 2 + r.pos, r.lhs) \in Nat /\ Cmd(r.proper, r.sep) \in Nat
      BY <1>2, <1>3, <2>0, <2>1, <2>3, CmdNat
    <3> QED BY <2>1, <3>1, <3>2
  <2> QED BY <2>2, <2>3
<1>7. CASE r.type = "brange"
  <2>1. Instruction(r, last) = << Cmd(BRAN, r.lhs), Boxr(r.rhs[1], r.rhs[2]) >>
    BY <1>7 DEF Instruction
  <2>0. Len(r.rhs) = 2
    BY <1>7 DEF IsRule
  <2>2. r.rhs[1] \in Nat /\ r.rhs[2] \in Nat
    BY <1>2, <2>0
  <2>3. Boxr(r.rhs[1], r.rhs[2]) \in Nat
    BY <2>2 DEF Boxr, Byte
  <2>4. Cmd(BRAN, r.lhs) \in Nat
    BY <1>2, <1>3, CmdNat
  <2> QED BY <2>1, <2>3, <2>4
<1> QED BY <1>1, <1>4, <1>5, <1>6, <1>7

\* A rule adds its instruction, and the space it needs.
LEMMA AddedFacts ==
    ASSUME NEW acc \in Gathered, NEW r, IsRule(r)
    PROVE  /\ Added(acc, r) \in Gathered
           /\ acc.pad <= Added(acc, r).pad
           /\ r.type = "priority" => Len(r.rhs) <= Added(acc, r).pad
<1> DEFINE n == Len(r.rhs)
<1>1. acc.words \in Seq(Nat) /\ acc.last \in Symbols \cup {-1} /\ acc.pad \in Symbols
  BY DEF Gathered
<1>2. r.lhs \in Symbols /\ n \in Nat /\ (r.type = "priority" => n \in Symbols)
  <2>1. r.lhs \in Symbols /\ r.rhs \in Seq(Symbols) /\ (r.type = "priority" => n < High)
    BY DEF IsRule
  <2>2. n \in Nat
    BY <2>1, SymbolNat
  <2> HIDE DEF n
  <2> QED BY <2>1, <2>2, SMTT(30) DEF Symbols, High
<1>3. acc.words \o Instruction(r, acc.last) \in Seq(Nat)
  BY <1>1, InstructionWords, ConcatProperties
<1>4. Added(acc, r) \in Gathered
  BY <1>1, <1>2, <1>3 DEF Added, Gathered
<1>5. acc.pad \in Int /\ n \in Int
  BY <1>1, <1>2, SymbolNat
<1>6. Added(acc, r).pad = IF r.type = "priority" /\ n > acc.pad THEN n ELSE acc.pad
  BY DEF Added
<1> HIDE DEF n
<1>7. acc.pad <= Added(acc, r).pad /\ (r.type = "priority" => n <= Added(acc, r).pad)
  BY <1>5, <1>6
<1> QED BY <1>4, <1>7 DEF n

\* What is gathered is defined rule by rule.
LEMMA AddingFacts ==
    ASSUME NEW rs, GoodRules(rs)
    PROVE  /\ Adding(rs) \in [0 .. Len(rs) -> Gathered]
           /\ Adding(rs)[0] = [words |-> << >>, last |-> -1, pad |-> 0]
           /\ \A k \in 1 .. Len(rs) : Adding(rs)[k] = Added(Adding(rs)[k-1], rs[k])
<1> DEFINE n == Len(rs)
           first == [words |-> << >>, last |-> -1, pad |-> 0]
           Unfolds(f) == f = [k \in 0 .. n |-> IF k = 0 THEN first ELSE Added(f[k-1], rs[k])]
           acc == CHOOSE f : Unfolds(f)
<1>1. n \in Nat /\ \A k \in 1 .. n : IsRule(rs[k])
  BY RulesAt
<1>2. Adding(rs) = acc
  BY DEF Adding
<1>3. first \in Gathered
  BY DEF Gathered, Symbols, High
<1> HIDE DEF n
<1>4. \A k \in 1 .. n, x \in Gathered : Added(x, rs[k]) \in Gathered
  BY <1>1, AddedFacts
<1> HIDE DEF first
<1>5. \E f : Unfolds(f)
  <2> DEFINE step == [w \in (1 .. n) \X Gathered |-> Added(w[2], rs[w[1]])]
  <2>1. step \in [(1 .. n) \X Gathered -> Gathered]
    BY <1>4
  <2>2. \A k \in 1 .. n, x \in Gathered : step[<< k, x >>] = Added(x, rs[k])
    OBVIOUS
  <2> HIDE DEF step
  <2>3. PICK f \in [0 .. n -> Gathered] : IsLoop(f, n, first, step)
    BY <1>1, <1>3, <2>1, LoopExists
  <2>4. ASSUME NEW k \in 1 .. n PROVE f[k] = Added(f[k-1], rs[k])
    <3>1. k - 1 \in 0 .. n
      BY <1>1
    <3>2. f[k-1] \in Gathered
      BY <3>1
    <3> QED BY <2>2, <2>3, <3>2 DEF IsLoop
  <2>5. \A k \in 0 .. n : f[k] = IF k = 0 THEN first ELSE Added(f[k-1], rs[k])
    <3> TAKE k \in 0 .. n
    <3>1. CASE k = 0
      BY <2>3, <3>1 DEF IsLoop
    <3>2. CASE k # 0
      <4>1. k \in 1 .. n
        BY <1>1, <3>2
      <4> QED BY <2>4, <3>2, <4>1
    <3> QED BY <3>1, <3>2
  <2>6. f = [k \in 0 .. n |-> IF k = 0 THEN first ELSE Added(f[k-1], rs[k])]
    BY <2>3, <2>5
  <2> QED BY <2>6
<1>6. Unfolds(acc)
  BY <1>5
<1> HIDE DEF acc
<1>7. acc[0] = first /\ \A k \in 1 .. n : acc[k] = Added(acc[k-1], rs[k])
  <2>1. \A k \in 0 .. n : acc[k] = IF k = 0 THEN first ELSE Added(acc[k-1], rs[k])
    BY <1>6
  <2>2. 0 \in 0 .. n /\ \A k \in 1 .. n : k \in 0 .. n /\ k # 0
    BY <1>1
  <2> QED BY <2>1, <2>2
<1> DEFINE T == {k \in 0 .. n : acc[k] \in Gathered}
<1>8. 0 \in T
  BY <1>1, <1>3, <1>7
<1>9. ASSUME NEW k \in 0 .. n - 1, k \in T PROVE k + 1 \in T
  <2>1. k + 1 \in 1 .. n /\ k + 1 \in 0 .. n /\ (k + 1) - 1 = k
    BY <1>1
  <2>2. acc[k + 1] = Added(acc[k], rs[k + 1])
    BY <1>7, <2>1
  <2> QED BY <1>4, <1>9, <2>1, <2>2
<1> HIDE DEF T
<1>10. \A k \in 0 .. n : k \in T
  BY <1>1, <1>8, <1>9, BoundedInduction
<1>11. DOMAIN acc = 0 .. n
  BY <1>6
<1>12. acc = [k \in 0 .. n |-> acc[k]]
  BY <1>6, <1>11
<1>13. acc \in [0 .. n -> Gathered]
  BY <1>10, <1>12 DEF T
<1> QED BY <1>2, <1>7, <1>13 DEF n, first

\* The scratch area has room for the right hand side of every rule.
LEMMA PadFits ==
    ASSUME NEW rs, GoodRules(rs), NEW k \in 1 .. Len(rs), rs[k].type = "priority"
    PROVE  Len(rs[k].rhs) <= Adding(rs)[Len(rs)].pad
<1> DEFINE n == Len(rs)
           all == Adding(rs)
           T == {m \in 0 .. n : m >= k => Len(rs[k].rhs) <= all[m].pad}
<1>1. n \in Nat /\ IsRule(rs[k]) /\ k \in Nat /\ k <= n /\ k >= 1 /\ k - 1 \in 0 .. n
  BY RulesAt
<1>2. /\ \A m \in 0 .. n : all[m] \in Gathered
      /\ \A m \in 1 .. n : all[m] = Added(all[m-1], rs[m])
  BY AddingFacts
<1>3. \A m \in 1 .. n : IsRule(rs[m])
  BY RulesAt
<1>4. Len(rs[k].rhs) \in Nat
  BY <1>1 DEF IsRule
<1>5. \A m \in 0 .. n : all[m].pad \in Nat
  BY <1>2, SymbolNat DEF Gathered
<1> DEFINE x == Len(rs[k].rhs)
<1>6. x <= all[k].pad
  BY <1>1, <1>2, AddedFacts
<1> HIDE DEF n, all, x
<1>7. 0 \in T
  BY <1>1 DEF x
<1>8. ASSUME NEW m \in 0 .. n - 1, m \in T PROVE m + 1 \in T
  <2>1. m \in 0 .. n /\ m + 1 \in 1 .. n /\ m + 1 \in 0 .. n /\ (m + 1) - 1 = m /\ m \in Nat
    BY <1>1
  <2>2. SUFFICES ASSUME m + 1 >= k PROVE x <= all[m + 1].pad
    BY <2>1 DEF x
  <2>3. CASE m + 1 = k
    BY <1>6, <2>3
  <2>4. CASE m + 1 # k
    <3>1. m >= k
      BY <1>1, <2>1, <2>2, <2>4
    <3>2. x <= all[m].pad
      BY <1>8, <3>1 DEF x
    <3>3. all[m + 1] = Added(all[m], rs[m + 1]) /\ all[m] \in Gathered /\ IsRule(rs[m + 1])
      BY <1>2, <1>3, <2>1
    <3>4. all[m].pad <= all[m + 1].pad
      BY <3>3, AddedFacts
    <3>5. x \in Nat /\ all[m].pad \in Nat /\ all[m + 1].pad \in Nat
      BY <1>4, <1>5, <2>1 DEF x
    <3> QED BY <3>2, <3>4, <3>5
  <2> QED BY <2>3, <2>4
<1> HIDE DEF T
<1>9. \A m \in 0 .. n : m \in T
  BY <1>1, <1>7, <1>8, BoundedInduction
<1>10. n \in T
  BY <1>1, <1>9
<1> QED BY <1>1, <1>10 DEF T, n, all

\* The instructions of the rules, one for each.
Instructions(rs) == [k \in 1 .. Len(rs) |-> Instruction(rs[k], Adding(rs)[k-1].last)]

\* The words that were gathered are the instructions, one behind the other.
LEMMA WordsJoined ==
    ASSUME NEW rs, GoodRules(rs)
    PROVE  /\ Instructions(rs) \in Seq(Seq(Nat)) /\ Len(Instructions(rs)) = Len(rs)
           /\ \A k \in 0 .. Len(rs) : Adding(rs)[k].words = Joined(Instructions(rs))[k]
<1> DEFINE n == Len(rs)
           all == Adding(rs)
           ins == Instructions(rs)
           J == Joined(ins)
           T == {k \in 0 .. n : all[k].words = J[k]}
<1>1. n \in Nat
  BY RulesAt
<1>2. /\ all[0] = [words |-> << >>, last |-> -1, pad |-> 0]
      /\ \A k \in 1 .. n : all[k] = Added(all[k-1], rs[k])
  BY AddingFacts
<1>3. \A k \in 1 .. n : Instruction(rs[k], all[k-1].last) \in Seq(Nat)
  BY RulesAt, InstructionWords
<1>4. ins \in Seq(Seq(Nat)) /\ Len(ins) = n
  <2> DEFINE S == Seq(Nat)
             w == [k \in 1 .. n |-> Instruction(rs[k], all[k-1].last)]
  <2>1. ins = w
    BY DEF Instructions
  <2>2. \A k \in 1 .. n : w[k] \in S
    BY <1>3
  <2> HIDE DEF S
  <2>3. w \in Seq(S) /\ Len(w) = n
    BY <1>1, <1>3, <2>2, IsSequence
  <2> QED BY <2>1, <2>3 DEF S
<1>5. J[0] = << >> /\ \A k \in 1 .. n : J[k] = J[k-1] \o ins[k]
  BY <1>4, JoinedFacts, Zenon
<1>6. \A k \in 1 .. n : ins[k] = Instruction(rs[k], all[k-1].last)
  BY DEF Instructions
<1> HIDE DEF n, all, ins, J
<1>7. 0 \in T
  BY <1>1, <1>2, <1>5
<1>8. ASSUME NEW k \in 0 .. n - 1, k \in T PROVE k + 1 \in T
  <2>1. k + 1 \in 1 .. n /\ k + 1 \in 0 .. n /\ (k + 1) - 1 = k
    BY <1>1
  <2>2. all[k + 1].words = all[k].words \o ins[k + 1]
    <3> DEFINE x == all[k]
               y == rs[k + 1]
    <3>1. all[k + 1] = Added(x, y) /\ ins[k + 1] = Instruction(y, x.last)
      BY <1>2, <1>6, <2>1
    <3> HIDE DEF x, y
    <3>2. Added(x, y).words = x.words \o Instruction(y, x.last)
      BY DEF Added
    <3> QED BY <3>1, <3>2 DEF x, y
  <2>3. J[k + 1] = J[k] \o ins[k + 1]
    BY <1>5, <2>1
  <2> QED BY <1>8, <2>1, <2>2, <2>3
<1> HIDE DEF T
<1>9. \A k \in 0 .. n : k \in T
  BY <1>1, <1>7, <1>8, BoundedInduction
<1> QED BY <1>4, <1>9 DEF T, n, all, ins, J

\* A part of a sequence, given element by element.
LEMMA SubSeqIs ==
    ASSUME NEW S, NEW s \in Seq(S), NEW p \in Seq(S), NEW a \in Nat, a >= 1,
           a + Len(p) <= Len(s) + 1, \A j \in 1 .. Len(p) : s[a + j - 1] = p[j]
    PROVE  SubSeq(s, a, a + Len(p) - 1) = p
<1> DEFINE b == a + Len(p) - 1
           q == SubSeq(s, a, b)
<1>1. Len(p) \in Nat /\ Len(s) \in Nat /\ b \in Int
  OBVIOUS
<1>2. \A i \in a .. b : s[i] \in S
  <2> TAKE i \in a .. b
  <2>1. i \in 1 .. Len(s)
    BY <1>1
  <2> QED BY <2>1
<1>3. /\ q \in Seq(S) /\ Len(q) = IF a <= b THEN b - a + 1 ELSE 0
      /\ \A i \in 1 .. b - a + 1 : q[i] = s[a + i - 1]
  <2> HIDE DEF b
  <2> QED BY <1>1, <1>2, SubSeqProperties
<1>4. b - a + 1 = Len(p) /\ (a <= b <=> Len(p) # 0)
  BY <1>1
<1> HIDE DEF q, b
<1>5. Len(q) = Len(p)
  BY <1>1, <1>3, <1>4
<1>6. \A i \in 1 .. Len(p) : q[i] = p[i]
  BY <1>3, <1>4
<1>7. q = p
  BY <1>3, <1>5, <1>6
<1> QED BY <1>7 DEF q, b

\* A sequence given position by position.
LEMMA IsFromParts ==
    ASSUME NEW S, NEW p \in Seq(S), NEW n, n = Len(p), NEW q, q = [k \in 1 .. n |-> q[k]],
           \A k \in 1 .. n : q[k] = p[k]
    PROVE  q = p
OBVIOUS

\* What is written for the rules: start, the instruction of each of them, end.
At(g, k) == 2 + Len(Adding(g.rules)[k].words)

\* The code of a grammar: the instruction that starts it, those of the rules, the one that
\* ends it (runtime-c.tcl:1268-1315).
LEMMA CodeFacts ==
    ASSUME NEW g \in Grammars
    PROVE  LET n == Len(g.rules) IN
           /\ GoodRules(g.rules) /\ n \in Nat /\ Code(g) \in Seq(Nat)
           /\ \A k \in 0 .. n : At(g, k) \in Nat /\ At(g, k) >= 2
           /\ At(g, 0) = 2
           /\ Len(Code(g)) = At(g, n)
           /\ Command(Code(g)[1]) = SETUP /\ Detail(Code(g)[1]) = Adding(g.rules)[n].pad
           /\ Command(Code(g)[At(g, n)]) = DONE
           /\ \A i \in 1 .. At(g, n) - 2 : Code(g)[1 + i] = Adding(g.rules)[n].words[i]
<1> DEFINE n == Len(g.rules)
           all == Adding(g.rules)[n]
           w == all.words
           a == << Cmd(SETUP, all.pad) >>
           c == << Cmd(DONE, g.start) >>
<1>1. GoodRules(g.rules) /\ g.start \in Symbols
  BY GrammarsAssumption DEF GoodRules
<1>2. n \in Nat
  BY <1>1, RulesAt
<1>3. /\ \A k \in 0 .. n : Adding(g.rules)[k] \in Gathered
      /\ Adding(g.rules)[0] = [words |-> << >>, last |-> -1, pad |-> 0]
  BY <1>1, AddingFacts
<1>4. n \in 0 .. n /\ 0 \in 0 .. n
  BY <1>2
<1>5. \A k \in 0 .. n : At(g, k) \in Nat /\ At(g, k) >= 2
  <2> TAKE k \in 0 .. n
  <2>1. Adding(g.rules)[k].words \in Seq(Nat)
    BY <1>3 DEF Gathered
  <2>2. Len(Adding(g.rules)[k].words) \in Nat
    BY <2>1
  <2> QED BY <2>2 DEF At
<1>6. At(g, 0) = 2
  BY <1>3 DEF At
<1>7. w \in Seq(Nat) /\ all.pad \in Symbols
  BY <1>3, <1>4 DEF Gathered
<1>8. Code(g) = (a \o w) \o c
  BY <1>7 DEF Code
<1>9. At(g, n) = 2 + Len(w)
  BY DEF At
<1>10. SETUP \in 0 .. 15 /\ DONE \in 0 .. 15
  BY DEF SETUP, DONE
<1>11. /\ a \in Seq(Nat) /\ Len(a) = 1 /\ Command(a[1]) = SETUP /\ Detail(a[1]) = all.pad
       /\ c \in Seq(Nat) /\ Len(c) = 1 /\ Command(c[1]) = DONE
  <2> DEFINE x == Cmd(SETUP, all.pad)
             y == Cmd(DONE, g.start)
  <2>1. x \in Nat /\ Command(x) = SETUP /\ Detail(x) = all.pad /\ y \in Nat /\ Command(y) = DONE
    BY <1>1, <1>7, <1>10, CmdParts
  <2> HIDE DEF x, y
  <2>2. << x >> \in Seq(Nat) /\ Len(<< x >>) = 1 /\ << x >>[1] = x
    BY <2>1
  <2>3. << y >> \in Seq(Nat) /\ Len(<< y >>) = 1 /\ << y >>[1] = y
    BY <2>1
  <2> QED BY <2>1, <2>2, <2>3 DEF x, y
<1> HIDE DEF a, c, w
<1>12. /\ a \o w \in Seq(Nat) /\ Len(a \o w) = 1 + Len(w) /\ Len(w) \in Nat
       /\ \A j \in 1 .. 1 : (a \o w)[j] = a[j]
       /\ \A j \in 1 .. Len(w) : (a \o w)[1 + j] = w[j]
  <2>1. /\ a \o w \in Seq(Nat) /\ Len(a \o w) = Len(a) + Len(w) /\ Len(w) \in Nat
        /\ \A j \in 1 .. Len(a) : (a \o w)[j] = a[j]
        /\ \A j \in 1 .. Len(w) : (a \o w)[Len(a) + j] = w[j]
    <3>1. a \in Seq(Nat) /\ w \in Seq(Nat)
      BY <1>7, <1>11
    <3> QED BY <3>1, ConcatParts
  <2>2. Len(a) = 1
    BY <1>11
  <2> QED BY <2>1, <2>2
<1> DEFINE b == a \o w
           d == b \o c
<1> HIDE DEF b
<1>13. /\ d \in Seq(Nat) /\ Len(d) = Len(b) + 1
       /\ \A j \in 1 .. Len(b) : d[j] = b[j]
       /\ \A j \in 1 .. 1 : d[Len(b) + j] = c[j]
  BY <1>11, <1>12, ConcatParts DEF b
<1>14. Code(g) = d
  BY <1>8 DEF b
<1> HIDE DEF d
<1>15. Len(b) = 1 + Len(w) /\ Len(w) \in Nat
  BY <1>12 DEF b
<1>16. d[1] = a[1]
  <2>1. 1 \in 1 .. 1 /\ 1 \in 1 .. Len(b)
    BY <1>15
  <2>2. b[1] = a[1]
    BY <1>12, <2>1 DEF b
  <2> QED BY <1>13, <2>1, <2>2
<1>17. d[At(g, n)] = c[1] /\ Len(d) = At(g, n)
  <2>1. 1 \in 1 .. 1 /\ Len(b) + 1 = At(g, n)
    BY <1>9, <1>15
  <2> QED BY <1>13, <2>1
<1>18. ASSUME NEW i \in 1 .. At(g, n) - 2 PROVE d[1 + i] = w[i]
  <2>1. i \in 1 .. Len(w) /\ 1 + i \in 1 .. Len(b)
    BY <1>9, <1>15
  <2>2. b[1 + i] = w[i]
    BY <1>12, <2>1 DEF b
  <2> QED BY <1>13, <2>1, <2>2
<1> QED BY <1>1, <1>2, <1>5, <1>6, <1>11, <1>13, <1>14, <1>16, <1>17, <1>18 DEF w

\* The instruction of a rule is where the one before it ends.
LEMMA InstructionPlaced ==
    ASSUME NEW g \in Grammars, NEW k \in 1 .. Len(g.rules)
    PROVE  LET ins == Instruction(g.rules[k], Adding(g.rules)[k-1].last)
               at  == At(g, k-1)
           IN  /\ ins \in Seq(Nat) /\ Len(ins) \in Nat
               /\ at \in Nat /\ at >= 2 /\ At(g, k) = at + Len(ins)
               /\ At(g, k) <= Len(Code(g))
               /\ \A j \in 1 .. Len(ins) : Code(g)[at + j - 1] = ins[j]
<1> DEFINE n == Len(g.rules)
           all == Adding(g.rules)
           ss == Instructions(g.rules)
           J == Joined(ss)
           ins == Instruction(g.rules[k], all[k-1].last)
           S == Seq(Nat)
<1>1. /\ GoodRules(g.rules) /\ n \in Nat /\ Len(Code(g)) = At(g, n)
      /\ \A m \in 0 .. n : At(g, m) \in Nat /\ At(g, m) >= 2
      /\ \A i \in 1 .. At(g, n) - 2 : Code(g)[1 + i] = all[n].words[i]
  BY CodeFacts
<1>2. /\ ss \in Seq(Seq(Nat)) /\ Len(ss) = n
      /\ \A m \in 0 .. n : all[m].words = J[m]
  BY <1>1, WordsJoined
<1>3. k \in 1 .. Len(ss)
  BY <1>2
<1>4. /\ J[k-1] \in Seq(Nat) /\ Len(J[k-1]) \in Nat /\ Len(ss[k]) \in Nat /\ J[Len(ss)] \in Seq(Nat)
      /\ Len(J[k]) = Len(J[k-1]) + Len(ss[k]) /\ Len(J[k]) <= Len(J[Len(ss)])
      /\ \A j \in 1 .. Len(ss[k]) : J[Len(ss)][Len(J[k-1]) + j] = ss[k][j]
  BY <1>2, <1>3, JoinedPlace
<1>5. ss[k] = ins /\ ins \in Seq(Nat)
  <2>1. ss[k] = ins
    BY DEF Instructions
  <2>2. IsRule(g.rules[k])
    BY <1>1, RulesAt
  <2> QED BY <2>1, <2>2, InstructionWords
<1>6. k \in 0 .. n /\ k - 1 \in 0 .. n /\ n \in 0 .. n
  BY <1>1
<1>7. /\ At(g, k-1) = 2 + Len(J[k-1]) /\ At(g, k) = 2 + Len(J[k]) /\ At(g, n) = 2 + Len(J[n])
      /\ all[n].words = J[n]
  BY <1>2, <1>6 DEF At
<1> DEFINE x == Len(J[k-1])
           y == Len(ins)
           z == Len(J[n])
           W == J[n]
           C == Code(g)
<1> DEFINE v == Len(J[k])
<1>8. x \in Nat /\ y \in Nat /\ z \in Nat /\ v = x + y /\ x + y <= z
  <2>1. Len(ss) = n /\ ss[k] = ins
    BY <1>2, <1>5
  <2>2. W \in Seq(Nat) /\ x \in Nat /\ y \in Nat /\ v = x + y /\ v <= z
    BY <1>4, <2>1
  <2>3. z \in Nat
    BY <2>2
  <2> HIDE DEF x, y, z, v, W
  <2> QED BY <2>2, <2>3
<1>9. /\ At(g, k-1) = 2 + x /\ At(g, k) = 2 + x + y /\ At(g, n) = 2 + z /\ Len(C) = 2 + z
      /\ \A i \in 1 .. At(g, n) - 2 : C[1 + i] = W[i]
      /\ \A j \in 1 .. y : W[x + j] = ins[j]
  <2>1. Len(ss) = n /\ ss[k] = ins /\ W = all[n].words
    BY <1>2, <1>5, <1>7
  <2>2. \A j \in 1 .. y : W[x + j] = ins[j]
    BY <1>4, <2>1
  <2>3. \A i \in 1 .. At(g, n) - 2 : C[1 + i] = W[i]
    BY <1>1, <2>1
  <2>4. At(g, k-1) = 2 + x /\ At(g, k) = 2 + v /\ At(g, n) = 2 + z /\ Len(C) = At(g, n)
    BY <1>1, <1>7
  <2> HIDE DEF x, y, z, v, W, C
  <2> QED BY <1>8, <2>2, <2>3, <2>4
<1> HIDE DEF x, y, z, v, W, C, ins
<1>10. ASSUME NEW j \in 1 .. y PROVE C[At(g, k-1) + j - 1] = ins[j]
  <2>1. x + j \in 1 .. At(g, n) - 2 /\ 1 + (x + j) = At(g, k-1) + j - 1
    BY <1>8, <1>9
  <2>2. C[1 + (x + j)] = W[x + j] /\ W[x + j] = ins[j]
    BY <1>9, <2>1
  <2> QED BY <2>1, <2>2
<1>11. At(g, k-1) \in Nat /\ At(g, k-1) >= 2 /\ At(g, k) = At(g, k-1) + y /\ At(g, k) <= Len(C)
  <2>1. At(g, k-1) = 2 + x /\ At(g, k) = 2 + x + y /\ Len(C) = 2 + z
    BY <1>9
  <2> QED BY <1>8, <2>1
<1> QED BY <1>5, <1>8, <1>10, <1>11 DEF y, C, ins

\* Where its operands are, both the engine and the reports find the right hand side.
LEMMA Operands ==
    ASSUME NEW g \in Grammars, NEW rhs \in Seq(Nat), NEW a \in Nat, a >= 1,
           a + Len(rhs) <= Len(Code(g)) + 1,
           \A j \in 1 .. Len(rhs) : Code(g)[a + j - 1] = rhs[j]
    PROVE  /\ SubSeq(Code(g), a, a + Len(rhs) - 1) = rhs
           /\ [j \in 1 .. Len(rhs) |-> Code(g)[a + j - 1]] = rhs
<1>1. Code(g) \in Seq(Nat)
  BY CodeFacts
<1> DEFINE C == Code(g)
           q == [j \in 1 .. Len(rhs) |-> C[a + j - 1]]
<1>2. SubSeq(C, a, a + Len(rhs) - 1) = rhs
  <2> HIDE DEF C
  <2> QED BY <1>1, SubSeqIs DEF C
<1>3. q = rhs
  <2>1. \A j \in 1 .. Len(rhs) : q[j] = rhs[j]
    OBVIOUS
  <2>2. q = [j \in 1 .. Len(rhs) |-> q[j]]
    OBVIOUS
  <2> HIDE DEF q
  <2> QED BY <2>1, <2>2, IsFromParts
<1> QED BY <1>2, <1>3

\* The words behind the first one of an instruction.
LEMMA HeadedBy1 ==
    ASSUME NEW x \in Nat, NEW s \in Seq(Nat)
    PROVE  /\ Len(<< x >> \o s) = 1 + Len(s) /\ (<< x >> \o s)[1] = x
           /\ \A j \in 1 .. Len(s) : (<< x >> \o s)[1 + j] = s[j]
<1>1. << x >> \in Seq(Nat) /\ Len(<< x >>) = 1 /\ << x >>[1] = x
  OBVIOUS
<1> DEFINE a == << x >>
<1> HIDE DEF a
<1>2. a \in Seq(Nat) /\ Len(a) = 1 /\ a[1] = x
  BY <1>1 DEF a
<1>3. /\ Len(a \o s) = Len(a) + Len(s)
      /\ \A j \in 1 .. Len(a) : (a \o s)[j] = a[j]
      /\ \A j \in 1 .. Len(s) : (a \o s)[Len(a) + j] = s[j]
  <2>1. a \in Seq(Nat)
    BY <1>2
  <2> QED BY <2>1, ConcatParts
<1>4. 1 \in 1 .. Len(a)
  BY <1>2
<1> QED BY <1>2, <1>3, <1>4 DEF a

\* The words behind the first two of an instruction.
LEMMA HeadedBy2 ==
    ASSUME NEW x \in Nat, NEW y \in Nat, NEW s \in Seq(Nat)
    PROVE  /\ Len(<< x, y >> \o s) = 2 + Len(s)
           /\ (<< x, y >> \o s)[1] = x /\ (<< x, y >> \o s)[2] = y
           /\ \A j \in 1 .. Len(s) : (<< x, y >> \o s)[2 + j] = s[j]
<1>1. << x, y >> \in Seq(Nat) /\ Len(<< x, y >>) = 2 /\ << x, y >>[1] = x /\ << x, y >>[2] = y
  OBVIOUS
<1> DEFINE a == << x, y >>
<1> HIDE DEF a
<1>2. a \in Seq(Nat) /\ Len(a) = 2 /\ a[1] = x /\ a[2] = y
  BY <1>1 DEF a
<1>3. /\ Len(a \o s) = Len(a) + Len(s)
      /\ \A j \in 1 .. Len(a) : (a \o s)[j] = a[j]
      /\ \A j \in 1 .. Len(s) : (a \o s)[Len(a) + j] = s[j]
  <2>1. a \in Seq(Nat)
    BY <1>2
  <2> QED BY <2>1, ConcatParts
<1>4. 1 \in 1 .. Len(a) /\ 2 \in 1 .. Len(a)
  BY <1>2
<1> QED BY <1>2, <1>3, <1>4 DEF a

\* An instruction is m words, and a right hand side.
Ins(g, k) == Instruction(g.rules[k], Adding(g.rules)[k-1].last)
Formed(g, k, m, rhs) ==
    LET at == At(g, k-1)
        C  == Code(g)
        n  == Len(rhs)
    IN  /\ at \in Nat /\ at >= 2
        /\ At(g, k) = at + m + n /\ At(g, k) <= Len(C)
        /\ \A j \in 1 .. m : C[at + j - 1] = Ins(g, k)[j]
        /\ [j \in 1 .. n |-> C[at + m - 1 + j]] = rhs
        /\ SubSeq(C, at + m, at + m - 1 + n) = rhs

\* The instruction of a rule in the code, m words and then the right-hand side.
LEMMA Form ==
    ASSUME NEW g \in Grammars, NEW k \in 1 .. Len(g.rules), NEW m \in Nat, NEW rhs \in Seq(Nat),
           Len(Ins(g, k)) = m + Len(rhs), \A j \in 1 .. Len(rhs) : Ins(g, k)[m + j] = rhs[j]
    PROVE  Formed(g, k, m, rhs)
<1> DEFINE ins == Ins(g, k)
           at == At(g, k-1)
           C  == Code(g)
           n  == Len(rhs)
           b  == at + m
<1>1. /\ at \in Nat /\ at >= 2 /\ At(g, k) = at + Len(ins) /\ At(g, k) <= Len(C)
      /\ \A j \in 1 .. Len(ins) : C[at + j - 1] = ins[j]
  BY InstructionPlaced DEF Ins
<1>2. C \in Seq(Nat) /\ Len(C) \in Nat
  <2>1. C \in Seq(Nat)
    BY CodeFacts
  <2> QED BY <2>1
<1>3. n \in Nat /\ Len(ins) = m + n
  OBVIOUS
<1>4. n = Len(rhs) /\ \A j \in 1 .. n : ins[m + j] = rhs[j]
  OBVIOUS
<1> HIDE DEF at, C, n, ins
<1>5. ASSUME NEW j \in 1 .. n PROVE C[b + j - 1] = rhs[j]
  <2>1. m + j \in 1 .. Len(ins) /\ at + (m + j) - 1 = b + j - 1
    BY <1>1, <1>3
  <2>2. C[at + (m + j) - 1] = ins[m + j]
    BY <1>1, <2>1, Zenon
  <2> QED BY <1>4, <2>1, <2>2
<1>6. b \in Nat /\ b >= 1 /\ b + n <= Len(C) + 1
  BY <1>1, <1>2, <1>3
<1> HIDE DEF b
<1>7. /\ SubSeq(C, b, b + n - 1) = rhs
      /\ [j \in 1 .. n |-> C[b + j - 1]] = rhs
  BY <1>4, <1>5, <1>6, Operands DEF C
<1>8. b + n - 1 = at + m - 1 + n /\ \A j \in 1 .. n : b + j - 1 = at + m - 1 + j
  BY <1>1, <1>3 DEF b
<1>9. [j \in 1 .. n |-> C[at + m - 1 + j]] = [j \in 1 .. n |-> C[b + j - 1]]
  BY <1>8
<1>10. \A j \in 1 .. m : j \in 1 .. Len(ins)
  BY <1>3
<1>11. At(g, k) = at + m + n
  <2>1. at \in Nat /\ At(g, k) = at + Len(ins)
    BY <1>1
  <2> QED BY <1>3, <2>1
<1> QED BY <1>1, <1>7, <1>8, <1>9, <1>10, <1>11 DEF Formed, at, C, n, b, ins

\* A priority rule with the left hand side of the one that was written in full.
LEMMA ShortForm ==
    ASSUME NEW g \in Grammars, NEW k \in 1 .. Len(g.rules),
           g.rules[k].type = "priority", g.rules[k].lhs = Adding(g.rules)[k-1].last
    PROVE  LET r  == g.rules[k]
               at == At(g, k-1)
               C  == Code(g)
           IN  /\ at \in Nat /\ at >= 2 /\ r.lhs \in Symbols
               /\ Command(C[at]) = PRIS /\ Detail(C[at]) = Len(r.rhs)
               /\ At(g, k) = at + 1 + Len(r.rhs) /\ At(g, k) <= Len(C)
               /\ [j \in 1 .. Len(r.rhs) |-> C[at + j]] = r.rhs
               /\ SubSeq(C, at + 1, at + Len(r.rhs)) = r.rhs
<1> DEFINE r  == g.rules[k]
           at == At(g, k-1)
           C  == Code(g)
           n  == Len(r.rhs)
           x  == Cmd(PRIS, n)
           rhs == r.rhs
           ins == Ins(g, k)
<1>1. r.lhs \in Symbols /\ rhs \in Seq(Nat) /\ n \in Symbols /\ n \in Nat /\ n = Len(rhs)
  <2>1. IsRule(r)
    BY CodeFacts, RulesAt
  <2>2. r.lhs \in Symbols /\ r.rhs \in Seq(Symbols) /\ n < High
    BY <2>1 DEF IsRule
  <2>3. r.rhs \in Seq(Nat) /\ n \in Nat
    BY <2>2, SymbolNat
  <2>4. n \in Symbols
    BY <2>2, <2>3, SymbolNat
  <2> QED BY <2>2, <2>3, <2>4
<1>2. x \in Nat /\ Command(x) = PRIS /\ Detail(x) = n
  <2>1. PRIS \in 0 .. 15
    BY DEF PRIS
  <2> QED BY <1>1, <2>1, CmdParts
<1>3. ins = << x >> \o rhs
  BY DEF Instruction, Ins
<1> HIDE DEF x, rhs, n
<1>4. Len(ins) = 1 + n /\ ins[1] = x /\ \A j \in 1 .. n : ins[1 + j] = rhs[j]
  BY <1>1, <1>2, <1>3, HeadedBy1
<1> HIDE DEF ins
<1>5. /\ at \in Nat /\ at >= 2 /\ At(g, k) = at + 1 + n /\ At(g, k) <= Len(C)
      /\ \A j \in 1 .. 1 : C[at + j - 1] = ins[j]
      /\ [j \in 1 .. n |-> C[at + 1 - 1 + j]] = rhs
      /\ SubSeq(C, at + 1, at + 1 - 1 + n) = rhs
  <2>1. PICK m \in Nat : m = 1
    OBVIOUS
  <2>2. Len(ins) = m + Len(rhs) /\ \A j \in 1 .. Len(rhs) : ins[m + j] = rhs[j]
    BY <1>1, <1>4, <2>1
  <2>3. Formed(g, k, m, rhs)
    BY <1>1, <2>2, Form DEF ins
  <2> QED BY <1>1, <2>1, <2>3 DEF Formed, ins
<1> HIDE DEF at, C
<1>6. C[at] = x
  <2>1. 1 \in 1 .. 1 /\ at + 1 - 1 = at
    BY <1>5
  <2> QED BY <1>4, <1>5, <2>1
<1>7. at + 1 - 1 + n = at + n /\ \A j \in 1 .. n : at + 1 - 1 + j = at + j
  BY <1>1, <1>5
<1>8. [j \in 1 .. n |-> C[at + j]] = [j \in 1 .. n |-> C[at + 1 - 1 + j]]
  BY <1>7
<1> QED BY <1>1, <1>2, <1>5, <1>6, <1>7, <1>8 DEF at, C, n, rhs

\* A priority rule that is written in full.
LEMMA LongForm ==
    ASSUME NEW g \in Grammars, NEW k \in 1 .. Len(g.rules),
           g.rules[k].type = "priority", g.rules[k].lhs # Adding(g.rules)[k-1].last
    PROVE  LET r  == g.rules[k]
               at == At(g, k-1)
               C  == Code(g)
           IN  /\ at \in Nat /\ at >= 2 /\ r.lhs \in Symbols
               /\ Command(C[at]) = PRIO /\ Detail(C[at]) = Len(r.rhs) /\ C[at + 1] = r.lhs
               /\ At(g, k) = at + 2 + Len(r.rhs) /\ At(g, k) <= Len(C)
               /\ [j \in 1 .. Len(r.rhs) |-> C[at + 1 + j]] = r.rhs
               /\ SubSeq(C, at + 2, at + 1 + Len(r.rhs)) = r.rhs
<1> DEFINE r  == g.rules[k]
           at == At(g, k-1)
           C  == Code(g)
           n  == Len(r.rhs)
           x  == Cmd(PRIO, n)
           y  == r.lhs
           rhs == r.rhs
           ins == Ins(g, k)
<1>1. y \in Symbols /\ y \in Nat /\ rhs \in Seq(Nat) /\ n \in Symbols /\ n \in Nat /\ n = Len(rhs)
  <2>1. IsRule(r)
    BY CodeFacts, RulesAt
  <2>2. r.lhs \in Symbols /\ r.rhs \in Seq(Symbols) /\ n < High
    BY <2>1 DEF IsRule
  <2>3. r.rhs \in Seq(Nat) /\ n \in Nat /\ r.lhs \in Nat
    BY <2>2, SymbolNat
  <2>4. n \in Symbols
    BY <2>2, <2>3, SymbolNat
  <2> QED BY <2>2, <2>3, <2>4
<1>2. x \in Nat /\ Command(x) = PRIO /\ Detail(x) = n
  <2>1. PRIO \in 0 .. 15
    BY DEF PRIO
  <2> QED BY <1>1, <2>1, CmdParts
<1>3. ins = << x, y >> \o rhs
  BY DEF Instruction, Ins
<1> HIDE DEF x, y, rhs, n
<1>4. Len(ins) = 2 + n /\ ins[1] = x /\ ins[2] = y /\ \A j \in 1 .. n : ins[2 + j] = rhs[j]
  BY <1>1, <1>2, <1>3, HeadedBy2
<1> HIDE DEF ins
<1>5. /\ at \in Nat /\ at >= 2 /\ At(g, k) = at + 2 + n /\ At(g, k) <= Len(C)
      /\ \A j \in 1 .. 2 : C[at + j - 1] = ins[j]
      /\ [j \in 1 .. n |-> C[at + 2 - 1 + j]] = rhs
      /\ SubSeq(C, at + 2, at + 2 - 1 + n) = rhs
  <2>1. PICK m \in Nat : m = 2
    OBVIOUS
  <2>2. Len(ins) = m + Len(rhs) /\ \A j \in 1 .. Len(rhs) : ins[m + j] = rhs[j]
    BY <1>1, <1>4, <2>1
  <2>3. Formed(g, k, m, rhs)
    BY <1>1, <2>2, Form DEF ins
  <2> QED BY <1>1, <2>1, <2>3 DEF Formed, ins
<1> HIDE DEF at, C
<1>6. C[at] = x /\ C[at + 1] = y
  <2>1. 1 \in 1 .. 2 /\ at + 1 - 1 = at /\ 2 \in 1 .. 2 /\ at + 2 - 1 = at + 1
    BY <1>5
  <2>2. C[at + 1 - 1] = ins[1] /\ C[at + 2 - 1] = ins[2]
    BY <1>5, <2>1, Zenon
  <2> QED BY <1>4, <2>1, <2>2
<1>7. at + 2 - 1 + n = at + 1 + n /\ \A j \in 1 .. n : at + 2 - 1 + j = at + 1 + j
  BY <1>1, <1>5
<1>8. [j \in 1 .. n |-> C[at + 1 + j]] = [j \in 1 .. n |-> C[at + 2 - 1 + j]]
  BY <1>7
<1> QED BY <1>1, <1>2, <1>5, <1>6, <1>7, <1>8 DEF at, C, n, rhs, y

\* The first words of an instruction in the code.
LEMMA PlacedWords ==
    ASSUME NEW g \in Grammars, NEW k \in 1 .. Len(g.rules)
    PROVE  LET at == At(g, k-1)
               C  == Code(g)
           IN  /\ at \in Nat /\ at >= 2 /\ At(g, k) = at + Len(Ins(g, k)) /\ At(g, k) <= Len(C)
               /\ Len(Ins(g, k)) >= 2 => C[at] = Ins(g, k)[1] /\ C[at + 1] = Ins(g, k)[2]
               /\ Len(Ins(g, k)) >= 3 => C[at + 2] = Ins(g, k)[3]
<1> DEFINE at == At(g, k-1)
           C  == Code(g)
           ins == Ins(g, k)
<1>1. /\ at \in Nat /\ at >= 2 /\ At(g, k) = at + Len(ins) /\ At(g, k) <= Len(C) /\ Len(ins) \in Nat
      /\ \A j \in 1 .. Len(ins) : C[at + j - 1] = ins[j]
  BY InstructionPlaced DEF Ins
<1> HIDE DEF at, C, ins
<1>2. at + 1 - 1 = at /\ at + 2 - 1 = at + 1 /\ at + 3 - 1 = at + 2
  BY <1>1
<1>3. Len(ins) >= 2 => C[at] = ins[1] /\ C[at + 1] = ins[2]
  <2> SUFFICES ASSUME Len(ins) >= 2 PROVE C[at] = ins[1] /\ C[at + 1] = ins[2]
    OBVIOUS
  <2>1. 1 \in 1 .. Len(ins) /\ 2 \in 1 .. Len(ins)
    BY <1>1
  <2>2. C[at + 1 - 1] = ins[1] /\ C[at + 2 - 1] = ins[2]
    BY <1>1, <2>1, Zenon
  <2> QED BY <1>2, <2>2
<1>4. Len(ins) >= 3 => C[at + 2] = ins[3]
  <2> SUFFICES ASSUME Len(ins) >= 3 PROVE C[at + 2] = ins[3]
    OBVIOUS
  <2>1. 3 \in 1 .. Len(ins)
    BY <1>1
  <2>2. C[at + 3 - 1] = ins[3]
    BY <1>1, <2>1, Zenon
  <2> QED BY <1>2, <2>2
<1> QED BY <1>1, <1>3, <1>4 DEF at, C, ins

\* A list, with and without separator.
Kind(r) == IF r.sep = NoSep THEN r.pos ELSE 2 + r.pos

\* What decoding reads at the instruction of a list.
LEMMA QuantForm ==
    ASSUME NEW g \in Grammars, NEW k \in 1 .. Len(g.rules), g.rules[k].type = "quantified"
    PROVE  LET r  == g.rules[k]
               at == At(g, k-1)
               C  == Code(g)
           IN  /\ at \in Nat /\ at >= 2 /\ Kind(r) \in 0 .. 3 /\ r.pos \in {0, 1}
               /\ Command(C[at]) = QUANT + Kind(r) /\ Detail(C[at]) = r.lhs
               /\ r.rhs = << C[at + 1] >>
               /\ Kind(r) < 2 => r.sep = NoSep /\ r.proper = 0 /\ Kind(r) = r.pos
               /\ Kind(r) >= 2 => /\ Command(C[at + 2]) = r.proper /\ Detail(C[at + 2]) = r.sep
                                  /\ Kind(r) = 2 + r.pos
               /\ At(g, k) = at + (IF Kind(r) < 2 THEN 2 ELSE 3) /\ At(g, k) <= Len(C)
<1> DEFINE r  == g.rules[k]
           at == At(g, k-1)
           C  == Code(g)
           ins == Ins(g, k)
           x == Cmd(QUANT + Kind(r), r.lhs)
           y == r.rhs[1]
           z == Cmd(r.proper, r.sep)
<1>1. /\ at \in Nat /\ at >= 2 /\ At(g, k) = at + Len(ins) /\ At(g, k) <= Len(C)
      /\ Len(ins) >= 2 => C[at] = ins[1] /\ C[at + 1] = ins[2]
      /\ Len(ins) >= 3 => C[at + 2] = ins[3]
  BY PlacedWords
<1>2. IsRule(r)
  BY CodeFacts, RulesAt
<1>3. /\ r.lhs \in Symbols /\ Len(r.rhs) = 1 /\ r.rhs \in Seq(Symbols)
      /\ r.pos \in {0, 1} /\ r.proper \in {0, 1} /\ r.sep \in Symbols \cup {NoSep}
      /\ r.sep = NoSep => r.proper = 0
  BY <1>2 DEF IsRule
<1>4. r.rhs = << y >>
  BY <1>3
<1>5. Kind(r) \in 0 .. 3 /\ QUANT + Kind(r) \in 0 .. 15
  BY <1>3, SMTT(30) DEF Kind, QUANT
<1>6. Command(x) = QUANT + Kind(r) /\ Detail(x) = r.lhs
  BY <1>3, <1>5, CmdParts
<1> HIDE DEF x, y, z, r, at, C, ins
<1>7. CASE r.sep = NoSep
  <2>1. Kind(r) = r.pos
    BY <1>7 DEF Kind
  <2>2. ins = << x, y >>
    BY <1>7, <2>1 DEF Ins, Instruction, ins, x, y, r
  <2>3. Len(ins) = 2 /\ ins[1] = x /\ ins[2] = y
    BY <2>2
  <2>4. C[at] = x /\ C[at + 1] = y /\ At(g, k) = at + 2
    BY <1>1, <2>3
  <2>5. r.pos < 2 /\ ~(r.pos >= 2)
    BY <1>3
  <2> QED BY <1>1, <1>3, <1>4, <1>5, <1>6, <1>7, <2>1, <2>4, <2>5 DEF r, at, C
<1>8. CASE r.sep # NoSep
  <2>1. Kind(r) = 2 + r.pos
    BY <1>8 DEF Kind
  <2>2. r.sep \in Symbols /\ r.proper \in 0 .. 15
    BY <1>3, <1>8
  <2>3. Command(z) = r.proper /\ Detail(z) = r.sep
    BY <2>2, CmdParts DEF z
  <2>4. QUANT + 2 + r.pos = QUANT + Kind(r)
    BY <1>3, <2>1 DEF QUANT
  <2>5. ins = << Cmd(QUANT + 2 + r.pos, r.lhs), y, z >>
    BY <1>8 DEF Ins, Instruction, ins, y, z, r
  <2>6. Cmd(QUANT + 2 + r.pos, r.lhs) = x
    BY <2>4 DEF x
  <2>7. Len(ins) = 3 /\ ins[1] = x /\ ins[2] = y /\ ins[3] = z
    BY <2>5, <2>6
  <2>8. C[at] = x /\ C[at + 1] = y /\ C[at + 2] = z /\ At(g, k) = at + 3
    BY <1>1, <2>7
  <2>9. ~(Kind(r) < 2)
    BY <1>3, <2>1
  <2> QED BY <1>1, <1>3, <1>4, <1>5, <1>6, <1>8, <2>1, <2>3, <2>8, <2>9 DEF r, at, C
<1> QED BY <1>7, <1>8

\* A byte range.
LEMMA BranForm ==
    ASSUME NEW g \in Grammars, NEW k \in 1 .. Len(g.rules), g.rules[k].type = "brange"
    PROVE  LET r  == g.rules[k]
               at == At(g, k-1)
               C  == Code(g)
           IN  /\ at \in Nat /\ at >= 2 /\ r.lhs \in Symbols
               /\ Command(C[at]) = BRAN /\ Detail(C[at]) = r.lhs
               /\ r.rhs[1] \in 0 .. Byte - 1 /\ r.rhs[2] \in 0 .. Byte - 1 /\ r.rhs[1] <= r.rhs[2]
               /\ C[at + 1] \div Byte = r.rhs[1] /\ C[at + 1] % Byte = r.rhs[2]
               /\ At(g, k) = at + 2 /\ At(g, k) <= Len(C)
<1> DEFINE r  == g.rules[k]
           at == At(g, k-1)
           C  == Code(g)
           ins == Ins(g, k)
           x == Cmd(BRAN, r.lhs)
           y == Boxr(r.rhs[1], r.rhs[2])
<1>1. /\ at \in Nat /\ at >= 2 /\ At(g, k) = at + Len(ins) /\ At(g, k) <= Len(C)
      /\ Len(ins) >= 2 => C[at] = ins[1] /\ C[at + 1] = ins[2]
  BY PlacedWords
<1>2. IsRule(r)
  BY CodeFacts, RulesAt
<1>3. /\ r.lhs \in Symbols /\ Len(r.rhs) = 2 /\ r.rhs \in Seq(Symbols)
      /\ r.rhs[1] < Byte /\ r.rhs[2] < Byte /\ r.rhs[1] <= r.rhs[2]
  BY <1>2 DEF IsRule
<1>4. r.rhs[1] \in 0 .. Byte - 1 /\ r.rhs[2] \in 0 .. Byte - 1
  <2>1. r.rhs \in Seq(Nat)
    BY <1>3, SymbolNat
  <2>2. r.rhs[1] \in Nat /\ r.rhs[2] \in Nat
    BY <1>3, <2>1
  <2>3. r.rhs[1] < Byte /\ r.rhs[2] < Byte
    BY <1>3
  <2>4. \A v \in Nat : v < Byte => v \in 0 .. Byte - 1
    BY DEF Byte
  <2> QED BY <2>2, <2>3, <2>4, Zenon
<1>5. BRAN \in 0 .. 15
  BY DEF BRAN
<1>6. Command(x) = BRAN /\ Detail(x) = r.lhs
  BY <1>3, <1>5, CmdParts
<1>7. y \div Byte = r.rhs[1] /\ y % Byte = r.rhs[2]
  BY <1>4, BoxrParts
<1>8. ins = << x, y >>
  BY DEF Ins, Instruction
<1> HIDE DEF x, y, r, at, C, ins
<1>9. Len(ins) = 2 /\ ins[1] = x /\ ins[2] = y
  BY <1>8
<1>10. C[at] = x /\ C[at + 1] = y /\ At(g, k) = at + 2
  BY <1>1, <1>9
<1> QED BY <1>1, <1>3, <1>4, <1>6, <1>7, <1>10 DEF r, at, C

-----------------------------------------------------------------------------
(* The engine                                                              *)

MadeRule == [lhs : Symbols, rhs : Seq(Symbols), min : {-1, 0, 1},
             sep : Symbols \cup {NoSep}, proper : {0, 1}]

\* The rules that a rule of the grammar stands for.
LEMMA MeantFacts ==
    ASSUME NEW r, IsRule(r)
    PROVE  /\ Meant(r) \in Seq(MadeRule)
           /\ r.type # "brange" => Len(Meant(r)) = 1
<1>1. /\ r.lhs \in Symbols /\ r.rhs \in Seq(Symbols)
      /\ r.type \in {"priority", "quantified", "brange"}
  BY DEF IsRule
<1>2. \A rhs \in Seq(Symbols) : Rule(r.lhs, rhs) \in MadeRule
  BY <1>1 DEF Rule, MadeRule
<1>3. CASE r.type = "priority"
  <2>1. Meant(r) = << Rule(r.lhs, r.rhs) >>
    BY <1>3 DEF Meant
  <2>2. Rule(r.lhs, r.rhs) \in MadeRule
    BY <1>1, <1>2
  <2> QED BY <1>3, <2>1, <2>2
<1>4. CASE r.type = "quantified"
  <2> DEFINE x == [lhs |-> r.lhs, rhs |-> r.rhs, min |-> r.pos, sep |-> r.sep, proper |-> r.proper]
  <2>1. Meant(r) = << x >>
    BY <1>4 DEF Meant
  <2>2. r.pos \in {0, 1} /\ r.proper \in {0, 1} /\ r.sep \in Symbols \cup {NoSep}
    BY <1>4 DEF IsRule
  <2>3. x \in MadeRule
    BY <1>1, <2>2 DEF MadeRule
  <2> HIDE DEF x
  <2> QED BY <1>4, <2>1, <2>3
<1>5. CASE r.type = "brange"
  <2> DEFINE n == r.rhs[2] - r.rhs[1] + 1
             w == [k \in 1 .. n |-> Rule(r.lhs, << r.rhs[1] + k - 1 >>)]
  <2>1. Meant(r) = w
    BY <1>5 DEF Meant
  <2>2. /\ Len(r.rhs) = 2 /\ r.rhs[1] < Byte /\ r.rhs[2] < Byte /\ r.rhs[1] <= r.rhs[2]
    BY <1>5 DEF IsRule
  <2>3. r.rhs[1] \in Nat /\ r.rhs[2] \in Nat
    <3>1. r.rhs \in Seq(Nat)
      BY <1>1, SymbolNat
    <3> QED BY <2>2, <3>1
  <2> DEFINE a == r.rhs[1]
             b == r.rhs[2]
  <2>4. a \in Nat /\ b \in Nat /\ a < Byte /\ b < Byte /\ a <= b /\ n = b - a + 1
    BY <2>2, <2>3
  <2> HIDE DEF a, b, n
  <2>5. n \in Nat
    BY <2>4
  <2>6. ASSUME NEW k \in 1 .. n PROVE w[k] \in MadeRule
    <3>1. a + k - 1 \in Symbols
      BY <2>4, <2>5 DEF Symbols, High, Byte
    <3>2. << a + k - 1 >> \in Seq(Symbols)
      BY <3>1
    <3>3. w[k] = Rule(r.lhs, << a + k - 1 >>)
      BY DEF a
    <3> QED BY <1>2, <3>2, <3>3
  <2>7. w \in [1 .. n -> MadeRule]
    BY <2>6
  <2> HIDE DEF w
  <2> QED BY <1>5, <2>1, <2>5, <2>7, IsSequence
<1> QED BY <1>1, <1>3, <1>4, <1>5

\* What the rules mean, as a sequence.
LEMMA MeaningsFacts ==
    ASSUME NEW g \in Grammars
    PROVE  /\ Meanings(g) \in Seq(Seq(MadeRule)) /\ Len(Meanings(g)) = Len(g.rules)
           /\ \A k \in 1 .. Len(g.rules) : Meanings(g)[k] = Meant(g.rules[k])
<1> DEFINE n == Len(g.rules)
           S == Seq(MadeRule)
           w == [k \in 1 .. n |-> Meant(g.rules[k])]
<1>1. n \in Nat /\ GoodRules(g.rules)
  BY CodeFacts
<1>2. \A k \in 1 .. n : w[k] \in S
  <2>1. \A k \in 1 .. n : IsRule(g.rules[k])
    BY <1>1, RulesAt
  <2> QED BY <2>1, MeantFacts
<1>3. Meanings(g) = w
  BY DEF Meanings
<1>4. \A k \in 1 .. n : w[k] = Meant(g.rules[k])
  OBVIOUS
<1> HIDE DEF S
<1>5. w \in [1 .. n -> S]
  BY <1>2
<1> HIDE DEF w, n
<1>6. w \in Seq(S) /\ Len(w) = n
  BY <1>1, <1>5, IsSequence
<1> QED BY <1>3, <1>4, <1>6 DEF S, n

\* What is made of the first k rules: the rules, and the entry behind each of them.
Entry == [pc : Nat, arg : Nat]
Sides(rule) == [lhs |-> rule.lhs, rhs |-> rule.rhs]
Made(g, k, made, data) ==
    /\ made = Joined(Meanings(g))[k]
    /\ data \in Seq(Entry) /\ Len(data) = Len(made)
    /\ \A r \in 1 .. Len(made) : Behind(Code(g), data[r]) = Sides(made[r])

\* The rules that were made are rules.
LEMMA MadeTyped ==
    ASSUME NEW g \in Grammars, NEW k \in 0 .. Len(g.rules), NEW made, NEW data,
           Made(g, k, made, data)
    PROVE  made \in Seq(MadeRule) /\ Len(made) \in Nat
<1> DEFINE J == Joined(Meanings(g))
           n == Len(g.rules)
           S == Seq(MadeRule)
<1>1. Meanings(g) \in Seq(Seq(MadeRule)) /\ Len(Meanings(g)) = n
  BY MeaningsFacts
<1>2. J \in [0 .. Len(Meanings(g)) -> Seq(MadeRule)]
  BY <1>1, JoinedFacts, Zenon
<1>3. J \in [0 .. n -> S] /\ made = J[k]
  BY <1>1, <1>2 DEF Made
<1> HIDE DEF J, S
<1>4. made \in S
  BY <1>3
<1>5. made \in Seq(MadeRule)
  BY <1>4 DEF S
<1> QED BY <1>5

Together(S, a, b) ==
    /\ a \o b \in Seq(S) /\ Len(a \o b) = Len(a) + Len(b)
    /\ \A j \in 1 .. Len(a) : (a \o b)[j] = a[j]
    /\ \A j \in 1 .. Len(b) : (a \o b)[Len(a) + j] = b[j]

\* Any two sequences are together what ConcatParts says.
LEMMA TogetherIs ==
    ASSUME NEW S, NEW a \in Seq(S), NEW b \in Seq(S)
    PROVE  Together(S, a, b)
BY ConcatParts DEF Together

\* A position that is not in the first part is in the second.
LEMMA InSecond ==
    ASSUME NEW a \in Nat, NEW b \in Nat, NEW r \in 1 .. a + b, r \notin 1 .. a
    PROVE  \E j \in 1 .. b : r = a + j
<1>1. r - a \in 1 .. b /\ r = a + (r - a)
  OBVIOUS
<1> QED BY <1>1

\* What was made up to a rule, together with what is made of that rule.
LEMMA MadeNext ==
    ASSUME NEW g \in Grammars, NEW k \in 1 .. Len(g.rules), NEW made, NEW data,
           Made(g, k-1, made, data), NEW new \in Seq(Entry),
           Len(new) = Len(Meant(g.rules[k])),
           \A j \in 1 .. Len(new) : Behind(Code(g), new[j]) = Sides(Meant(g.rules[k])[j])
    PROVE  Made(g, k, made \o Meant(g.rules[k]), data \o new)
<1> DEFINE J == Joined(Meanings(g))
           n == Len(g.rules)
           m == Meant(g.rules[k])
           C == Code(g)
<1>1. n \in Nat /\ GoodRules(g.rules)
  BY CodeFacts
<1>2. m \in Seq(MadeRule)
  <2>1. IsRule(g.rules[k])
    BY <1>1, RulesAt
  <2> QED BY <2>1, MeantFacts
<1>3. J[k] = J[k-1] \o m
  <2>1. /\ Meanings(g) \in Seq(Seq(MadeRule)) /\ Len(Meanings(g)) = n
        /\ \A i \in 1 .. n : Meanings(g)[i] = Meant(g.rules[i])
    BY MeaningsFacts
  <2>2. \A i \in 1 .. Len(Meanings(g)) : J[i] = J[i-1] \o Meanings(g)[i]
    BY <2>1, JoinedFacts, Zenon
  <2> QED BY <2>1, <2>2
<1>4. made = J[k-1] /\ data \in Seq(Entry) /\ Len(data) = Len(made)
      /\ \A r \in 1 .. Len(made) : Behind(C, data[r]) = Sides(made[r])
  BY DEF Made
<1>5. made \in Seq(MadeRule)
  <2>1. k - 1 \in 0 .. n
    BY <1>1
  <2> QED BY <2>1, MadeTyped
<1>6. Len(new) = Len(m) /\ \A j \in 1 .. Len(new) : Behind(C, new[j]) = Sides(m[j])
  OBVIOUS
<1>7. made \o m = J[k]
  BY <1>3, <1>4
<1> HIDE DEF J, m, C, n
<1>8. /\ made \o m \in Seq(MadeRule) /\ Len(made \o m) = Len(made) + Len(m)
      /\ Len(made) \in Nat /\ Len(m) \in Nat
      /\ \A j \in 1 .. Len(made) : (made \o m)[j] = made[j]
      /\ \A j \in 1 .. Len(m) : (made \o m)[Len(made) + j] = m[j]
  BY <1>2, <1>5, ConcatParts
<1>9. /\ data \o new \in Seq(Entry) /\ Len(data \o new) = Len(data) + Len(new)
      /\ \A j \in 1 .. Len(data) : (data \o new)[j] = data[j]
      /\ \A j \in 1 .. Len(new) : (data \o new)[Len(data) + j] = new[j]
  <2>1. data \in Seq(Entry)
    BY <1>4
  <2>2. Together(Entry, data, new)
    BY <2>1, TogetherIs
  <2> QED BY <2>2 DEF Together
<1> DEFINE a == Len(made)
           b == Len(m)
           q == made \o m
           d == data \o new
<1>10. /\ a \in Nat /\ b \in Nat /\ Len(data) = a /\ Len(new) = b /\ Len(q) = a + b /\ Len(d) = a + b
  BY <1>4, <1>6, <1>8, <1>9
<1>11. ASSUME NEW r \in 1 .. Len(q) PROVE Behind(C, d[r]) = Sides(q[r])
  <2>1. CASE r \in 1 .. a
    <3>1. d[r] = data[r] /\ q[r] = made[r]
      BY <1>8, <1>9, <1>10, <2>1
    <3> QED BY <1>4, <2>1, <3>1
  <2>2. CASE r \notin 1 .. a
    <3>1. PICK j \in 1 .. b : r = a + j
      <4>1. a \in Nat /\ b \in Nat /\ r \in 1 .. a + b /\ r \notin 1 .. a
        BY <1>10, <2>2
      <4> HIDE DEF a, b
      <4> QED BY <4>1, InSecond
    <3>2. d[r] = new[j] /\ q[r] = m[j]
      BY <1>8, <1>9, <1>10, <3>1
    <3>3. j \in 1 .. Len(new)
      BY <1>10
    <3> QED BY <1>6, <3>2, <3>3
  <2> QED BY <2>1, <2>2
<1> QED BY <1>7, <1>9, <1>10, <1>11 DEF Made, J, C, m

\* The sides that a report shows, by instruction.
BehindIs(C, e) ==
    /\ Command(C[e.pc]) = PRIO => Behind(C, e) = [lhs |-> C[e.pc + 1],
                                     rhs |-> SubSeq(C, e.pc + 2, e.pc + 1 + Detail(C[e.pc]))]
    /\ Command(C[e.pc]) = PRIS => Behind(C, e) = [lhs |-> C[e.arg + 1],
                                     rhs |-> SubSeq(C, e.pc + 1, e.pc + Detail(C[e.pc]))]
    /\ Command(C[e.pc]) = BRAN => Behind(C, e) = [lhs |-> Detail(C[e.pc]), rhs |-> << e.arg >>]
    /\ Command(C[e.pc]) \notin {PRIO, PRIS, BRAN} =>
         Behind(C, e) = [lhs |-> Detail(C[e.pc]), rhs |-> << C[e.pc + 1] >>]

\* Where the sides of a rule are read from, form by form (progress.c:20-79).
LEMMA BehindCases == \A C, e : BehindIs(C, e)
<1> TAKE C, e
<1> DEFINE cmd == Command(C[e.pc])
           n == Detail(C[e.pc])
           first == [lhs |-> C[e.pc + 1], rhs |-> SubSeq(C, e.pc + 2, e.pc + 1 + n)]
           second == [lhs |-> C[e.arg + 1], rhs |-> SubSeq(C, e.pc + 1, e.pc + n)]
           third == [lhs |-> n, rhs |-> << e.arg >>]
           fourth == [lhs |-> n, rhs |-> << C[e.pc + 1] >>]
<1>1. Behind(C, e) = CASE cmd = PRIO -> first
                       [] cmd = PRIS -> second
                       [] cmd = BRAN -> third
                       [] OTHER      -> fourth
  BY DEF Behind
<1>2. PRIO # PRIS /\ PRIO # BRAN /\ PRIS # BRAN
  BY DEF PRIO, PRIS, BRAN
<1> HIDE DEF cmd, first, second, third, fourth
<1>3. /\ cmd = PRIO => Behind(C, e) = first
      /\ cmd = PRIS => Behind(C, e) = second
      /\ cmd = BRAN => Behind(C, e) = third
      /\ cmd \notin {PRIO, PRIS, BRAN} => Behind(C, e) = fourth
  BY <1>1, <1>2
<1> QED BY <1>3 DEF BehindIs, cmd, first, second, third, fourth

\* The left hand side that the engine has kept is the one that the generator counts on.
Kept(g, k, last, at) ==
    LET w == Adding(g.rules)[k].last
    IN  at \in Nat /\ (w # -1 => last = w /\ Code(g)[at + 1] = w)

\* The generator remembers the left-hand side of the last priority rule only.
LEMMA LastIs ==
    ASSUME NEW g \in Grammars, NEW k \in 1 .. Len(g.rules)
    PROVE  Adding(g.rules)[k].last = IF g.rules[k].type = "priority" THEN g.rules[k].lhs
                                     ELSE Adding(g.rules)[k-1].last
<1> DEFINE x == Adding(g.rules)[k-1]
           y == g.rules[k]
<1>1. Adding(g.rules)[k] = Added(x, y)
  <2>1. GoodRules(g.rules)
    BY CodeFacts
  <2> QED BY <2>1, AddingFacts
<1> HIDE DEF x, y
<1>2. Added(x, y).last = IF y.type = "priority" THEN y.lhs ELSE x.last
  BY DEF Added
<1> QED BY <1>1, <1>2 DEF x, y

\* Appending is joining with a sequence of one.
LEMMA AppendOne ==
    ASSUME NEW S, NEW s \in Seq(S), NEW x
    PROVE  Append(s, x) = s \o << x >>
OBVIOUS

\* The entry behind a rule that is one instruction.
LEMMA MadeOne ==
    ASSUME NEW g \in Grammars, NEW k \in 1 .. Len(g.rules), NEW made, NEW data,
           Made(g, k-1, made, data), NEW x, NEW e \in Entry,
           Meant(g.rules[k]) = << x >>, Behind(Code(g), e) = Sides(x)
    PROVE  Made(g, k, Append(made, x), data \o << e >>)
<1> DEFINE m == Meant(g.rules[k])
           new == << e >>
<1>1. new \in Seq(Entry) /\ Len(new) = 1 /\ new[1] = e
  OBVIOUS
<1>2. Len(m) = 1 /\ m[1] = x
  OBVIOUS
<1> HIDE DEF new
<1>3. \A j \in 1 .. Len(new) : Behind(Code(g), new[j]) = Sides(m[j])
  <2> TAKE j \in 1 .. Len(new)
  <2>1. j = 1
    BY <1>1
  <2> QED BY <1>1, <1>2, <2>1
<1>4. Made(g, k, made \o m, data \o new)
  BY <1>1, <1>2, <1>3, MadeNext
<1>5. made \in Seq(MadeRule)
  <2>1. k - 1 \in 0 .. Len(g.rules)
    BY CodeFacts
  <2> QED BY <2>1, MadeTyped
<1>6. Append(made, x) = made \o m
  BY <1>5, AppendOne
<1> QED BY <1>4, <1>6 DEF new

\* A priority rule under the left-hand side of the one before (spec.c:116-134).
LEMMA ShortStep ==
    ASSUME NEW g \in Grammars, NEW k \in 1 .. Len(g.rules),
           g.rules[k].type = "priority", g.rules[k].lhs = Adding(g.rules)[k-1].last,
           NEW made, NEW data, Made(g, k-1, made, data),
           NEW last, NEW a, Kept(g, k-1, last, a),
           NEW n, n = Detail(Code(g)[At(g, k-1)])
    PROVE  /\ Made(g, k, Append(made, Rule(last, [j \in 1 .. n |-> Code(g)[At(g, k-1) + j]])),
                   data \o << [pc |-> At(g, k-1), arg |-> a] >>)
           /\ Kept(g, k, last, a)
<1> DEFINE r == g.rules[k]
           at == At(g, k-1)
           C == Code(g)
           e == [pc |-> at, arg |-> a]
           rhs == r.rhs
<1>1. /\ at \in Nat /\ r.lhs \in Symbols /\ Command(C[at]) = PRIS /\ Detail(C[at]) = Len(rhs)
      /\ [j \in 1 .. Len(rhs) |-> C[at + j]] = rhs
      /\ SubSeq(C, at + 1, at + Len(rhs)) = rhs
  BY ShortForm
<1>2. a \in Nat /\ last = r.lhs /\ C[a + 1] = r.lhs
  <2>1. r.lhs # -1
    BY <1>1, SymbolNat
  <2> QED BY <2>1 DEF Kept
<1>3. Meant(r) = << Rule(r.lhs, rhs) >>
  BY DEF Meant
<1>4. e \in Entry /\ e.pc = at /\ e.arg = a
  BY <1>1, <1>2 DEF Entry
<1> HIDE DEF e, r, at, C, rhs
<1>5. Behind(C, e) = Sides(Rule(r.lhs, rhs))
  <2>1. PRIS # PRIO
    BY DEF PRIS, PRIO
  <2>2. Behind(C, e) = [lhs |-> C[a + 1], rhs |-> SubSeq(C, at + 1, at + Detail(C[at]))]
    <3>1. BehindIs(C, e)
      BY BehindCases
    <3> QED BY <1>1, <1>4, <3>1 DEF BehindIs
  <2> QED BY <1>1, <1>2, <2>2 DEF Sides, Rule
<1>6. Made(g, k, Append(made, Rule(r.lhs, rhs)), data \o << e >>)
  BY <1>3, <1>4, <1>5, MadeOne DEF r, C
<1>7. Rule(last, [j \in 1 .. n |-> C[at + j]]) = Rule(r.lhs, rhs)
  BY <1>1, <1>2 DEF C, at
<1>8. Kept(g, k, last, a)
  <2>1. Adding(g.rules)[k].last = r.lhs
    BY LastIs DEF r
  <2> QED BY <1>2, <2>1 DEF Kept, C
<1> QED BY <1>6, <1>7, <1>8 DEF r, at, C, e

\* A priority rule with a left-hand side of its own (spec.c:94-115).
LEMMA LongStep ==
    ASSUME NEW g \in Grammars, NEW k \in 1 .. Len(g.rules),
           g.rules[k].type = "priority", g.rules[k].lhs # Adding(g.rules)[k-1].last,
           NEW made, NEW data, Made(g, k-1, made, data),
           NEW n, n = Detail(Code(g)[At(g, k-1)])
    PROVE  /\ Made(g, k, Append(made, Rule(Code(g)[At(g, k-1) + 1],
                                           [j \in 1 .. n |-> Code(g)[At(g, k-1) + (1 + j)]])),
                   data \o << [pc |-> At(g, k-1), arg |-> 0] >>)
           /\ Kept(g, k, Code(g)[At(g, k-1) + 1], At(g, k-1))
<1> DEFINE r == g.rules[k]
           at == At(g, k-1)
           C == Code(g)
           e == [pc |-> at, arg |-> 0]
           rhs == r.rhs
<1>1. /\ at \in Nat /\ r.lhs \in Symbols /\ Command(C[at]) = PRIO /\ Detail(C[at]) = Len(rhs)
      /\ C[at + 1] = r.lhs
      /\ [j \in 1 .. Len(rhs) |-> C[at + 1 + j]] = rhs
      /\ SubSeq(C, at + 2, at + 1 + Len(rhs)) = rhs
  BY LongForm
<1>3. Meant(r) = << Rule(r.lhs, rhs) >>
  BY DEF Meant
<1>4. e \in Entry /\ e.pc = at
  BY <1>1 DEF Entry
<1> HIDE DEF e, r, at, C, rhs
<1>5. Behind(C, e) = Sides(Rule(r.lhs, rhs))
  <2>2. Behind(C, e) = [lhs |-> C[at + 1], rhs |-> SubSeq(C, at + 2, at + 1 + Detail(C[at]))]
    <3>1. BehindIs(C, e)
      BY BehindCases
    <3> QED BY <1>1, <1>4, <3>1 DEF BehindIs
  <2> QED BY <1>1, <2>2 DEF Sides, Rule
<1>6. Made(g, k, Append(made, Rule(r.lhs, rhs)), data \o << e >>)
  BY <1>3, <1>4, <1>5, MadeOne DEF r, C
<1>7. Rule(C[at + 1], [j \in 1 .. n |-> C[at + (1 + j)]]) = Rule(r.lhs, rhs)
  <2>1. n = Len(rhs)
    BY <1>1 DEF C, at
  <2>2. \A j \in 1 .. n : at + (1 + j) = at + 1 + j
    BY <1>1
  <2>3. [j \in 1 .. n |-> C[at + (1 + j)]] = [j \in 1 .. n |-> C[at + 1 + j]]
    BY <2>2
  <2> QED BY <1>1, <2>1, <2>3
<1>8. Kept(g, k, C[at + 1], at)
  <2>1. Adding(g.rules)[k].last = r.lhs
    BY LastIs DEF r
  <2> QED BY <1>1, <2>1 DEF Kept, C
<1> QED BY <1>6, <1>7, <1>8 DEF r, at, C, e

\* Other rules leave alone what is remembered of the last priority rule.
LEMMA KeptOn ==
    ASSUME NEW g \in Grammars, NEW k \in 1 .. Len(g.rules), g.rules[k].type # "priority",
           NEW last, NEW a, Kept(g, k-1, last, a)
    PROVE  Kept(g, k, last, a)
BY LastIs DEF Kept

\* Whether a list may be empty, in both halves of the command.
LEMMA Halves == \A p \in {0, 1} : p % 2 = p /\ (2 + p) % 2 = p
OBVIOUS

\* The bounds and the width of a range of bytes are numbers.
LEMMA ByteNat ==
    /\ \A v \in 0 .. Byte - 1 : v \in Nat
    /\ \A a, b \in Nat : a <= b => b - a + 1 \in Nat
BY DEF Byte

\* A list, with and without separator.
LEMMA QuantStep ==
    ASSUME NEW g \in Grammars, NEW k \in 1 .. Len(g.rules), g.rules[k].type = "quantified",
           NEW made, NEW data, Made(g, k-1, made, data),
           NEW q \in 0 .. 3, Command(Code(g)[At(g, k-1)]) = QUANT + q
    PROVE  LET at == At(g, k-1)
               C  == Code(g)
           IN  /\ Made(g, k, Append(made,
                         [lhs |-> Detail(C[at]), rhs |-> << C[at + 1] >>, min |-> q % 2,
                          sep    |-> IF q < 2 THEN NoSep ELSE Detail(C[at + 2]),
                          proper |-> IF q < 2 THEN 0 ELSE Command(C[at + 2])]),
                       data \o << [pc |-> at, arg |-> 0] >>)
               /\ At(g, k) = at + (IF q < 2 THEN 2 ELSE 3)
<1> DEFINE r == g.rules[k]
           at == At(g, k-1)
           C == Code(g)
           e == [pc |-> at, arg |-> 0]
           x == [lhs |-> Detail(C[at]), rhs |-> << C[at + 1] >>, min |-> q % 2,
                 sep    |-> IF q < 2 THEN NoSep ELSE Detail(C[at + 2]),
                 proper |-> IF q < 2 THEN 0 ELSE Command(C[at + 2])]
           y == [lhs |-> r.lhs, rhs |-> r.rhs, min |-> r.pos, sep |-> r.sep, proper |-> r.proper]
<1>1. /\ at \in Nat /\ Kind(r) \in 0 .. 3 /\ r.pos \in {0, 1}
      /\ Command(C[at]) = QUANT + Kind(r) /\ Detail(C[at]) = r.lhs
      /\ r.rhs = << C[at + 1] >>
      /\ Kind(r) < 2 => r.sep = NoSep /\ r.proper = 0 /\ Kind(r) = r.pos
      /\ Kind(r) >= 2 => /\ Command(C[at + 2]) = r.proper /\ Detail(C[at + 2]) = r.sep
                         /\ Kind(r) = 2 + r.pos
      /\ At(g, k) = at + (IF Kind(r) < 2 THEN 2 ELSE 3)
  BY QuantForm
<1>2. Meant(r) = << y >>
  BY DEF Meant
<1>3. q = Kind(r)
  <2>1. Kind(r) \in 0 .. 3 /\ QUANT + q = QUANT + Kind(r)
    BY <1>1
  <2>2. \A i, j \in 0 .. 3 : QUANT + i = QUANT + j => i = j
    BY DEF QUANT
  <2> QED BY <2>1, <2>2, Zenon
<1>4. e \in Entry /\ e.pc = at
  BY <1>1 DEF Entry
<1>5. y = [lhs |-> r.lhs, rhs |-> r.rhs, min |-> r.pos, sep |-> r.sep, proper |-> r.proper]
  OBVIOUS
<1>a. x = [lhs |-> Detail(C[at]), rhs |-> << C[at + 1] >>, min |-> q % 2,
           sep    |-> IF q < 2 THEN NoSep ELSE Detail(C[at + 2]),
           proper |-> IF q < 2 THEN 0 ELSE Command(C[at + 2])]
  OBVIOUS
<1> HIDE DEF e, r, at, C, x, y
<1>6. ASSUME q < 2 PROVE x = y
  <2>1. q = r.pos /\ r.sep = NoSep /\ r.proper = 0
    BY <1>1, <1>3, <1>6
  <2>2. q % 2 = r.pos
    BY <1>1, <2>1, Halves
  <2>3. x = [lhs |-> Detail(C[at]), rhs |-> << C[at + 1] >>, min |-> q % 2, sep |-> NoSep, proper |-> 0]
    BY <1>6, <1>a
  <2> QED BY <1>1, <1>5, <2>1, <2>2, <2>3
<1>7. ASSUME ~(q < 2) PROVE x = y
  <2>1. q = 2 + r.pos /\ Command(C[at + 2]) = r.proper /\ Detail(C[at + 2]) = r.sep
    <3>1. Kind(r) >= 2
      BY <1>3, <1>7
    <3> QED BY <1>1, <1>3, <3>1
  <2>2. q % 2 = r.pos
    BY <1>1, <2>1, Halves
  <2>3. x = [lhs |-> Detail(C[at]), rhs |-> << C[at + 1] >>, min |-> q % 2,
             sep |-> Detail(C[at + 2]), proper |-> Command(C[at + 2])]
    BY <1>7, <1>a
  <2> QED BY <1>1, <1>5, <2>1, <2>2, <2>3
<1>8. x = y
  BY <1>6, <1>7
<1>9. Behind(C, e) = Sides(y)
  <2>1. QUANT + q \notin {PRIO, PRIS, BRAN}
    BY DEF QUANT, PRIO, PRIS, BRAN
  <2>2. Command(C[at]) \notin {PRIO, PRIS, BRAN}
    BY <1>1, <1>3, <2>1
  <2>3. BehindIs(C, e)
    BY BehindCases
  <2>4. Behind(C, e) = [lhs |-> Detail(C[at]), rhs |-> << C[at + 1] >>]
    BY <1>4, <2>2, <2>3 DEF BehindIs
  <2> QED BY <1>1, <1>5, <2>4 DEF Sides
<1>10. Made(g, k, Append(made, y), data \o << e >>)
  BY <1>2, <1>4, <1>9, MadeOne DEF r, C
<1> QED BY <1>1, <1>3, <1>8, <1>10 DEF r, at, C, e, x

\* A range of bytes: a rule for each of them.
LEMMA BranStep ==
    ASSUME NEW g \in Grammars, NEW k \in 1 .. Len(g.rules), g.rules[k].type = "brange",
           NEW made, NEW data, Made(g, k-1, made, data),
           NEW start, start = Code(g)[At(g, k-1) + 1] \div Byte,
           NEW stop, stop = Code(g)[At(g, k-1) + 1] % Byte
    PROVE  LET at == At(g, k-1)
               C  == Code(g)
           IN  Made(g, k, made \o [j \in 1 .. stop - start + 1 |->
                                     Rule(Detail(C[at]), << start + j - 1 >>)],
                    data \o [j \in 1 .. stop - start + 1 |-> [pc |-> at, arg |-> start + j - 1]])
<1> DEFINE r == g.rules[k]
           at == At(g, k-1)
           C == Code(g)
           n == stop - start + 1
           m == [j \in 1 .. n |-> Rule(Detail(C[at]), << start + j - 1 >>)]
           new == [j \in 1 .. n |-> [pc |-> at, arg |-> start + j - 1]]
<1>1. /\ at \in Nat /\ Command(C[at]) = BRAN /\ Detail(C[at]) = r.lhs
      /\ start \in 0 .. Byte - 1 /\ stop \in 0 .. Byte - 1 /\ start <= stop
      /\ start = r.rhs[1] /\ stop = r.rhs[2]
  BY BranForm
<1>2. n \in Nat /\ start \in Nat
  <2>1. start \in 0 .. Byte - 1 /\ stop \in 0 .. Byte - 1 /\ start <= stop
    BY <1>1
  <2>2. start \in Nat /\ stop \in Nat
    BY <2>1, ByteNat, Zenon
  <2> QED BY <2>1, <2>2, ByteNat, Zenon
<1>3. Meant(r) = m
  BY <1>1 DEF Meant
<1> HIDE DEF r, at, C, n
<1>4. ASSUME NEW j \in 1 .. n PROVE new[j] \in Entry /\ Behind(C, new[j]) = Sides(m[j])
  <2> DEFINE e == [pc |-> at, arg |-> start + j - 1]
  <2>1. start + j - 1 \in Nat
    BY <1>2
  <2>2. e \in Entry /\ e.pc = at /\ e.arg = start + j - 1
    BY <1>1, <2>1 DEF Entry
  <2>3. m[j] = Rule(Detail(C[at]), << start + j - 1 >>) /\ new[j] = e
    OBVIOUS
  <2> HIDE DEF e, m, new
  <2>4. BehindIs(C, e)
    BY BehindCases
  <2>5. Behind(C, e) = [lhs |-> Detail(C[at]), rhs |-> << start + j - 1 >>]
    BY <1>1, <2>2, <2>4 DEF BehindIs
  <2>6. Sides(m[j]) = [lhs |-> Detail(C[at]), rhs |-> << start + j - 1 >>]
    BY <2>3 DEF Sides, Rule
  <2> QED BY <2>2, <2>3, <2>5, <2>6
<1>5. new \in Seq(Entry) /\ Len(new) = n
  <2>1. new \in [1 .. n -> Entry]
    BY <1>4
  <2> HIDE DEF new
  <2> QED BY <1>2, <2>1, IsSequence
<1>6. Len(m) = n
  BY <1>2
<1> HIDE DEF m, new
<1>7. Made(g, k, made \o Meant(r), data \o new)
  BY <1>3, <1>4, <1>5, <1>6, MadeNext DEF r, C
<1> QED BY <1>3, <1>7 DEF at, C, n, m, new

-----------------------------------------------------------------------------
(* The invariant: what is done of the instructions, and what that has made *)

Reached(k) ==
    /\ Made(grammar, k, rules, rd)
    /\ ssz = Adding(grammar.rules)[Len(grammar.rules)].pad
    /\ Kept(grammar, k, lastlhs, lpc)

Fresh     == pc = 1 /\ rules = << >> /\ rd = << >> /\ lpc = 0
Midway(k) == pc = At(grammar, k) /\ Reached(k)
Finished  == pc = 0 /\ Reached(Len(grammar.rules))

Given ==
    /\ grammar \in Grammars
    /\ code = [rules |-> Code(grammar), mask |-> Masks(grammar), semantic |-> Semantics(grammar)]

DecodeInv ==
    /\ Given
    /\ Fresh \/ Finished \/ \E k \in 0 .. Len(grammar.rules) : Midway(k)

\* An instruction is executed by the action for it.
LEMMA WhichAction ==
    ASSUME Decode, NEW w, w = code.rules[pc], pc \in Nat
    PROVE  /\ pc # 0 /\ Word(0) = w
           /\ Command(w) = SETUP => Setup
           /\ Command(w) = DONE  => Done
           /\ Command(w) = PRIO  => Prio
           /\ Command(w) = PRIS  => Pris
           /\ \A q \in 0 .. 3 : Command(w) = QUANT + q => Quant
           /\ Command(w) = BRAN  => Bran
<1>1. Word(0) = w
  <2>1. pc + 0 = pc
    OBVIOUS
  <2> QED BY <2>1 DEF Word
<1> DEFINE c == Command(w)
<1>2. /\ Setup => c = SETUP /\ pc # 0
      /\ Done => c = DONE /\ pc # 0
      /\ Prio => c = PRIO /\ pc # 0
      /\ Pris => c = PRIS /\ pc # 0
      /\ Quant => (\E q \in 0 .. 3 : c = QUANT + q) /\ pc # 0
      /\ Bran => c = BRAN /\ pc # 0
  BY <1>1 DEF Setup, Done, Prio, Pris, Quant, Bran, Fetched
<1> HIDE DEF c
<1>3. Setup \/ Prio \/ Pris \/ Quant \/ Bran \/ Done
  BY DEF Decode
<1>4. /\ SETUP \notin {DONE, PRIO, PRIS, BRAN} /\ DONE \notin {PRIO, PRIS, BRAN}
      /\ PRIO \notin {PRIS, BRAN} /\ PRIS # BRAN
      /\ \A q \in 0 .. 3 : QUANT + q \notin {SETUP, DONE, PRIO, PRIS, BRAN}
  BY DEF SETUP, DONE, PRIO, PRIS, QUANT, BRAN
<1>5. pc # 0
  BY <1>2, <1>3
<1>6. /\ c = SETUP => Setup
      /\ c = DONE => Done
      /\ c = PRIO => Prio
      /\ c = PRIS => Pris
      /\ c = BRAN => Bran
  BY <1>2, <1>3, <1>4
<1>7. \A q \in 0 .. 3 : c = QUANT + q => Quant
  BY <1>2, <1>3, <1>4
<1> QED BY <1>1, <1>5, <1>6, <1>7 DEF c

\* The instruction that starts the code leads to the first rule.
LEMMA FirstStep ==
    ASSUME Given, Fresh, Decode
    PROVE  Given' /\ Midway(0)'
<1> DEFINE C == Code(grammar)
<1>1. /\ Command(C[1]) = SETUP /\ Detail(C[1]) = Adding(grammar.rules)[Len(grammar.rules)].pad
      /\ At(grammar, 0) = 2 /\ GoodRules(grammar.rules)
  BY CodeFacts DEF Given
<1>2. code.rules = C /\ pc = 1 /\ pc \in Nat
  BY DEF Given, Fresh
<1> HIDE DEF C
<1>3. Word(0) = C[1] /\ Setup
  <2>1. C[1] = code.rules[pc]
    BY <1>2
  <2> QED BY <1>1, <1>2, <2>1, WhichAction
<1>4. /\ ssz' = Detail(C[1]) /\ pc' = pc + 1
      /\ UNCHANGED << grammar, code, lastlhs, lpc, rules, rd >>
  BY <1>3 DEF Setup
<1>5. Given'
  BY <1>4 DEF Given
<1>6. Made(grammar, 0, << >>, << >>)
  <2>1. Meanings(grammar) \in Seq(Seq(MadeRule))
    BY MeaningsFacts DEF Given
  <2>2. Joined(Meanings(grammar))[0] = << >>
    BY <2>1, JoinedFacts, Zenon
  <2>3. << >> \in Seq(Entry) /\ Len(<< >>) = 0
    OBVIOUS
  <2> QED BY <2>2, <2>3 DEF Made
<1>7. Kept(grammar, 0, lastlhs, 0)
  <2>1. Adding(grammar.rules)[0].last = -1
    BY <1>1, AddingFacts
  <2> QED BY <2>1 DEF Kept
<1>8. pc' = At(grammar, 0)
  BY <1>1, <1>2, <1>4
<1>9. Made(grammar, 0, rules, rd) /\ Kept(grammar, 0, lastlhs, lpc)
  BY <1>6, <1>7 DEF Fresh
<1> QED BY <1>1, <1>4, <1>5, <1>8, <1>9 DEF Midway, Reached

\* The instruction that ends the code leads to the end.
LEMMA LastStep ==
    ASSUME Given, Midway(Len(grammar.rules)), Decode
    PROVE  Given' /\ Finished'
<1> DEFINE C == Code(grammar)
           n == Len(grammar.rules)
<1>1. /\ Command(C[At(grammar, n)]) = DONE /\ At(grammar, n) \in Nat
  <2>1. n \in Nat
    BY CodeFacts DEF Given
  <2>2. n \in 0 .. n
    BY <2>1
  <2> QED BY <2>2, CodeFacts DEF Given
<1>2. code.rules = C /\ pc = At(grammar, n)
  BY DEF Given, Midway
<1> HIDE DEF C
<1>3. Done
  BY <1>1, <1>2, WhichAction
<1>4. pc' = 0 /\ UNCHANGED << grammar, code, ssz, lastlhs, lpc, rules, rd >>
  BY <1>3 DEF Done
<1> QED BY <1>4 DEF Given, Midway, Finished, Reached

\* From one rule to the next, in each of the forms of the next.
LEMMA StepShort ==
    ASSUME Given, Decode, NEW k \in 1 .. Len(grammar.rules), Midway(k-1),
           grammar.rules[k].type = "priority",
           grammar.rules[k].lhs = Adding(grammar.rules)[k-1].last
    PROVE  Given' /\ Midway(k)'
<1> DEFINE g == grammar
           C == Code(g)
           at == At(g, k-1)
           n == Detail(C[at])
           x == Rule(lastlhs, [j \in 1 .. n |-> C[at + j]])
           e == [pc |-> at, arg |-> lpc]
<1>1. /\ at \in Nat /\ Command(C[at]) = PRIS /\ At(g, k) = at + 1 + n
  BY ShortForm DEF Given
<1>2. code.rules = C /\ pc = at /\ Reached(k-1)
  BY DEF Given, Midway
<1>3. Word(0) = C[at] /\ Pris
  BY <1>1, <1>2, WhichAction
<1>4. /\ rules' = Append(rules, Rule(lastlhs, [j \in 1 .. Detail(Word(0)) |-> Word(j)]))
      /\ rd' = rd \o Push(lpc) /\ pc' = pc + 1 + Detail(Word(0))
      /\ UNCHANGED << grammar, code, ssz, lastlhs, lpc >>
  BY <1>3 DEF Pris
<1>5. \A j : Word(j) = C[at + j]
  BY <1>2 DEF Word
<1>6. rules' = Append(rules, x) /\ rd' = rd \o << e >> /\ pc' = At(g, k)
  BY <1>1, <1>2, <1>3, <1>4, <1>5 DEF Push
<1>7. Made(g, k, Append(rules, x), rd \o << e >>) /\ Kept(g, k, lastlhs, lpc)
  <2>1. Made(g, k-1, rules, rd) /\ Kept(g, k-1, lastlhs, lpc)
    BY <1>2 DEF Reached
  <2> QED BY <2>1, ShortStep DEF Given
<1>8. ssz = Adding(g.rules)[Len(g.rules)].pad
  BY <1>2 DEF Reached
<1> HIDE DEF C, at, n, x, e
<1> QED BY <1>4, <1>6, <1>7, <1>8 DEF Given, Midway, Reached

\* ... of an instruction with a left hand side of its own,
LEMMA StepLong ==
    ASSUME Given, Decode, NEW k \in 1 .. Len(grammar.rules), Midway(k-1),
           grammar.rules[k].type = "priority",
           grammar.rules[k].lhs # Adding(grammar.rules)[k-1].last
    PROVE  Given' /\ Midway(k)'
<1> DEFINE g == grammar
           C == Code(g)
           at == At(g, k-1)
           n == Detail(C[at])
           x == Rule(C[at + 1], [j \in 1 .. n |-> C[at + (1 + j)]])
           e == [pc |-> at, arg |-> 0]
<1>1. /\ at \in Nat /\ Command(C[at]) = PRIO /\ At(g, k) = at + 2 + n
  BY LongForm DEF Given
<1>2. code.rules = C /\ pc = at /\ Reached(k-1)
  BY DEF Given, Midway
<1>3. Word(0) = C[at] /\ Prio
  BY <1>1, <1>2, WhichAction
<1>4. /\ rules' = Append(rules, Rule(Word(1), [j \in 1 .. Detail(Word(0)) |-> Word(1 + j)]))
      /\ rd' = rd \o Push(0) /\ lastlhs' = Word(1) /\ lpc' = pc
      /\ pc' = pc + 2 + Detail(Word(0))
      /\ UNCHANGED << grammar, code, ssz >>
  BY <1>3 DEF Prio
<1>5. \A j : Word(j) = C[at + j]
  BY <1>2 DEF Word
<1>6. /\ rules' = Append(rules, x) /\ rd' = rd \o << e >> /\ pc' = At(g, k)
      /\ lastlhs' = C[at + 1] /\ lpc' = at
  BY <1>1, <1>2, <1>3, <1>4, <1>5 DEF Push
<1>7. Made(g, k, Append(rules, x), rd \o << e >>) /\ Kept(g, k, C[at + 1], at)
  <2>1. Made(g, k-1, rules, rd)
    BY <1>2 DEF Reached
  <2> QED BY <2>1, LongStep DEF Given
<1>8. ssz = Adding(g.rules)[Len(g.rules)].pad
  BY <1>2 DEF Reached
<1> HIDE DEF C, at, n, x, e
<1> QED BY <1>4, <1>6, <1>7, <1>8 DEF Given, Midway, Reached

\* ... of one for a list,
LEMMA StepQuant ==
    ASSUME Given, Decode, NEW k \in 1 .. Len(grammar.rules), Midway(k-1),
           grammar.rules[k].type = "quantified"
    PROVE  Given' /\ Midway(k)'
<1> DEFINE g == grammar
           C == Code(g)
           at == At(g, k-1)
<1>1. /\ at \in Nat /\ Kind(g.rules[k]) \in 0 .. 3
      /\ Command(C[at]) = QUANT + Kind(g.rules[k])
  BY QuantForm DEF Given
<1>2. code.rules = C /\ pc = at /\ Reached(k-1)
  BY DEF Given, Midway
<1>3. Word(0) = C[at] /\ Quant
  BY <1>1, <1>2, WhichAction
<1>4. PICK q \in 0 .. 3 :
        /\ Fetched(QUANT + q)
        /\ rules' = Append(rules,
             [lhs |-> Detail(Word(0)), rhs |-> << Word(1) >>, min |-> q % 2,
              sep    |-> IF q < 2 THEN NoSep ELSE Detail(Word(2)),
              proper |-> IF q < 2 THEN 0 ELSE Command(Word(2))])
        /\ pc' = pc + (IF q < 2 THEN 2 ELSE 3)
  BY <1>3 DEF Quant
<1>5. rd' = rd \o Push(0) /\ UNCHANGED << grammar, code, ssz, lastlhs, lpc >>
  BY <1>3 DEF Quant
<1> DEFINE e == [pc |-> at, arg |-> 0]
           x == [lhs |-> Detail(C[at]), rhs |-> << C[at + 1] >>, min |-> q % 2,
                 sep    |-> IF q < 2 THEN NoSep ELSE Detail(C[at + 2]),
                 proper |-> IF q < 2 THEN 0 ELSE Command(C[at + 2])]
<1>6. Command(C[at]) = QUANT + q
  BY <1>3, <1>4 DEF Fetched
<1>7. \A j : Word(j) = C[at + j]
  BY <1>2 DEF Word
<1>8. Made(g, k, Append(rules, x), rd \o << e >>) /\ At(g, k) = at + (IF q < 2 THEN 2 ELSE 3)
  <2>1. Made(g, k-1, rules, rd)
    BY <1>2 DEF Reached
  <2> QED BY <1>6, <2>1, QuantStep DEF Given
<1>9. Kept(g, k, lastlhs, lpc)
  <2>1. Kept(g, k-1, lastlhs, lpc)
    BY <1>2 DEF Reached
  <2> QED BY <2>1, KeptOn DEF Given
<1>10. rules' = Append(rules, x) /\ rd' = rd \o << e >> /\ pc' = At(g, k)
  <2>1. Word(1) = C[at + 1] /\ Word(2) = C[at + 2]
    BY <1>7
  <2>2. rules' = Append(rules, x)
    BY <1>3, <1>4, <2>1
  <2>3. rd' = rd \o << e >>
    BY <1>2, <1>5 DEF Push
  <2>4. pc' = At(g, k)
    BY <1>2, <1>4, <1>8
  <2> QED BY <2>2, <2>3, <2>4
<1>11. ssz = Adding(g.rules)[Len(g.rules)].pad
  BY <1>2 DEF Reached
<1> HIDE DEF C, at, x, e
<1> QED BY <1>5, <1>8, <1>9, <1>10, <1>11 DEF Given, Midway, Reached

\* ... and of one for a byte range.
LEMMA StepBran ==
    ASSUME Given, Decode, NEW k \in 1 .. Len(grammar.rules), Midway(k-1),
           grammar.rules[k].type = "brange"
    PROVE  Given' /\ Midway(k)'
<1> DEFINE g == grammar
           C == Code(g)
           at == At(g, k-1)
           start == C[at + 1] \div Byte
           stop  == C[at + 1] % Byte
           x == [j \in 1 .. stop - start + 1 |-> Rule(Detail(C[at]), << start + j - 1 >>)]
           e == [j \in 1 .. stop - start + 1 |-> [pc |-> at, arg |-> start + j - 1]]
<1>1. /\ at \in Nat /\ Command(C[at]) = BRAN /\ At(g, k) = at + 2
  BY BranForm DEF Given
<1>2. code.rules = C /\ pc = at /\ Reached(k-1)
  BY DEF Given, Midway
<1>3. Word(0) = C[at] /\ Bran
  BY <1>1, <1>2, WhichAction
<1>4. Word(1) = C[at + 1]
  BY <1>2 DEF Word
<1>5. /\ rules' = rules \o x /\ rd' = rd \o e /\ pc' = At(g, k)
      /\ UNCHANGED << grammar, code, ssz, lastlhs, lpc >>
  BY <1>1, <1>2, <1>3, <1>4 DEF Bran
<1>7. Made(g, k, rules \o x, rd \o e)
  <2>1. Made(g, k-1, rules, rd)
    BY <1>2 DEF Reached
  <2> QED BY <2>1, BranStep DEF Given
<1>8. Kept(g, k, lastlhs, lpc)
  <2>1. Kept(g, k-1, lastlhs, lpc)
    BY <1>2 DEF Reached
  <2> QED BY <2>1, KeptOn DEF Given
<1>9. ssz = Adding(g.rules)[Len(g.rules)].pad
  BY <1>2 DEF Reached
<1> HIDE DEF C, at, start, stop, x, e
<1> QED BY <1>5, <1>7, <1>8, <1>9 DEF Given, Midway, Reached

\* The invariant holds at the start ...
LEMMA DecodeInvInit == DecodeInit => DecodeInv
BY DEF DecodeInit, DecodeInv, Given, Fresh

\* ... and is preserved by every instruction.
LEMMA DecodeInvNext ==
    ASSUME DecodeInv, [Decode]_codeVars
    PROVE  DecodeInv'
<1>1. CASE UNCHANGED codeVars
  BY <1>1 DEF codeVars, DecodeInv, Given, Fresh, Midway, Finished, Reached
<1>2. CASE Decode
  <2> DEFINE n == Len(grammar.rules)
  <2>1. Given /\ n \in Nat /\ GoodRules(grammar.rules)
    BY CodeFacts DEF DecodeInv, Given
  <2>2. CASE Fresh
    <3>1. Given' /\ Midway(0)'
      BY <1>2, <2>1, <2>2, FirstStep
    <3>2. grammar' \in Grammars
      BY <3>1 DEF Given
    <3>3. Len(grammar'.rules) \in Nat
      BY <3>2, CodeFacts
    <3> QED BY <3>1, <3>3 DEF DecodeInv
  <2>3. CASE Finished
    <3>1. pc = 0
      BY <2>3 DEF Finished
    <3> QED BY <1>2, <3>1 DEF Decode, Setup, Prio, Pris, Quant, Bran, Done, Fetched
  <2>4. ASSUME NEW i \in 0 .. n, Midway(i) PROVE DecodeInv'
    <3>1. CASE i = n
      <4>1. Given' /\ Finished'
        BY <1>2, <2>1, <2>4, <3>1, LastStep
      <4> QED BY <4>1 DEF DecodeInv
    <3>2. CASE i # n
      <4> DEFINE k == i + 1
      <4>1. k \in 1 .. n /\ k - 1 = i /\ k \in 0 .. n
        BY <2>1, <3>2
      <4>2. Midway(k-1)
        BY <2>4, <4>1
      <4>3. grammar.rules[k].type \in {"priority", "quantified", "brange"}
        <5>1. IsRule(grammar.rules[k])
          BY <2>1, <4>1, RulesAt
        <5> QED BY <5>1 DEF IsRule
      <4>4. grammar' = grammar
        BY <1>2 DEF Decode, Setup, Prio, Pris, Quant, Bran, Done
      <4> HIDE DEF k
      <4>5. Given' /\ Midway(k)'
        BY <1>2, <2>1, <4>1, <4>2, <4>3, StepShort, StepLong, StepQuant, StepBran
      <4> QED BY <4>1, <4>4, <4>5 DEF DecodeInv
    <3> QED BY <3>1, <3>2
  <2> QED BY <2>2, <2>3, <2>4 DEF DecodeInv
<1> QED BY <1>1, <1>2

\* Decoding is always at the start, behind a whole number of rules, or at the end; the
\* rules and the data made so far are those of the rules passed, and the left-hand side
\* kept is the one the generator had in mind (runtime-c.tcl:1463-1569, spec.c:63-226).
THEOREM DecodeInvariant == DecodeSpec => []DecodeInv
<1>1. DecodeInv /\ [Decode]_codeVars => DecodeInv'
  BY DecodeInvNext
<1> QED BY <1>1, DecodeInvInit, PTL DEF DecodeSpec

-----------------------------------------------------------------------------
(* The rules are as written                                                *)

\* A prefix, given position by position.
LEMMA PrefixIs ==
    ASSUME NEW S, NEW s \in Seq(S), NEW t \in Seq(S), Len(s) <= Len(t),
           \A j \in 1 .. Len(s) : t[j] = s[j]
    PROVE  IsPrefix(s, t)
<1>1. Len(s) \in Nat /\ Len(t) \in Nat
  OBVIOUS
<1>2. \A j \in 1 .. Len(s) : 1 + j - 1 = j
  OBVIOUS
<1>3. PICK a \in Nat : a = 1
  OBVIOUS
<1>4. a + Len(s) <= Len(s) + 1 /\ a + Len(s) <= Len(t) + 1 /\ a >= 1
  BY <1>1, <1>3
<1>5. \A j \in 1 .. Len(s) : s[a + j - 1] = s[j] /\ t[a + j - 1] = s[j]
  BY <1>2, <1>3
<1>6. SubSeq(s, a, a + Len(s) - 1) = s
  BY <1>4, <1>5, SubSeqIs
<1>7. SubSeq(t, a, a + Len(s) - 1) = s
  BY <1>4, <1>5, SubSeqIs
<1>8. a + Len(s) - 1 = Len(s)
  BY <1>1, <1>3
<1> QED BY <1>3, <1>6, <1>7, <1>8 DEF IsPrefix

\* What was made up to a rule is a prefix of what is made in all.
LEMMA MadePrefix ==
    ASSUME NEW g \in Grammars, NEW k \in 0 .. Len(g.rules), NEW made,
           made = Joined(Meanings(g))[k]
    PROVE  IsPrefix(made, Written(g))
<1> DEFINE n == Len(g.rules)
           ss == Meanings(g)
           J == Joined(ss)
<1>1. /\ ss \in Seq(Seq(MadeRule)) /\ Len(ss) = n /\ n \in Nat
  BY MeaningsFacts, CodeFacts
<1>2. k \in 0 .. Len(ss) /\ k \in 0 .. n /\ n \in k .. Len(ss)
  BY <1>1
<1> HIDE DEF n, ss
<1>3. \A m \in k .. Len(ss) :
        /\ J[m] \in Seq(MadeRule) /\ Len(J[k]) <= Len(J[m])
        /\ \A j \in 1 .. Len(J[k]) : J[m][j] = J[k][j]
  BY <1>1, <1>2, JoinedPrefix
<1>4. J[k] \in Seq(MadeRule)
  <2>1. k \in k .. Len(ss)
    BY <1>1, <1>2
  <2> QED BY <1>3, <2>1
<1>5. /\ J[n] \in Seq(MadeRule) /\ Len(J[k]) <= Len(J[n])
      /\ \A j \in 1 .. Len(J[k]) : J[n][j] = J[k][j]
  BY <1>2, <1>3
<1> HIDE DEF J
<1>6. IsPrefix(J[k], J[n])
  BY <1>4, <1>5, PrefixIs
<1> QED BY <1>6 DEF Written, J, n, ss

\* The instruction of each rule can be executed when its turn comes.
LEMMA MidwayExecutable ==
    ASSUME Given, NEW k \in 0 .. Len(grammar.rules), Midway(k)
    PROVE  Executable
<1> DEFINE g == grammar
           C == Code(g)
           n == Len(g.rules)
           at == At(g, k)
           cmd == Command(C[at])
           d == Detail(C[at])
<1>1. code.rules = C /\ pc = at /\ Reached(k)
  BY DEF Given, Midway
<1>2. /\ GoodRules(g.rules) /\ n \in Nat /\ Len(C) = At(g, n) /\ at \in Nat /\ at >= 2
      /\ C \in Seq(Nat) /\ Command(C[At(g, n)]) = DONE
  BY CodeFacts DEF Given
<1>3. SUFFICES /\ at <= Len(C) /\ cmd \in SETUP .. BRAN
               /\ at + Width(cmd, d) <= Len(C) + 1
               /\ cmd \in {PRIO, PRIS} => d <= Adding(g.rules)[n].pad
  <2>1. Word(0) = C[at]
    <3>1. at + 0 = at
      BY <1>2
    <3> QED BY <1>1, <3>1 DEF Word
  <2>2. ssz = Adding(g.rules)[n].pad
    BY <1>1 DEF Reached
  <2>3. Len(C) \in Nat
    BY <1>2
  <2> HIDE DEF C, at
  <2> QED BY <1>1, <1>2, <2>1, <2>2, <2>3 DEF Executable
<1>4. CASE k = n
  <2>1. cmd = DONE /\ at = Len(C)
    BY <1>2, <1>4
  <2>2. Width(DONE, d) = 1 /\ DONE \in SETUP .. BRAN /\ DONE \notin {PRIO, PRIS}
    BY DEF Width, DONE, SETUP, BRAN, PRIO, PRIS, QUANT
  <2> HIDE DEF C, at, cmd, d
  <2> QED BY <1>2, <2>1, <2>2
<1>5. CASE k # n
  <2> DEFINE i == k + 1
             r == g.rules[i]
  <2>1. i \in 1 .. n /\ i - 1 = k
    BY <1>2, <1>5
  <2>2. IsRule(r)
    BY <1>2, <2>1, RulesAt
  <2>3. r.type \in {"priority", "quantified", "brange"}
    BY <2>2 DEF IsRule
  <2> HIDE DEF i
  <2>4. CASE r.type = "priority"
    <3> DEFINE m == Len(r.rhs)
    <3>1. m <= Adding(g.rules)[n].pad
      BY <1>2, <2>1, <2>4, PadFits
    <3>2. m \in Nat
      BY <2>2, SymbolNat DEF IsRule
    <3>3. CASE r.lhs = Adding(g.rules)[i-1].last
      <4>1. cmd = PRIS /\ d = m /\ At(g, i) = at + 1 + m /\ At(g, i) <= Len(C)
        BY <2>1, <2>4, <3>3, ShortForm DEF Given
      <4>2. PRIS \in SETUP .. BRAN /\ Width(PRIS, m) = 1 + m
        BY DEF Width, DONE, SETUP, BRAN, PRIO, PRIS, QUANT
      <4>3. Len(C) \in Nat
        BY <1>2
      <4> HIDE DEF C, at, cmd, d, m
      <4>4. at <= Len(C) /\ Width(cmd, d) = 1 + m /\ cmd \in SETUP .. BRAN
        BY <1>2, <3>2, <4>1, <4>2, <4>3
      <4>5. at + Width(cmd, d) <= Len(C) + 1
        BY <1>2, <3>2, <4>1, <4>3, <4>4
      <4> QED BY <3>1, <4>1, <4>4, <4>5
    <3>4. CASE r.lhs # Adding(g.rules)[i-1].last
      <4>1. cmd = PRIO /\ d = m /\ At(g, i) = at + 2 + m /\ At(g, i) <= Len(C)
        BY <2>1, <2>4, <3>4, LongForm DEF Given
      <4>2. PRIO \in SETUP .. BRAN /\ Width(PRIO, m) = 2 + m
        BY DEF Width, DONE, SETUP, BRAN, PRIO, PRIS, QUANT
      <4>3. Len(C) \in Nat
        BY <1>2
      <4> HIDE DEF C, at, cmd, d, m
      <4>4. at <= Len(C) /\ Width(cmd, d) = 2 + m /\ cmd \in SETUP .. BRAN
        BY <1>2, <3>2, <4>1, <4>2, <4>3
      <4>5. at + Width(cmd, d) <= Len(C) + 1
        BY <1>2, <3>2, <4>1, <4>3, <4>4
      <4> QED BY <3>1, <4>1, <4>4, <4>5
    <3> QED BY <3>3, <3>4
  <2>5. CASE r.type = "quantified"
    <3>1. /\ Kind(r) \in 0 .. 3 /\ cmd = QUANT + Kind(r) /\ At(g, i) <= Len(C)
          /\ At(g, i) = at + (IF Kind(r) < 2 THEN 2 ELSE 3)
      BY <2>1, <2>5, QuantForm DEF Given
    <3>2. \A q \in 0 .. 3 : /\ QUANT + q \in SETUP .. BRAN /\ QUANT + q \notin {PRIO, PRIS}
                            /\ Width(QUANT + q, d) = IF q < 2 THEN 2 ELSE 3
      <4> TAKE q \in 0 .. 3
      <4>1. q = 0 \/ q = 1 \/ q = 2 \/ q = 3
        OBVIOUS
      <4>2. QUANT + 0 = 4 /\ QUANT + 1 = 5 /\ QUANT + 2 = 6 /\ QUANT + 3 = 7
        BY DEF QUANT
      <4>3. \A c : /\ c \in {4, 5} => Width(c, d) = 2
                   /\ c \in {6, 7} => Width(c, d) = 3
        BY DEF Width, QUANT, DONE, SETUP, BRAN, PRIO, PRIS
      <4> QED BY <4>1, <4>2, <4>3 DEF QUANT, SETUP, BRAN, PRIO, PRIS
    <3>3. Len(C) \in Nat
      BY <1>2
    <3> DEFINE q == Kind(r)
    <3>4. /\ cmd \in SETUP .. BRAN /\ cmd \notin {PRIO, PRIS}
          /\ Width(cmd, d) = IF q < 2 THEN 2 ELSE 3
      BY <3>1, <3>2
    <3> HIDE DEF C, at, cmd, d, q
    <3>5. /\ at \in Nat /\ At(g, i) <= Len(C) /\ At(g, i) = at + Width(cmd, d)
          /\ Width(cmd, d) \in {2, 3}
      BY <1>2, <3>1, <3>4 DEF q
    <3> QED BY <3>3, <3>4, <3>5
  <2>6. CASE r.type = "brange"
    <3>1. cmd = BRAN /\ At(g, i) = at + 2 /\ At(g, i) <= Len(C)
      BY <2>1, <2>6, BranForm DEF Given
    <3>2. BRAN \in SETUP .. BRAN /\ Width(BRAN, d) = 2 /\ BRAN \notin {PRIO, PRIS}
      BY DEF Width, DONE, SETUP, BRAN, PRIO, PRIS, QUANT
    <3>3. Len(C) \in Nat
      BY <1>2
    <3> HIDE DEF C, at, cmd, d
    <3> QED BY <1>2, <3>1, <3>2, <3>3
  <2> QED BY <2>3, <2>4, <2>5, <2>6
<1> QED BY <1>4, <1>5

\* The first instruction can be executed.
LEMMA FreshExecutable ==
    ASSUME Given, Fresh
    PROVE  Executable
<1> DEFINE C == Code(grammar)
<1>1. /\ Command(C[1]) = SETUP /\ Len(C) \in Nat /\ Len(C) >= 2
  <2>1. Len(grammar.rules) \in Nat
    BY CodeFacts DEF Given
  <2>2. Len(grammar.rules) \in 0 .. Len(grammar.rules)
    BY <2>1
  <2> QED BY <2>2, CodeFacts DEF Given
<1>2. code.rules = C /\ pc = 1
  BY DEF Given, Fresh
<1> HIDE DEF C
<1>3. Word(0) = C[1]
  BY <1>2 DEF Word
<1>4. SETUP \in SETUP .. BRAN /\ SETUP \notin {PRIO, PRIS} /\ \A n : Width(SETUP, n) = 1
  BY DEF Width, DONE, SETUP, BRAN, PRIO, PRIS, QUANT
<1>5. pc \in 1 .. Len(code.rules) /\ pc + 1 <= Len(code.rules) + 1
  BY <1>1, <1>2
<1> QED BY <1>1, <1>3, <1>4, <1>5 DEF Executable

\* The rules are as written in every state of the invariant.
LEMMA InvRulesAsWritten == DecodeInv => RulesAsWritten
<1> SUFFICES ASSUME DecodeInv PROVE RulesAsWritten
  OBVIOUS
<1> DEFINE n == Len(grammar.rules)
<1>1. Given /\ grammar \in Grammars /\ n \in Nat
  BY CodeFacts DEF DecodeInv, Given
<1>2. CASE Fresh
  <2>1. rules = Joined(Meanings(grammar))[0]
    <3>1. Meanings(grammar) \in Seq(Seq(MadeRule))
      BY <1>1, MeaningsFacts
    <3>2. Joined(Meanings(grammar))[0] = << >>
      BY <3>1, JoinedFacts, Zenon
    <3> QED BY <1>2, <3>2 DEF Fresh
  <2>2. 0 \in 0 .. n /\ pc # 0
    BY <1>1, <1>2 DEF Fresh
  <2>3. IsPrefix(rules, Written(grammar))
    BY <1>1, <2>1, <2>2, MadePrefix
  <2> QED BY <1>1, <1>2, <2>2, <2>3, FreshExecutable DEF RulesAsWritten, Decoded
<1>3. CASE Finished
  <2>1. rules = Joined(Meanings(grammar))[n] /\ pc = 0
    BY <1>3 DEF Finished, Reached, Made
  <2>2. n \in 0 .. n
    BY <1>1
  <2>3. IsPrefix(rules, Written(grammar))
    BY <1>1, <2>1, <2>2, MadePrefix
  <2> QED BY <2>1, <2>3 DEF RulesAsWritten, Decoded, Written
<1>4. ASSUME NEW k \in 0 .. n, Midway(k) PROVE RulesAsWritten
  <2>1. rules = Joined(Meanings(grammar))[k]
    BY <1>4 DEF Midway, Reached, Made
  <2>2. pc # 0
    <3>1. pc \in Nat /\ pc >= 2
      BY <1>1, <1>4, CodeFacts DEF Midway
    <3> QED BY <3>1
  <2>3. IsPrefix(rules, Written(grammar))
    BY <1>1, <2>1, MadePrefix
  <2> QED BY <1>1, <1>4, <2>2, <2>3, MidwayExecutable DEF RulesAsWritten, Decoded
<1> QED BY <1>2, <1>3, <1>4 DEF DecodeInv

\* Throughout, the rules that the engine has made are the first ones of those that
\* the grammar stands for, and at the end all of them; every instruction on the way
\* can be executed (runtime-c.tcl:1463-1569, spec.c:63-226).
THEOREM RulesDecoded == DecodeSpec => []RulesAsWritten
BY DecodeInvariant, InvRulesAsWritten, PTL

-----------------------------------------------------------------------------
(* Masks and semantics                                                     *)

\* A set as a sequence has all of its members.
LEMMA SetAsSequence ==
    ASSUME NEW S, IsFiniteSet(S)
    PROVE  /\ SetToSeq(S) \in Seq(S) /\ Len(SetToSeq(S)) = Cardinality(S)
           /\ \A x \in S : \E k \in 1 .. Cardinality(S) : SetToSeq(S)[k] = x
<1> DEFINE n == Cardinality(S)
           T == 1 .. n
           s == SetToSeq(S)
<1>1. n \in Nat /\ ExistsBijection(T, S)
  BY FS_CardinalityType
<1>2. \E f \in [T -> S] : IsInjective(f)
  BY <1>1 DEF ExistsBijection, Bijection, Injection
<1>3. s \in [T -> S] /\ IsInjective(s)
  BY <1>2 DEF SetToSeq
<1>4. IsFiniteSet(T) /\ Cardinality(T) = n
  BY <1>1, FS_Interval
<1> HIDE DEF s, T
<1>5. s \in Injection(T, S)
  BY <1>3 DEF Injection
<1>6. s \in Surjection(T, S)
  BY <1>4, <1>5, FS_Injection
<1>7. \A x \in S : \E k \in T : s[k] = x
  BY <1>6 DEF Surjection
<1>8. s \in Seq(S) /\ Len(s) = n
  BY <1>1, <1>3, IsSequence DEF T
<1> QED BY <1>7, <1>8 DEF s, T

\* What a counted list of words holds at its positions.
LEMMA CountedParts ==
    ASSUME NEW v \in Seq(Nat)
    PROVE  /\ Counted(v) \in Seq(Nat) /\ Len(Counted(v)) = 1 + Len(v) /\ Counted(v)[1] = Len(v)
           /\ \A j \in 1 .. Len(v) : Counted(v)[1 + j] = v[j]
<1>1. Len(v) \in Nat
  OBVIOUS
<1> DEFINE x == Len(v)
<1>2. Counted(v) = << x >> \o v
  BY DEF Counted
<1> HIDE DEF x
<1>3. x \in Nat
  BY <1>1 DEF x
<1>4. /\ Len(<< x >> \o v) = 1 + Len(v) /\ (<< x >> \o v)[1] = x
      /\ \A j \in 1 .. Len(v) : (<< x >> \o v)[1 + j] = v[j]
  BY <1>3, HeadedBy1
<1>5. << x >> \in Seq(Nat)
  BY <1>3
<1>6. << x >> \o v \in Seq(Nat)
  BY <1>5, ConcatParts
<1> QED BY <1>2, <1>4, <1>6 DEF x

\* A vector is found where it is, with its length in front.
LEMMA FoundAt ==
    ASSUME NEW coding \in Seq(Nat), NEW v \in Seq(Nat), NEW at \in Nat, at >= 1,
           at + 1 + Len(v) <= Len(coding),
           \A j \in 1 .. Len(Counted(v)) : coding[at + j] = Counted(v)[j]
    PROVE  SubSeq(coding, at + 2, at + 1 + coding[at + 1]) = v
<1> DEFINE n == Len(v)
           b == at + 2
<1>1. n \in Nat
  OBVIOUS
<1>2. /\ Len(Counted(v)) = 1 + n /\ Counted(v)[1] = n
      /\ \A j \in 1 .. n : Counted(v)[1 + j] = v[j]
  BY CountedParts
<1>3. coding[at + 1] = n
  <2>1. 1 \in 1 .. Len(Counted(v))
    BY <1>1, <1>2
  <2> QED BY <1>2, <2>1
<1>4. n = Len(v)
  OBVIOUS
<1> HIDE DEF n
<1>5. ASSUME NEW j \in 1 .. n PROVE coding[b + j - 1] = v[j]
  <2>1. 1 + j \in 1 .. Len(Counted(v)) /\ at + (1 + j) = b + j - 1
    BY <1>1, <1>2
  <2>2. coding[at + (1 + j)] = Counted(v)[1 + j]
    BY <2>1
  <2> QED BY <1>2, <2>1, <2>2
<1>6. b \in Nat /\ b >= 1 /\ b + n <= Len(coding) + 1
  <2>1. Len(coding) \in Nat /\ at + 1 + n <= Len(coding)
    BY <1>4
  <2> QED BY <1>1, <2>1
<1> HIDE DEF b
<1>7. SubSeq(coding, b, b + n - 1) = v
  BY <1>4, <1>5, <1>6, SubSeqIs
<1>8. b + n - 1 = at + 1 + n
  BY <1>1 DEF b
<1> QED BY <1>3, <1>7, <1>8 DEF b

Stored(vs, empty) ==
    SetToSeq({Counted(v) : v \in Range(vs)} \ (IF empty THEN {<< 0 >>} ELSE {}))
PlaceOf(st, v) == CHOOSE s \in 1 .. Len(st) : st[s] = Counted(v)
Before(st, v) == Len(Joined(st)[PlaceOf(st, v) - 1])
RefOf(vs, empty, v) ==
    IF empty /\ v = << >> THEN 0 ELSE Len(vs) + Before(Stored(vs, empty), v)
Absent(empty, v) == empty /\ v = << >>

\* A sequence, given by its length and its positions.
LEMMA SequenceAt ==
    ASSUME NEW S, NEW s \in Seq(S)
    PROVE  /\ Len(s) \in Nat /\ DOMAIN s = 1 .. Len(s) /\ Range(s) = {s[i] : i \in 1 .. Len(s)}
           /\ \A i \in 1 .. Len(s) : s[i] \in S /\ s[i] \in Range(s)
<1>1. Len(s) \in Nat /\ DOMAIN s = 1 .. Len(s)
  OBVIOUS
<1>2. Range(s) = {s[i] : i \in 1 .. Len(s)}
  BY <1>1 DEF Range
<1>3. \A i \in 1 .. Len(s) : s[i] \in S
  OBVIOUS
<1> QED BY <1>1, <1>2, <1>3

\* A sequence has finitely many elements.
LEMMA RangeFinite ==
    ASSUME NEW S, NEW s \in Seq(S)
    PROVE  IsFiniteSet(Range(s))
<1> DEFINE T == 1 .. Len(s)
           f == [i \in T |-> s[i]]
<1>1. Len(s) \in Nat /\ Range(s) = {s[i] : i \in T}
  BY SequenceAt
<1>2. IsFiniteSet(T)
  BY <1>1, FS_Interval
<1> HIDE DEF T
<1>3. f \in Surjection(T, Range(s))
  BY <1>1 DEF Surjection
<1> QED BY <1>2, <1>3, FS_Surjection

\* What is found in each of the forms in which a list over the rules can be stored.
LEMMA StoredFacts ==
    ASSUME NEW vs \in Seq(Seq(Nat)), NEW empty \in BOOLEAN
    PROVE  LET st == Stored(vs, empty) IN
           /\ st \in Seq(Seq(Nat)) /\ Len(st) \in Nat
           /\ \A i \in 1 .. Len(vs) : ~ Absent(empty, vs[i]) =>
                \E s \in 1 .. Len(st) : st[s] = Counted(vs[i])
<1> DEFINE V == Range(vs)
           S == Seq(Nat)
           all == {Counted(v) : v \in V}
           W == all \ (IF empty THEN {<< 0 >>} ELSE {})
           st == SetToSeq(W)
<1>1. IsFiniteSet(V) /\ \A i \in 1 .. Len(vs) : vs[i] \in V /\ vs[i] \in S
  <2> HIDE DEF S
  <2>1. vs \in Seq(S)
    BY DEF S
  <2> QED BY <2>1, RangeFinite, SequenceAt
<1>2. V \subseteq S
  <2> HIDE DEF S
  <2>1. vs \in Seq(S)
    BY DEF S
  <2>2. V = {vs[i] : i \in 1 .. Len(vs)} /\ \A i \in 1 .. Len(vs) : vs[i] \in S
    BY <2>1, SequenceAt
  <2> QED BY <2>2
<1>3. IsFiniteSet(W)
  <2> DEFINE f == [v \in V |-> Counted(v)]
  <2>1. f \in Surjection(V, all)
    BY DEF Surjection
  <2>2. IsFiniteSet(all)
    BY <1>1, <2>1, FS_Surjection
  <2>3. W \in SUBSET all
    OBVIOUS
  <2> QED BY <2>2, <2>3, FS_Subset
<1>4. W \subseteq S
  BY <1>2, CountedParts
<1>5. \A i \in 1 .. Len(vs) : ~ Absent(empty, vs[i]) => Counted(vs[i]) \in W
  <2> SUFFICES ASSUME NEW i \in 1 .. Len(vs), ~ Absent(empty, vs[i]) PROVE Counted(vs[i]) \in W
    OBVIOUS
  <2>1. vs[i] \in V /\ vs[i] \in Seq(Nat)
    BY <1>1
  <2>2. ASSUME empty PROVE Counted(vs[i]) # << 0 >>
    <3>1. vs[i] # << >>
      BY <2>2 DEF Absent
    <3> DEFINE v == vs[i]
    <3>2. v \in Seq(Nat) /\ v # << >>
      BY <2>1, <3>1
    <3> HIDE DEF v
    <3>3. Len(v) # 0
      BY <3>2
    <3>4. Counted(v)[1] = Len(v)
      BY <3>2, CountedParts
    <3>5. Counted(v) # << 0 >>
      BY <3>3, <3>4
    <3> QED BY <3>5 DEF v
  <2> QED BY <2>1, <2>2
<1> HIDE DEF W, S
<1>6. /\ st \in Seq(W) /\ Len(st) = Cardinality(W)
      /\ \A x \in W : \E k \in 1 .. Cardinality(W) : st[k] = x
  BY <1>3, SetAsSequence
<1>7. Cardinality(W) \in Nat
  BY <1>3, FS_CardinalityType
<1> HIDE DEF st
<1>8. st \in Seq(S)
  <2>1. st \in [1 .. Len(st) -> S]
    BY <1>4, <1>6
  <2> QED BY <1>6, <1>7, <2>1, IsSequence
<1>9. Stored(vs, empty) = st
  BY DEF Stored, st, W
<1> QED BY <1>5, <1>6, <1>7, <1>8, <1>9 DEF S

\* A stored vector is behind those that are before it.
LEMMA StoredPlace ==
    ASSUME NEW st \in Seq(Seq(Nat)), NEW v \in Seq(Nat),
           \E s \in 1 .. Len(st) : st[s] = Counted(v)
    PROVE  LET all == Joined(st)[Len(st)]
               a   == Before(st, v)
           IN  /\ all \in Seq(Nat) /\ a \in Nat
               /\ a + Len(Counted(v)) <= Len(all)
               /\ \A j \in 1 .. Len(Counted(v)) : all[a + j] = Counted(v)[j]
<1> DEFINE p == PlaceOf(st, v)
           J == Joined(st)
           n == Len(st)
           c == Counted(v)
<1>1. p \in 1 .. n /\ st[p] = c
  BY DEF PlaceOf
<1> HIDE DEF p
<1>2. /\ J[p-1] \in Seq(Nat) /\ J[p] \in Seq(Nat) /\ J[n] \in Seq(Nat)
      /\ Len(J[p-1]) \in Nat /\ Len(st[p]) \in Nat
      /\ Len(J[p]) = Len(J[p-1]) + Len(st[p]) /\ Len(J[p]) <= Len(J[n])
      /\ \A j \in 1 .. Len(st[p]) : J[n][Len(J[p-1]) + j] = st[p][j]
  BY <1>1, JoinedPlace
<1>3. Before(st, v) = Len(J[p-1])
  BY DEF Before, p
<1> HIDE DEF J, n, c
<1> QED BY <1>1, <1>2, <1>3 DEF J, n, c

\* One vector for all.
LEMMA FoundForAll ==
    ASSUME NEW vs \in Seq(Seq(Nat)), NEW empty, NEW r \in 0 .. Len(vs) - 1,
           Cardinality(Range(vs)) = 1
    PROVE  G1decode(PerRule(vs, empty), r) = vs[r + 1]
<1> DEFINE v == vs[1]
           c == Counted(v)
           coding == << 0 >> \o c
           S == Seq(Nat)
<1>1. /\ IsFiniteSet(Range(vs)) /\ Len(vs) \in Nat
      /\ \A i \in 1 .. Len(vs) : vs[i] \in S /\ vs[i] \in Range(vs)
  <2> HIDE DEF S
  <2>1. vs \in Seq(S)
    BY DEF S
  <2> QED BY <2>1, RangeFinite, SequenceAt
<1>2. r + 1 \in 1 .. Len(vs) /\ 1 \in 1 .. Len(vs)
  BY <1>1
<1>3. vs[r + 1] = v
  <2>1. PICK x : Range(vs) = {x}
    BY <1>1, FS_Singleton
  <2> QED BY <1>1, <1>2, <2>1
<1>4. v \in Seq(Nat)
  BY <1>1, <1>2
<1>5. PerRule(vs, empty) = coding
  BY DEF PerRule
<1> HIDE DEF v
<1>6. /\ c \in Seq(Nat) /\ Len(c) = 1 + Len(v) /\ Len(v) \in Nat
  BY <1>4, CountedParts
<1> HIDE DEF c
<1>7. /\ Len(coding) = 1 + Len(c) /\ coding[1] = 0
      /\ \A j \in 1 .. Len(c) : coding[1 + j] = c[j]
  <2>1. PICK z \in Nat : z = 0
    OBVIOUS
  <2>2. /\ Len(<< z >> \o c) = 1 + Len(c) /\ (<< z >> \o c)[1] = z
        /\ \A j \in 1 .. Len(c) : (<< z >> \o c)[1 + j] = c[j]
    BY <1>6, HeadedBy1
  <2> QED BY <2>1, <2>2
<1>8. coding \in Seq(Nat)
  <2>1. << 0 >> \in Seq(Nat)
    OBVIOUS
  <2> QED BY <1>6, <2>1, ConcatParts
<1> HIDE DEF coding
<1>9. PICK at \in Nat : at = 1
  OBVIOUS
<1>10. SubSeq(coding, at + 2, at + 1 + coding[at + 1]) = v
  <2>1. at >= 1 /\ at + 1 + Len(v) <= Len(coding)
    BY <1>6, <1>7, <1>9
  <2>2. \A j \in 1 .. Len(Counted(v)) : coding[at + j] = Counted(v)[j]
    BY <1>7, <1>9 DEF c
  <2> QED BY <1>4, <1>8, <2>1, <2>2, FoundAt
<1>11. G1decode(coding, r) = SubSeq(coding, at + 2, at + 1 + coding[at + 1])
  BY <1>7, <1>9 DEF G1decode
<1> QED BY <1>3, <1>5, <1>10, <1>11

\* A table of references.
LEMMA FoundInTable ==
    ASSUME NEW vs \in Seq(Seq(Nat)), NEW empty \in BOOLEAN, NEW r \in 0 .. Len(vs) - 1,
           Cardinality(Range(vs)) # 1
    PROVE  G1decode(PerRule(vs, empty), r) = vs[r + 1]
<1> DEFINE n == Len(vs)
           st == Stored(vs, empty)
           all == Joined(st)[Len(st)]
           refs == [i \in 1 .. n |-> RefOf(vs, empty, vs[i])]
           head == << 1 >> \o refs
           coding == head \o all
           v == vs[r + 1]
           S == Seq(Nat)
<1>1. n \in Nat /\ \A i \in 1 .. n : vs[i] \in S
  <2> HIDE DEF S
  <2>1. vs \in Seq(S)
    BY DEF S
  <2> QED BY <2>1, SequenceAt
<1>2. /\ st \in Seq(Seq(Nat)) /\ Len(st) \in Nat
      /\ \A i \in 1 .. n : ~ Absent(empty, vs[i]) => \E s \in 1 .. Len(st) : st[s] = Counted(vs[i])
  BY StoredFacts
<1>3. PerRule(vs, empty) = coding
  BY DEF PerRule, Stored, RefOf, Before, PlaceOf
<1> HIDE DEF st
<1>4. \A i \in 1 .. n : ~ Absent(empty, vs[i]) => Before(st, vs[i]) \in Nat
  BY <1>1, <1>2, StoredPlace
<1>5. \A i \in 1 .. n : RefOf(vs, empty, vs[i]) \in Nat
  BY <1>1, <1>4 DEF RefOf, Absent, st
<1>6. refs \in Seq(Nat) /\ Len(refs) = n
  <2>1. refs \in [1 .. n -> Nat]
    BY <1>5
  <2> HIDE DEF refs
  <2> QED BY <1>1, <2>1, IsSequence
<1>7. r + 1 \in 1 .. n
  BY <1>1
<1>8. all \in Seq(Nat)
  <2>1. Joined(st) \in [0 .. Len(st) -> Seq(Nat)]
    BY <1>2, JoinedFacts, Zenon
  <2>2. Len(st) \in 0 .. Len(st)
    BY <1>2
  <2> QED BY <2>1, <2>2
<1>9. refs[r + 1] = RefOf(vs, empty, v)
  BY <1>7
<1>10. v \in Seq(Nat)
  BY <1>1, <1>7
<1>11. /\ ~ Absent(empty, v) => /\ Before(st, v) \in Nat
                                /\ Before(st, v) + Len(Counted(v)) <= Len(all)
                                /\ \A j \in 1 .. Len(Counted(v)) :
                                     all[Before(st, v) + j] = Counted(v)[j]
  <2> SUFFICES ASSUME ~ Absent(empty, v)
               PROVE  /\ Before(st, v) \in Nat
                      /\ Before(st, v) + Len(Counted(v)) <= Len(all)
                      /\ \A j \in 1 .. Len(Counted(v)) : all[Before(st, v) + j] = Counted(v)[j]
    OBVIOUS
  <2>1. \E s \in 1 .. Len(st) : st[s] = Counted(v)
    BY <1>2, <1>7
  <2> QED BY <1>2, <1>10, <2>1, StoredPlace
<1>12. RefOf(vs, empty, v) = IF Absent(empty, v) THEN 0 ELSE n + Before(st, v)
  BY DEF RefOf, Absent, st
<1> HIDE DEF refs, all
<1>13. /\ head \in Seq(Nat) /\ Len(head) = 1 + n /\ head[1] = 1
       /\ \A j \in 1 .. n : head[1 + j] = refs[j]
  <2>1. PICK z \in Nat : z = 1
    OBVIOUS
  <2>2. /\ Len(<< z >> \o refs) = 1 + Len(refs) /\ (<< z >> \o refs)[1] = z
        /\ \A j \in 1 .. Len(refs) : (<< z >> \o refs)[1 + j] = refs[j]
    BY <1>6, HeadedBy1
  <2>3. << z >> \in Seq(Nat)
    OBVIOUS
  <2>4. << z >> \o refs \in Seq(Nat)
    BY <1>6, <2>3, ConcatParts
  <2> QED BY <1>6, <2>1, <2>2, <2>4
<1> HIDE DEF head, n, v
<1>14. Together(Nat, head, all)
  <2>1. head \in Seq(Nat)
    BY <1>13
  <2> QED BY <1>8, <2>1, TogetherIs
<1>15. /\ coding \in Seq(Nat) /\ Len(coding) = 1 + n + Len(all) /\ Len(all) \in Nat
       /\ \A j \in 1 .. 1 + n : coding[j] = head[j]
       /\ \A j \in 1 .. Len(all) : coding[(1 + n) + j] = all[j]
  <2>1. Len(head) = 1 + n /\ Len(all) \in Nat
    BY <1>8, <1>13
  <2> QED BY <1>14, <2>1 DEF Together
<1> HIDE DEF coding
<1>16. coding[1] = 1 /\ coding[1 + r + 1] = refs[r + 1]
  <2>1. 1 \in 1 .. 1 + n /\ 1 + (r + 1) \in 1 .. 1 + n /\ 1 + (r + 1) = 1 + r + 1
    BY <1>1, <1>7
  <2>2. coding[1] = head[1] /\ coding[1 + (r + 1)] = head[1 + (r + 1)]
    BY <1>15, <2>1
  <2>3. head[1 + (r + 1)] = refs[r + 1]
    BY <1>7, <1>13
  <2> QED BY <1>13, <2>1, <2>2, <2>3
<1>17. CASE Absent(empty, v)
  <2>1. coding[1 + r + 1] = 0
    BY <1>9, <1>12, <1>16, <1>17
  <2>2. G1decode(coding, r) = << >>
    BY <1>16, <2>1 DEF G1decode
  <2>3. v = << >>
    BY <1>17 DEF Absent
  <2> QED BY <1>3, <2>2, <2>3 DEF v
<1>18. CASE ~ Absent(empty, v)
  <2> DEFINE b == Before(st, v)
             at == 1 + n + b
             c == Counted(v)
  <2>1. /\ b \in Nat /\ b + Len(c) <= Len(all) /\ \A j \in 1 .. Len(c) : all[b + j] = c[j]
    BY <1>11, <1>18
  <2>2. coding[1 + r + 1] = n + b
    BY <1>9, <1>12, <1>16, <1>18
  <2>3. Len(c) = 1 + Len(v) /\ Len(v) \in Nat
    BY <1>10, CountedParts
  <2> HIDE DEF b, c
  <2>4. n + b # 0 /\ at \in Nat /\ at >= 1 /\ 1 + (n + b) = at
    BY <1>1, <1>7, <2>1, SMTT(30)
  <2>5. at + 1 + Len(v) <= Len(coding)
    <3>1. Len(coding) = 1 + n + Len(all) /\ Len(all) \in Nat
      BY <1>15
    <3>2. b \in Nat /\ b + Len(c) <= Len(all)
      BY <2>1
    <3> HIDE DEF coding, all
    <3> QED BY <1>1, <2>3, <3>1, <3>2
  <2>6. ASSUME NEW j \in 1 .. Len(c) PROVE coding[at + j] = c[j]
    <3>1. b + j \in 1 .. Len(all) /\ (1 + n) + (b + j) = at + j
      <4>1. Len(all) \in Nat
        BY <1>15
      <4>2. b \in Nat /\ b + Len(c) <= Len(all)
        BY <2>1
      <4>3. Len(c) \in Nat
        BY <2>3
      <4> QED BY <1>1, <4>1, <4>2, <4>3
    <3>2. coding[(1 + n) + (b + j)] = all[b + j]
      BY <1>15, <3>1
    <3> QED BY <2>1, <3>1, <3>2
  <2>7. G1decode(coding, r) = SubSeq(coding, at + 2, at + 1 + coding[at + 1])
    <3>1. coding[1] # 0 /\ coding[1 + r + 1] # 0 /\ 1 + coding[1 + r + 1] = at
      BY <1>16, <2>2, <2>4
    <3> HIDE DEF at
    <3> QED BY <3>1, Zenon DEF G1decode
  <2> HIDE DEF at
  <2>8. SubSeq(coding, at + 2, at + 1 + coding[at + 1]) = v
    <3>1. coding \in Seq(Nat)
      BY <1>15
    <3>2. \A j \in 1 .. Len(Counted(v)) : coding[at + j] = Counted(v)[j]
      BY <2>6 DEF c
    <3> QED BY <1>10, <2>4, <2>5, <3>1, <3>2, FoundAt
  <2> QED BY <1>3, <2>7, <2>8 DEF v
<1> QED BY <1>17, <1>18

\* Under the number of a rule is what was stored for it.
LEMMA PerRuleFound ==
    ASSUME NEW vs \in Seq(Seq(Nat)), NEW empty \in BOOLEAN, NEW r \in 0 .. Len(vs) - 1
    PROVE  G1decode(PerRule(vs, empty), r) = vs[r + 1]
BY FoundForAll, FoundInTable

\* Without byte ranges, a rule of the grammar is a rule of the engine.
LEMMA OneEach ==
    ASSUME NEW g \in Grammars, \A k \in 1 .. Len(g.rules) : g.rules[k].type # "brange"
    PROVE  Len(Joined(Meanings(g))[Len(g.rules)]) = Len(g.rules)
<1> DEFINE n == Len(g.rules)
           ss == Meanings(g)
           J == Joined(ss)
           T == {k \in 0 .. n : Len(J[k]) = k}
<1>1. n \in Nat /\ GoodRules(g.rules)
  BY CodeFacts
<1>2. /\ ss \in Seq(Seq(MadeRule)) /\ Len(ss) = n
      /\ \A k \in 1 .. n : ss[k] = Meant(g.rules[k])
  BY MeaningsFacts
<1>3. \A k \in 1 .. n : ss[k] \in Seq(MadeRule) /\ Len(ss[k]) = 1
  <2>1. \A k \in 1 .. n : IsRule(g.rules[k])
    BY <1>1, RulesAt
  <2> QED BY <1>2, <2>1, MeantFacts
<1> HIDE DEF n, ss
<1>4. /\ J \in [0 .. n -> Seq(MadeRule)] /\ J[0] = << >>
      /\ \A k \in 1 .. n : J[k] = J[k-1] \o ss[k]
  <2>1. /\ J \in [0 .. Len(ss) -> Seq(MadeRule)] /\ J[0] = << >>
        /\ \A k \in 1 .. Len(ss) : J[k] = J[k-1] \o ss[k]
    BY <1>2, JoinedFacts, Zenon
  <2> QED BY <1>2, <2>1
<1> HIDE DEF J
<1>5. 0 \in T
  BY <1>1, <1>4
<1>6. ASSUME NEW k \in 0 .. n - 1, k \in T PROVE k + 1 \in T
  <2>1. k \in 0 .. n /\ k + 1 \in 1 .. n /\ k + 1 \in 0 .. n /\ (k + 1) - 1 = k
    BY <1>1
  <2> DEFINE a == J[k]
             b == ss[k + 1]
  <2>2. J[k + 1] = a \o b /\ a \in Seq(MadeRule) /\ b \in Seq(MadeRule) /\ Len(b) = 1 /\ Len(a) = k
    BY <1>3, <1>4, <1>6, <2>1
  <2> HIDE DEF a, b
  <2>3. Together(MadeRule, a, b)
    BY <2>2, TogetherIs
  <2>4. Len(J[k + 1]) = k + 1
    BY <2>2, <2>3 DEF Together
  <2> QED BY <2>1, <2>4
<1> HIDE DEF T
<1>7. \A k \in 0 .. n : k \in T
  BY <1>1, <1>5, <1>6, BoundedInduction
<1>8. n \in T
  BY <1>1, <1>7
<1> QED BY <1>8 DEF T, J, n, ss

\* What is found is right in every state of the invariant.
LEMMA InvRuleFound == DecodeInv => RuleFound
<1> SUFFICES ASSUME DecodeInv, Decoded PROVE RuleFound
  BY DEF RuleFound
<1> DEFINE g == grammar
           n == Len(g.rules)
<1>1. Given /\ g \in Grammars /\ n \in Nat /\ GoodRules(g.rules)
  BY CodeFacts DEF DecodeInv, Given
<1>2. Finished
  <2>1. pc = 0
    BY DEF Decoded
  <2>2. ~ Fresh
    BY <2>1 DEF Fresh
  <2>3. \A k \in 0 .. n : ~ Midway(k)
    <3> SUFFICES ASSUME NEW k \in 0 .. n, Midway(k) PROVE FALSE
      OBVIOUS
    <3>1. pc \in Nat /\ pc >= 2
      BY <1>1, CodeFacts DEF Midway
    <3> QED BY <2>1, <3>1
  <2> QED BY <2>2, <2>3 DEF DecodeInv
<1>3. /\ rules = Joined(Meanings(g))[n] /\ Len(rd) = Len(rules)
      /\ \A i \in 1 .. Len(rules) : Behind(Code(g), rd[i]) = Sides(rules[i])
  BY <1>2 DEF Finished, Reached, Made
<1>4. Len(rules) \in Nat
  <2>1. n \in 0 .. n
    BY <1>1
  <2>2. Made(g, n, rules, rd)
    BY <1>2 DEF Finished, Reached
  <2> QED BY <1>1, <2>1, <2>2, MadeTyped
<1>5. ASSUME NEW r \in 0 .. Len(rules) - 1
      PROVE  DecodeRule(r) = [lhs |-> rules[r + 1].lhs, rhs |-> rules[r + 1].rhs]
  <2>1. r + 1 \in 1 .. Len(rules)
    BY <1>4
  <2>2. code.rules = Code(g)
    BY <1>1 DEF Given
  <2> QED BY <1>3, <2>1, <2>2 DEF DecodeRule, Sides
<1>6. ASSUME \A k \in 1 .. n : g.rules[k].type # "brange", NEW r \in 0 .. Len(rules) - 1
      PROVE  /\ G1decode(code.mask, r) = g.rules[r + 1].mask
             /\ G1decode(code.semantic, r) = g.rules[r + 1].sema
  <2>1. Len(rules) = n
    BY <1>1, <1>3, <1>6, OneEach
  <2>2. r + 1 \in 1 .. n /\ r \in 0 .. n - 1
    BY <1>1, <2>1
  <2> DEFINE S == Seq(Nat)
             ms == [k \in 1 .. n |-> g.rules[k].mask]
             ss == [k \in 1 .. n |-> g.rules[k].sema]
  <2>3. \A k \in 1 .. n : g.rules[k].mask \in S /\ g.rules[k].sema \in S
    <3>1. \A k \in 1 .. n : IsRule(g.rules[k])
      BY <1>1, RulesAt
    <3> QED BY <3>1 DEF IsRule
  <2>4. ms[r + 1] = g.rules[r + 1].mask /\ ss[r + 1] = g.rules[r + 1].sema
    BY <2>2
  <2>5. code.mask = PerRule(ms, TRUE) /\ code.semantic = PerRule(ss, FALSE)
    BY <1>1 DEF Given, Masks, Semantics
  <2> HIDE DEF S
  <2>6. ms \in [1 .. n -> S] /\ ss \in [1 .. n -> S]
    BY <2>3
  <2> HIDE DEF ms, ss, n
  <2>7. ms \in Seq(S) /\ Len(ms) = n /\ ss \in Seq(S) /\ Len(ss) = n
    BY <1>1, <2>6, IsSequence
  <2>8. /\ ms \in Seq(Seq(Nat)) /\ r \in 0 .. Len(ms) - 1
        /\ ss \in Seq(Seq(Nat)) /\ r \in 0 .. Len(ss) - 1
    BY <2>2, <2>7 DEF S
  <2>9. TRUE \in BOOLEAN /\ FALSE \in BOOLEAN
    OBVIOUS
  <2>10. G1decode(PerRule(ms, TRUE), r) = ms[r + 1]
    BY <2>8, <2>9, PerRuleFound, Zenon
  <2>11. G1decode(PerRule(ss, FALSE), r) = ss[r + 1]
    BY <2>8, <2>9, PerRuleFound, Zenon
  <2> QED BY <2>4, <2>5, <2>10, <2>11
<1> QED BY <1>3, <1>5, <1>6 DEF RuleFound

\* At the end, under the number of each rule are the mask, the semantics and the
\* sides of that rule, in each of the forms in which they can be stored
\* (runtime-c.tcl:1268-1315, spec.c:268-331, progress.c:20-79).
THEOREM RulesFound == DecodeSpec => []RuleFound
BY DecodeInvariant, InvRuleFound, PTL

-----------------------------------------------------------------------------
(* Numbers of things                                                       *)

\* The number of what is in one of two sets that have nothing in common.
LEMMA DisjointUnion ==
    ASSUME NEW S, NEW T, IsFiniteSet(S), IsFiniteSet(T), S \cap T = {}
    PROVE  /\ IsFiniteSet(S \cup T)
           /\ Cardinality(S) \in Nat /\ Cardinality(T) \in Nat
           /\ Cardinality(S \cup T) = Cardinality(S) + Cardinality(T)
<1>1. Cardinality(S \cap T) = 0
  BY FS_EmptySet
<1>2. Cardinality(S) \in Nat /\ Cardinality(T) \in Nat
  BY FS_CardinalityType
<1>3. /\ IsFiniteSet(S \cup T)
      /\ Cardinality(S \cup T) = Cardinality(S) + Cardinality(T) - Cardinality(S \cap T)
  BY FS_Union
<1> QED BY <1>1, <1>2, <1>3

\* There are as many pairs with a given first member as there are second ones.
LEMMA PairsOf ==
    ASSUME NEW v, NEW S, IsFiniteSet(S)
    PROVE  IsFiniteSet({v} \X S) /\ Cardinality({v} \X S) = Cardinality(S)
<1>1. IsFiniteSet({v}) /\ Cardinality({v}) = 1
  BY FS_Singleton
<1>2. IsFiniteSet({v} \X S) /\ Cardinality({v} \X S) = Cardinality({v}) * Cardinality(S)
  BY <1>1, FS_Product
<1>3. Cardinality(S) \in Nat
  BY FS_CardinalityType
<1> QED BY <1>1, <1>2, <1>3

\* A set of numbers keeps its size when all of them grow by the same.
LEMMA ShiftedSet ==
    ASSUME NEW n \in Int, NEW S \in SUBSET Int, IsFiniteSet(S)
    PROVE  /\ IsFiniteSet({n + k : k \in S})
           /\ Cardinality({n + k : k \in S}) = Cardinality(S)
<1> DEFINE T == {n + k : k \in S}
           f == [k \in S |-> n + k]
<1>1. f \in Bijection(S, T)
  <2>1. f \in [S -> T]
    OBVIOUS
  <2>2. \A a, b \in S : f[a] = f[b] => a = b
    OBVIOUS
  <2>3. \A t \in T : \E s \in S : f[s] = t
    OBVIOUS
  <2> HIDE DEF f, T
  <2> QED BY <2>1, <2>2, <2>3 DEF Bijection, Injection, Surjection, IsInjective
<1>2. ExistsBijection(S, T)
  BY <1>1 DEF ExistsBijection
<1> HIDE DEF T, f
<1>3. IsFiniteSet(T) /\ Cardinality(T) = Cardinality(S)
  BY <1>2, FS_Bijection
<1> QED BY <1>3 DEF T

\* A set of numbers that is not empty has a first one.
LEMMA LeastOf ==
    ASSUME NEW S \in SUBSET Nat, S # {}
    PROVE  \E x \in S : \A y \in S : x <= y
<1> SUFFICES ASSUME \A x \in S : \E y \in S : ~(x <= y) PROVE FALSE
  OBVIOUS
<1> DEFINE T == {n \in Nat : \A m \in 0 .. n : m \notin S}
<1>1. 0 \in T
  <2>1. 0 .. 0 = {0}
    OBVIOUS
  <2>2. 0 \notin S
    <3> SUFFICES ASSUME 0 \in S PROVE FALSE
      OBVIOUS
    <3>1. PICK y \in S : ~(0 <= y)
      OBVIOUS
    <3> QED BY <3>1
  <2> QED BY <2>1, <2>2
<1>2. ASSUME NEW n \in Nat, n \in T PROVE n + 1 \in T
  <2>1. n + 1 \notin S
    <3> SUFFICES ASSUME n + 1 \in S PROVE FALSE
      OBVIOUS
    <3>1. PICK y \in S : ~(n + 1 <= y)
      OBVIOUS
    <3>2. y \in 0 .. n
      BY <3>1
    <3> QED BY <1>2, <3>2
  <2>2. \A m \in 0 .. n + 1 : m = n + 1 \/ m \in 0 .. n
    OBVIOUS
  <2> QED BY <1>2, <2>1, <2>2
<1> HIDE DEF T
<1>3. \A n \in Nat : n \in T
  BY <1>1, <1>2, SetInduction
<1>4. \A n \in Nat : n \notin S
  BY <1>3 DEF T
<1> QED BY <1>4

\* ... and Min is one.
LEMMA MinIsIn ==
    ASSUME NEW S \in SUBSET Nat, S # {}
    PROVE  Min(S) \in S
BY LeastOf DEF Min

-----------------------------------------------------------------------------
(* Places                                                                  *)

\* The places of something in a sequence are finitely many.
LEMMA PlacesNat ==
    ASSUME NEW V, NEW xs \in Seq(V), NEW x
    PROVE  /\ IsFiniteSet({k \in 1 .. Len(xs) : xs[k] = x})
           /\ Places(x, xs) \in Nat
           /\ Places(x, xs) = 0 <=> \A k \in 1 .. Len(xs) : xs[k] # x
<1>1. IsFiniteSet(1 .. Len(xs))
  BY FS_Interval
<1>2. {k \in 1 .. Len(xs) : xs[k] = x} \in SUBSET (1 .. Len(xs))
  OBVIOUS
<1>3. IsFiniteSet({k \in 1 .. Len(xs) : xs[k] = x})
  BY <1>1, <1>2, FS_Subset
<1>4. Cardinality({k \in 1 .. Len(xs) : xs[k] = x}) = 0
      <=> {k \in 1 .. Len(xs) : xs[k] = x} = {}
  BY <1>3, FS_EmptySet
<1> QED BY <1>3, <1>4, FS_CardinalityType DEF Places

\* In a sequence behind another one are the places of both.
LEMMA PlacesConcat ==
    ASSUME NEW V, NEW xs \in Seq(V), NEW ys \in Seq(V), NEW x
    PROVE  Places(x, xs \o ys) = Places(x, xs) + Places(x, ys)
<1> DEFINE A == {k \in 1 .. Len(xs) : xs[k] = x}
           B == {k \in 1 .. Len(ys) : ys[k] = x}
           C == {Len(xs) + k : k \in B}
           D == {k \in 1 .. Len(xs \o ys) : (xs \o ys)[k] = x}
<1>1. IsFiniteSet(A) /\ IsFiniteSet(B)
  BY PlacesNat
<1>2. Len(xs) \in Nat /\ Len(ys) \in Nat /\ Len(xs \o ys) = Len(xs) + Len(ys)
  OBVIOUS
<1>3. /\ \A k \in 1 .. Len(xs) : (xs \o ys)[k] = xs[k]
      /\ \A k \in 1 .. Len(ys) : (xs \o ys)[Len(xs) + k] = ys[k]
  OBVIOUS
<1>4. IsFiniteSet(C) /\ Cardinality(C) = Cardinality(B)
  <2>1. B \in SUBSET Int /\ Len(xs) \in Int
    BY <1>2
  <2> HIDE DEF B
  <2> QED BY <1>1, <2>1, ShiftedSet
<1>5. D = A \cup C
  <2>1. ASSUME NEW k \in D PROVE k \in A \cup C
    <3>1. k \in 1 .. Len(xs) + Len(ys) /\ (xs \o ys)[k] = x
      BY <1>2
    <3>2. CASE k <= Len(xs)
      <4>1. k \in 1 .. Len(xs)
        BY <1>2, <3>1, <3>2
      <4> QED BY <1>3, <3>1, <4>1
    <3>3. CASE ~(k <= Len(xs))
      <4>1. k - Len(xs) \in 1 .. Len(ys) /\ k = Len(xs) + (k - Len(xs))
        BY <1>2, <3>1, <3>3
      <4>2. k - Len(xs) \in B
        BY <1>3, <3>1, <4>1
      <4> QED BY <4>1, <4>2
    <3> QED BY <3>2, <3>3
  <2>2. ASSUME NEW k \in A PROVE k \in D
    <3>1. k \in 1 .. Len(xs) + Len(ys)
      BY <1>2
    <3> QED BY <1>2, <1>3, <3>1
  <2>3. ASSUME NEW k \in C PROVE k \in D
    <3>1. PICK j \in B : k = Len(xs) + j
      OBVIOUS
    <3>2. k \in 1 .. Len(xs) + Len(ys)
      BY <1>2, <3>1
    <3> QED BY <1>2, <1>3, <3>1, <3>2
  <2> QED BY <2>1, <2>2, <2>3
<1>6. A \cap C = {}
  BY <1>2
<1>7. Places(x, xs) = Cardinality(A) /\ Places(x, ys) = Cardinality(B)
      /\ Places(x, xs \o ys) = Cardinality(D)
  BY DEF Places
<1> HIDE DEF A, B, C, D
<1> QED BY <1>1, <1>4, <1>5, <1>6, <1>7, DisjointUnion

\* One more at the end, one at the front, none at all.
LEMMA PlacesEmpty == \A x : Places(x, << >>) = 0
<1>1. << >> \in Seq({}) /\ \A k \in 1 .. Len(<< >>) : FALSE
  OBVIOUS
<1> QED BY <1>1, PlacesNat

\* In a sequence of one element there is one place.
LEMMA PlacesOne ==
    ASSUME NEW x, NEW y
    PROVE  Places(x, << y >>) = IF x = y THEN 1 ELSE 0
<1>1. {k \in 1 .. Len(<< y >>) : << y >>[k] = x} = IF x = y THEN {1} ELSE {}
  OBVIOUS
<1> QED BY <1>1, FS_Singleton, FS_EmptySet DEF Places

\* Another element is another place of it.
LEMMA PlacesAppend ==
    ASSUME NEW V, NEW xs \in Seq(V), NEW y \in V, NEW x
    PROVE  Places(x, Append(xs, y)) = Places(x, xs) + (IF x = y THEN 1 ELSE 0)
<1>1. Append(xs, y) = xs \o << y >> /\ << y >> \in Seq(V)
  OBVIOUS
<1>2. Places(x, xs \o << y >>) = Places(x, xs) + Places(x, << y >>)
  BY <1>1, PlacesConcat
<1> QED BY <1>1, <1>2, PlacesOne

\* The places of something are at the head and behind it.
LEMMA PlacesTail ==
    ASSUME NEW V, NEW xs \in Seq(V), xs # << >>, NEW x
    PROVE  Places(x, xs) = (IF x = Head(xs) THEN 1 ELSE 0) + Places(x, Tail(xs))
<1>1. xs = << Head(xs) >> \o Tail(xs) /\ << Head(xs) >> \in Seq(V) /\ Tail(xs) \in Seq(V)
  OBVIOUS
<1>2. Places(x, << Head(xs) >> \o Tail(xs)) = Places(x, << Head(xs) >>) + Places(x, Tail(xs))
  BY <1>1, PlacesConcat
<1> QED BY <1>1, <1>2, PlacesOne

\* A sequence in two parts.
LEMMA PlacesParts ==
    ASSUME NEW V, NEW xs \in Seq(V), NEW n \in 0 .. Len(xs)
    PROVE  /\ SubSeq(xs, 1, n) \in Seq(V) /\ Len(SubSeq(xs, 1, n)) = n
           /\ SubSeq(xs, n + 1, Len(xs)) \in Seq(V)
           /\ Len(SubSeq(xs, n + 1, Len(xs))) = Len(xs) - n
           /\ \A k \in 1 .. n : SubSeq(xs, 1, n)[k] = xs[k]
           /\ \A k \in 1 .. Len(xs) - n : SubSeq(xs, n + 1, Len(xs))[k] = xs[n + k]
           /\ \A x : Places(x, xs) = Places(x, SubSeq(xs, 1, n))
                                     + Places(x, SubSeq(xs, n + 1, Len(xs)))
<1> DEFINE a == SubSeq(xs, 1, n)
           b == SubSeq(xs, n + 1, Len(xs))
<1>1. Len(xs) \in Nat /\ n \in Nat /\ n <= Len(xs)
  OBVIOUS
<1>2. a \in Seq(V) /\ Len(a) = n /\ \A k \in 1 .. n : a[k] = xs[k]
  <2>1. \A i \in 1 .. n : xs[i] \in V
    BY <1>1
  <2>2. /\ a \in Seq(V) /\ Len(a) = IF 1 <= n THEN n - 1 + 1 ELSE 0
        /\ \A i \in 1 .. n - 1 + 1 : a[i] = xs[1 + i - 1]
    BY <1>1, <2>1, SubSeqProperties
  <2> HIDE DEF a
  <2>3. \A i \in 1 .. n : i \in 1 .. n - 1 + 1 /\ 1 + i - 1 = i
    BY <1>1
  <2> QED BY <1>1, <2>2, <2>3
<1>3. b \in Seq(V) /\ Len(b) = Len(xs) - n /\ \A k \in 1 .. Len(xs) - n : b[k] = xs[n + k]
  <2>1. \A i \in n + 1 .. Len(xs) : xs[i] \in V
    BY <1>1
  <2>2. /\ b \in Seq(V) /\ Len(b) = IF n + 1 <= Len(xs) THEN Len(xs) - (n + 1) + 1 ELSE 0
        /\ \A i \in 1 .. Len(xs) - (n + 1) + 1 : b[i] = xs[n + 1 + i - 1]
    BY <1>1, <2>1, SubSeqProperties
  <2> HIDE DEF b
  <2>3. \A i \in 1 .. Len(xs) - n : i \in 1 .. Len(xs) - (n + 1) + 1 /\ n + 1 + i - 1 = n + i
    BY <1>1
  <2> QED BY <1>1, <2>2, <2>3
<1> HIDE DEF a, b
<1>4. xs = a \o b
  <2>1. a \o b \in Seq(V) /\ Len(a \o b) = Len(xs)
    BY <1>1, <1>2, <1>3
  <2>2. ASSUME NEW k \in 1 .. Len(xs) PROVE (a \o b)[k] = xs[k]
    <3>1. CASE k <= n
      BY <1>1, <1>2, <1>3, <3>1
    <3>2. CASE ~(k <= n)
      <4>1. k - n \in 1 .. Len(xs) - n /\ n + (k - n) = k
        BY <1>1, <3>2
      <4>2. (a \o b)[k] = b[k - n]
        BY <1>1, <1>2, <1>3, <3>2
      <4> QED BY <1>3, <4>1, <4>2
    <3> QED BY <3>1, <3>2
  <2> QED BY <2>1, <2>2, SeqEqual
<1>5. \A x : Places(x, a \o b) = Places(x, a) + Places(x, b)
  BY <1>2, <1>3, PlacesConcat
<1> QED BY <1>2, <1>3, <1>4, <1>5 DEF a, b

-----------------------------------------------------------------------------
(* What vectors hold                                                       *)

\* References, values and the memory with them.
Vals == SvIds \cup {Null}
Sv == [key : Int, at : Int, elems : Seq(Vals), refs : Nat]
Heap == [SvIds -> Sv]

\* The references to x that vectors hold,
UsersOf(h, x) == {p \in Held(h) : h[p[1]].elems[p[2]] = x}
Users(h, x) == Cardinality(UsersOf(h, x))

\* ... and those that others than v hold.
HeldBut(h, v) == UNION {{y} \X (1 .. Len(h[y].elems)) : y \in SvIds \ {v}}
UsersBut(h, v, x) == {p \in HeldBut(h, v) : h[p[1]].elems[p[2]] = x}

\* A reference is one of the vector v or one of another.
LEMMA HeldParts ==
    ASSUME NEW h \in Heap, NEW v \in SvIds
    PROVE  /\ IsFiniteSet(Held(h)) /\ Cardinality(Held(h)) \in Nat
           /\ IsFiniteSet(HeldBut(h, v)) /\ Cardinality(HeldBut(h, v)) \in Nat
           /\ h[v].elems \in Seq(Vals) /\ Len(h[v].elems) \in Nat
           /\ Held(h) = HeldBut(h, v) \cup ({v} \X (1 .. Len(h[v].elems)))
           /\ HeldBut(h, v) \cap ({v} \X (1 .. Len(h[v].elems))) = {}
           /\ Cardinality(Held(h)) = Cardinality(HeldBut(h, v)) + Len(h[v].elems)
<1> DEFINE mine == {v} \X (1 .. Len(h[v].elems))
<1>1. \A y \in SvIds : h[y].elems \in Seq(Vals) /\ Len(h[y].elems) \in Nat
  <2> SUFFICES ASSUME NEW y \in SvIds PROVE h[y].elems \in Seq(Vals) /\ Len(h[y].elems) \in Nat
    OBVIOUS
  <2>1. h[y] \in Sv
    BY DEF Heap
  <2> QED BY <2>1 DEF Sv
<1>2. \A y \in SvIds : IsFiniteSet({y} \X (1 .. Len(h[y].elems)))
  <2> SUFFICES ASSUME NEW y \in SvIds PROVE IsFiniteSet({y} \X (1 .. Len(h[y].elems)))
    OBVIOUS
  <2>1. IsFiniteSet(1 .. Len(h[y].elems))
    BY <1>1, FS_Interval
  <2> QED BY <2>1, PairsOf
<1>3. IsFiniteSet(HeldBut(h, v))
  <2> DEFINE all == {{y} \X (1 .. Len(h[y].elems)) : y \in SvIds \ {v}}
             f == [y \in SvIds \ {v} |-> {y} \X (1 .. Len(h[y].elems))]
  <2>1. IsFiniteSet(SvIds \ {v})
    BY SvIdsAssumption, FS_RemoveElement
  <2>2. IsFiniteSet(all)
    <3>1. f \in [SvIds \ {v} -> all] /\ \A T \in all : \E y \in SvIds \ {v} : f[y] = T
      OBVIOUS
    <3> HIDE DEF all, f
    <3>2. f \in Surjection(SvIds \ {v}, all)
      BY <3>1 DEF Surjection
    <3> QED BY <2>1, <3>2, FS_Surjection
  <2>3. \A T \in all : IsFiniteSet(T)
    BY <1>2
  <2> HIDE DEF all
  <2>4. IsFiniteSet(UNION all)
    BY <2>2, <2>3, FS_UNION
  <2> QED BY <2>4 DEF all, HeldBut
<1>4. Held(h) = HeldBut(h, v) \cup mine
  <2>1. ASSUME NEW p \in Held(h) PROVE p \in HeldBut(h, v) \cup mine
    <3>1. PICK y \in SvIds : p \in {y} \X (1 .. Len(h[y].elems))
      BY DEF Held
    <3> QED BY <3>1 DEF HeldBut
  <2>2. \A p \in mine : p \in Held(h)
    BY DEF Held
  <2>3. \A p \in HeldBut(h, v) : p \in Held(h)
    BY DEF Held, HeldBut
  <2> QED BY <2>1, <2>2, <2>3
<1>5. HeldBut(h, v) \cap mine = {}
  <2> SUFFICES ASSUME NEW p \in HeldBut(h, v), p \in mine PROVE FALSE
    OBVIOUS
  <2>1. PICK y \in SvIds \ {v} : p \in {y} \X (1 .. Len(h[y].elems))
    BY DEF HeldBut
  <2> QED BY <2>1
<1>6. IsFiniteSet(mine) /\ Cardinality(mine) = Len(h[v].elems)
  <2>1. IsFiniteSet(1 .. Len(h[v].elems)) /\ Cardinality(1 .. Len(h[v].elems)) = Len(h[v].elems)
    BY <1>1, FS_Interval
  <2> QED BY <2>1, PairsOf
<1> HIDE DEF mine
<1>7. /\ IsFiniteSet(Held(h))
      /\ Cardinality(HeldBut(h, v)) \in Nat
      /\ Cardinality(Held(h)) = Cardinality(HeldBut(h, v)) + Len(h[v].elems)
  BY <1>3, <1>4, <1>5, <1>6, DisjointUnion
<1>8. Cardinality(Held(h)) \in Nat
  BY <1>7, FS_CardinalityType
<1> QED BY <1>1, <1>3, <1>4, <1>5, <1>7, <1>8 DEF mine

\* So is one to x.
LEMMA UsersParts ==
    ASSUME NEW h \in Heap, NEW v \in SvIds, NEW x
    PROVE  /\ Users(h, x) \in Nat
           /\ Places(x, h[v].elems) \in Nat
           /\ Cardinality(UsersBut(h, v, x)) \in Nat
           /\ Users(h, x) = Cardinality(UsersBut(h, v, x)) + Places(x, h[v].elems)
<1> DEFINE P == {k \in 1 .. Len(h[v].elems) : h[v].elems[k] = x}
           mine == {v} \X P
<1>1. /\ IsFiniteSet(Held(h)) /\ IsFiniteSet(HeldBut(h, v)) /\ h[v].elems \in Seq(Vals)
      /\ Held(h) = HeldBut(h, v) \cup ({v} \X (1 .. Len(h[v].elems)))
      /\ HeldBut(h, v) \cap ({v} \X (1 .. Len(h[v].elems))) = {}
  BY HeldParts
<1>2. IsFiniteSet(P) /\ Places(x, h[v].elems) = Cardinality(P) /\ Places(x, h[v].elems) \in Nat
  BY <1>1, PlacesNat DEF Places
<1>3. IsFiniteSet(UsersBut(h, v, x))
  <2>1. UsersBut(h, v, x) \in SUBSET HeldBut(h, v)
    BY DEF UsersBut
  <2> QED BY <1>1, <2>1, FS_Subset
<1>4. UsersOf(h, x) = UsersBut(h, v, x) \cup mine
  BY <1>1 DEF UsersOf, UsersBut
<1>5. UsersBut(h, v, x) \cap mine = {}
  BY <1>1 DEF UsersBut
<1> HIDE DEF P
<1>6. IsFiniteSet(mine) /\ Cardinality(mine) = Cardinality(P)
  BY <1>2, PairsOf
<1> HIDE DEF mine
<1>7. /\ Cardinality(UsersBut(h, v, x)) \in Nat /\ Cardinality(mine) \in Nat
      /\ Cardinality(UsersOf(h, x)) = Cardinality(UsersBut(h, v, x)) + Cardinality(mine)
  BY <1>3, <1>4, <1>5, <1>6, DisjointUnion
<1> QED BY <1>2, <1>6, <1>7 DEF Users

\* When one vector changes, so do the references of the values in it.
LEMMA VectorChanged ==
    ASSUME NEW h \in Heap, NEW g \in Heap, NEW v \in SvIds,
           \A y \in SvIds \ {v} : g[y].elems = h[y].elems
    PROVE  /\ Cardinality(Held(g)) = Cardinality(Held(h)) - Len(h[v].elems) + Len(g[v].elems)
           /\ \A x : Users(g, x) = Users(h, x) - Places(x, h[v].elems) + Places(x, g[v].elems)
<1>1. HeldBut(g, v) = HeldBut(h, v)
  BY DEF HeldBut
<1>2. \A x : UsersBut(g, v, x) = UsersBut(h, v, x)
  <2> SUFFICES ASSUME NEW p \in HeldBut(h, v) PROVE g[p[1]].elems = h[p[1]].elems
    BY <1>1 DEF UsersBut
  <2>1. PICK y \in SvIds \ {v} : p \in {y} \X (1 .. Len(h[y].elems))
    BY DEF HeldBut
  <2> QED BY <2>1
<1>3. Cardinality(Held(g)) = Cardinality(Held(h)) - Len(h[v].elems) + Len(g[v].elems)
  <2>1. /\ Cardinality(HeldBut(h, v)) \in Nat /\ Len(h[v].elems) \in Nat
        /\ Cardinality(Held(h)) = Cardinality(HeldBut(h, v)) + Len(h[v].elems)
    BY HeldParts
  <2>2. /\ Len(g[v].elems) \in Nat
        /\ Cardinality(Held(g)) = Cardinality(HeldBut(g, v)) + Len(g[v].elems)
    BY HeldParts
  <2> QED BY <1>1, <2>1, <2>2
<1>4. ASSUME NEW x
      PROVE  Users(g, x) = Users(h, x) - Places(x, h[v].elems) + Places(x, g[v].elems)
  <2>1. /\ Cardinality(UsersBut(h, v, x)) \in Nat /\ Places(x, h[v].elems) \in Nat
        /\ Users(h, x) = Cardinality(UsersBut(h, v, x)) + Places(x, h[v].elems)
    BY UsersParts
  <2>2. /\ Places(x, g[v].elems) \in Nat
        /\ Users(g, x) = Cardinality(UsersBut(g, v, x)) + Places(x, g[v].elems)
    BY UsersParts
  <2> QED BY <1>2, <2>1, <2>2
<1> QED BY <1>3, <1>4

\* When none changes, they do not.
LEMMA VectorsSame ==
    ASSUME NEW h, NEW g, \A y \in SvIds : g[y].elems = h[y].elems
    PROVE  Held(g) = Held(h) /\ \A x : Users(g, x) = Users(h, x)
<1>1. Held(g) = Held(h)
  BY DEF Held
<1>2. \A x : UsersOf(g, x) = UsersOf(h, x)
  <2> SUFFICES ASSUME NEW p \in Held(h) PROVE g[p[1]].elems = h[p[1]].elems
    BY <1>1 DEF UsersOf
  <2>1. PICK y \in SvIds : p \in {y} \X (1 .. Len(h[y].elems))
    BY DEF Held
  <2> QED BY <2>1
<1> QED BY <1>1, <1>2 DEF Users

\* An element of a vector is referred to.
LEMMA UsedByVector ==
    ASSUME NEW h \in Heap, NEW y \in SvIds, NEW k \in 1 .. Len(h[y].elems)
    PROVE  Users(h, h[y].elems[k]) > 0
<1> DEFINE x == h[y].elems[k]
<1>1. Places(x, h[y].elems) \in Nat /\ Cardinality(UsersBut(h, y, x)) \in Nat
      /\ Users(h, x) = Cardinality(UsersBut(h, y, x)) + Places(x, h[y].elems)
  BY UsersParts
<1>2. h[y].elems \in Seq(Vals)
  BY HeldParts
<1>3. Places(x, h[y].elems) # 0
  BY <1>2, PlacesNat
<1> QED BY <1>1, <1>3

-----------------------------------------------------------------------------
(* Counts                                                                  *)

\* Numbers of references to each value, and more of them.
Counts == [SvIds -> Nat]
Plus(c, x) == [y \in SvIds |-> c[y] + (IF y = x THEN 1 ELSE 0)]
PlusAll(c, xs) == [y \in SvIds |-> c[y] + Places(y, xs)]

\* The values that are allocated.
Live(h) == {x \in SvIds : h[x].key # Free}
IsLive(h, x) == x = Null \/ x \in Live(h)

\* The values count the references of vectors and those that c counts.  Only values
\* of G may have none.
Exact(h, c, G) ==
    /\ h \in Heap /\ c \in Counts
    /\ \A x \in SvIds :
         /\ h[x].refs = c[x] + Users(h, x)
         /\ h[x].key \in Nat \cup {Free}
         /\ h[x].key = Free => h[x] = NoSv
         /\ h[x].key # Free /\ h[x].refs = 0 => x \in G

\* Some values are still what they were.
Same(h, g, S) ==
    \A x \in S : g[x].key = h[x].key /\ g[x].at = h[x].at /\ g[x].elems = h[x].elems

\* Counts with more references are counts.
LEMMA PlusCounts ==
    ASSUME NEW c \in Counts
    PROVE  /\ \A x : Plus(c, x) \in Counts
           /\ \A xs \in Seq(Vals) : PlusAll(c, xs) \in Counts
<1>1. \A xs \in Seq(Vals) : \A y : Places(y, xs) \in Nat
  BY PlacesNat
<1> QED BY <1>1 DEF Counts, Plus, PlusAll

\* The parts of a value.
LEMMA SvParts ==
    ASSUME NEW h \in Heap, NEW x \in SvIds
    PROVE  /\ h[x] \in Sv /\ h[x].key \in Int /\ h[x].at \in Int /\ h[x].elems \in Seq(Vals)
           /\ h[x].refs \in Nat /\ x # Null /\ x \in Vals
<1>1. h[x] \in Sv
  BY DEF Heap
<1> QED BY <1>1, SvIdsAssumption DEF Sv, Vals, Null

\* What is not allocated.
LEMMA NoSvIs ==
    /\ NoSv \in Sv /\ NoSv.key = Free /\ NoSv.at = 0 /\ NoSv.elems = << >> /\ NoSv.refs = 0
    /\ Free = -1 /\ Free \notin Nat /\ Free \in Int
<1>1. << >> \in Seq(Vals)
  OBVIOUS
<1> QED BY <1>1 DEF NoSv, Sv, Free

\* The number of references of a vector's values is a number.
LEMMA UsersNat ==
    ASSUME NEW h \in Heap, NEW x \in SvIds
    PROVE  Users(h, x) \in Nat
BY UsersParts

\* The elements of vectors live, and so does what is counted.
LEMMA ElementsLive ==
    ASSUME NEW h, NEW c, NEW G, Exact(h, c, G), NEW y \in SvIds
    PROVE  \A k \in 1 .. Len(h[y].elems) : h[y].elems[k] \in Vals /\ IsLive(h, h[y].elems[k])
<1> TAKE k \in 1 .. Len(h[y].elems)
<1> DEFINE x == h[y].elems[k]
<1>1. h \in Heap /\ h[y].elems \in Seq(Vals)
  BY SvParts DEF Exact
<1>2. x \in Vals
  BY <1>1
<1>3. CASE x = Null
  BY <1>2, <1>3 DEF IsLive
<1>4. CASE x # Null
  <2>1. x \in SvIds /\ Users(h, x) > 0 /\ Users(h, x) \in Nat
    BY <1>1, <1>2, <1>4, UsedByVector, UsersNat DEF Vals
  <2>2. h[x].refs = c[x] + Users(h, x) /\ c[x] \in Nat
    BY <2>1 DEF Exact, Counts
  <2>3. h[x].refs # 0
    BY <2>1, <2>2
  <2>4. h[x].key # Free
    BY <2>1, <2>3, NoSvIs DEF Exact
  <2> QED BY <1>2, <2>1, <2>4 DEF IsLive, Live
<1> QED BY <1>3, <1>4

\* A value that is referred to lives.
LEMMA CountedLive ==
    ASSUME NEW h, NEW c, NEW G, Exact(h, c, G), NEW x \in SvIds, c[x] # 0
    PROVE  x \in Live(h)
<1>1. h \in Heap /\ h[x].refs = c[x] + Users(h, x) /\ c[x] \in Nat
  BY DEF Exact, Counts
<1>2. Users(h, x) \in Nat
  BY <1>1, UsersNat
<1>3. h[x].key # Free
  BY <1>1, <1>2, NoSvIs DEF Exact
<1> QED BY <1>3 DEF Live

\* What is not in use is not referred to.
LEMMA UnusedFree ==
    ASSUME NEW h, NEW c, NEW G, Exact(h, c, G), NEW x \in Unused(h)
    PROVE  /\ x \in SvIds /\ h[x] = NoSv /\ c[x] = 0 /\ Users(h, x) = 0 /\ x \notin Live(h)
<1>1. x \in SvIds /\ h[x].key = Free /\ h \in Heap
  BY DEF Exact, Unused
<1>2. h[x] = NoSv /\ h[x].refs = c[x] + Users(h, x) /\ c[x] \in Nat
  BY <1>1 DEF Exact, Counts
<1>3. Users(h, x) \in Nat
  BY <1>1, UsersNat
<1> QED BY <1>1, <1>2, <1>3, NoSvIs DEF Live

\* The same counts, written in another way.
LEMMA ExactOther ==
    ASSUME NEW h, NEW c, NEW d \in Counts, NEW G, NEW F, Exact(h, c, G), G \subseteq F,
           \A x \in SvIds : d[x] = c[x]
    PROVE  Exact(h, d, F)
BY DEF Exact

\* There is memory for one more when there is some.
LEMMA FreeSvUnused ==
    ASSUME NEW h, Cardinality(Unused(h)) > 0
    PROVE  FreeSv(h) \in Unused(h)
<1>1. Unused(h) \in SUBSET Nat
  BY SvIdsAssumption DEF Unused
<1>2. Unused(h) # {}
  BY FS_EmptySet
<1> QED BY <1>1, <1>2, MinIsIn DEF FreeSv

\* There is a number of values that are not in use.
LEMMA UnusedFinite ==
    ASSUME NEW h
    PROVE  IsFiniteSet(Unused(h)) /\ Cardinality(Unused(h)) \in Nat
<1>1. Unused(h) \in SUBSET SvIds
  BY DEF Unused
<1>2. IsFiniteSet(Unused(h))
  BY <1>1, SvIdsAssumption, FS_Subset
<1> QED BY <1>2, FS_CardinalityType

-----------------------------------------------------------------------------
(* Operations                                                              *)

\* Heap g is heap h with one more reference to x,
Referred(h, c, G, x, g) ==
    /\ Exact(g, Plus(c, x), G \ {x})
    /\ Live(g) = Live(h) /\ Unused(g) = Unused(h)
    /\ Same(h, g, SvIds)

\* One reference more is counted.
LEMMA RefExact ==
    ASSUME NEW h, NEW c, NEW G, Exact(h, c, G), NEW x \in Vals, IsLive(h, x),
           NEW g, g = Ref(h, x)
    PROVE  Referred(h, c, G, x, g)
<1> DEFINE d == Plus(c, x)
<1>1. h \in Heap /\ c \in Counts /\ d \in Counts
  BY PlusCounts DEF Exact
<1>2. \A y \in SvIds : d[y] = c[y] + (IF y = x THEN 1 ELSE 0)
  BY DEF Plus
<1>3. CASE x = Null
  <2>1. g = h
    BY <1>3 DEF Ref
  <2>2. \A y \in SvIds : y # x
    BY <1>3, SvIdsAssumption DEF Null
  <2>3. \A y \in SvIds : d[y] = c[y]
    BY <1>1, <1>2, <2>2 DEF Counts
  <2>4. Exact(g, d, G \ {x})
    BY <1>1, <2>1, <2>2, <2>3 DEF Exact
  <2> QED BY <2>1, <2>4 DEF Same, Referred
<1>4. CASE x # Null
  <2>1. x \in SvIds /\ x \in Live(h)
    BY <1>4 DEF Vals, IsLive
  <2>2. g = [h EXCEPT ![x].refs = @ + 1]
    BY <1>4 DEF Ref
  <2>3. /\ g \in Heap
        /\ \A y \in SvIds : /\ g[y].key = h[y].key /\ g[y].at = h[y].at
                            /\ g[y].elems = h[y].elems
                            /\ g[y].refs = h[y].refs + (IF y = x THEN 1 ELSE 0)
                            /\ y # x => g[y] = h[y]
    <3>1. h[x] \in Sv /\ h[x].refs \in Nat /\ \A y \in SvIds : h[y] \in Sv /\ h[y].refs \in Nat
      BY <1>1, <2>1, SvParts
    <3> DEFINE n == [h[x] EXCEPT !.refs = @ + 1]
    <3>2. /\ n \in Sv /\ n.key = h[x].key /\ n.at = h[x].at /\ n.elems = h[x].elems
          /\ n.refs = h[x].refs + 1
      BY <3>1 DEF Sv
    <3>3. g = [h EXCEPT ![x] = n]
      BY <2>2
    <3> HIDE DEF n
    <3>4. \A y \in SvIds : g[y] = IF y = x THEN n ELSE h[y]
      BY <1>1, <2>1, <3>3 DEF Heap
    <3>5. g \in Heap
      BY <1>1, <3>2, <3>3 DEF Heap
    <3> QED BY <3>1, <3>2, <3>4, <3>5
  <2>4. \A y : Users(g, y) = Users(h, y)
    BY <2>3, VectorsSame
  <2>6. Live(g) = Live(h) /\ Unused(g) = Unused(h) /\ Same(h, g, SvIds)
    BY <2>3 DEF Live, Unused, Same
  <2> HIDE DEF d
  <2>5. ASSUME NEW y \in SvIds
        PROVE  /\ g[y].refs = d[y] + Users(g, y)
               /\ g[y].key \in Nat \cup {Free}
               /\ g[y].key = Free => g[y] = NoSv
               /\ g[y].key # Free /\ g[y].refs = 0 => y \in G \ {x}
    <3>1. /\ h[y].refs = c[y] + Users(h, y) /\ h[y].refs \in Nat /\ c[y] \in Nat
          /\ h[y].key \in Nat \cup {Free} /\ (h[y].key = Free => h[y] = NoSv)
          /\ (h[y].key # Free /\ h[y].refs = 0 => y \in G) /\ Users(h, y) \in Nat
      BY <1>1, SvParts, UsersNat DEF Exact, Counts
    <3>2. x = y => h[y].key # Free
      BY <2>1 DEF Live
    <3>3. Users(g, y) = Users(h, y)
      BY <2>4
    <3>4. /\ g[y].key = h[y].key /\ g[y].refs = h[y].refs + (IF y = x THEN 1 ELSE 0)
          /\ d[y] = c[y] + (IF y = x THEN 1 ELSE 0)
          /\ (y # x => g[y] = h[y])
      BY <1>2, <2>3
    <3>5. CASE y = x
      BY <3>1, <3>2, <3>3, <3>4, <3>5
    <3>6. CASE y # x
      BY <3>1, <3>3, <3>4, <3>6
    <3> QED BY <3>5, <3>6
  <2>7. Exact(g, d, G \ {x})
    BY <1>1, <2>3, <2>5 DEF Exact
  <2> QED BY <2>6, <2>7 DEF d, Referred
<1> QED BY <1>3, <1>4

\* ... with a new value x,
Gained(h, c, G, x, key, at, g) ==
    /\ Exact(g, c, G \cup {x})
    /\ Live(g) = Live(h) \cup {x} /\ Unused(g) = Unused(h) \ {x}
    /\ Same(h, g, Live(h))
    /\ g[x].key = key /\ g[x].at = at /\ g[x].elems = << >>

\* A new value has no references yet.
LEMMA NewExact ==
    ASSUME NEW h, NEW c, NEW G, Exact(h, c, G), NEW x \in Unused(h), NEW key \in Nat,
           NEW at \in Int, NEW g, g = New(h, x, key, at)
    PROVE  Gained(h, c, G, x, key, at, g)
<1>1. h \in Heap /\ c \in Counts
  BY DEF Exact
<1>2. x \in SvIds /\ h[x] = NoSv /\ c[x] = 0 /\ Users(h, x) = 0 /\ x \notin Live(h)
  BY UnusedFree
<1>3. /\ g \in Heap
      /\ g[x].key = key /\ g[x].at = at /\ g[x].elems = << >> /\ g[x].refs = 0
      /\ \A y \in SvIds : y # x => g[y] = h[y]
  <2> DEFINE n == [NoSv EXCEPT !.key = key, !.at = at]
  <2>1. /\ n \in Sv /\ n.key = key /\ n.at = at /\ n.elems = << >> /\ n.refs = 0
    <3>1. << >> \in Seq(Vals) /\ key \in Int
      OBVIOUS
    <3> QED BY <3>1 DEF Sv, NoSv
  <2>2. g = [h EXCEPT ![x] = n]
    BY DEF New
  <2> HIDE DEF n
  <2> QED BY <1>1, <1>2, <2>1, <2>2 DEF Heap
<1>4. Live(g) = Live(h) \cup {x} /\ Unused(g) = Unused(h) \ {x} /\ Same(h, g, Live(h))
  <2>1. key # Free
    BY NoSvIs
  <2> QED BY <1>2, <1>3, <2>1 DEF Live, Unused, Same
<1>5. \A y : Users(g, y) = Users(h, y)
  <2>1. \A y \in SvIds : g[y].elems = h[y].elems
    BY <1>2, <1>3, NoSvIs
  <2> QED BY <2>1, VectorsSame
<1>6. Exact(g, c, G \cup {x})
  <2> SUFFICES ASSUME NEW y \in SvIds
               PROVE  /\ g[y].refs = c[y] + Users(g, y)
                      /\ g[y].key \in Nat \cup {Free}
                      /\ g[y].key = Free => g[y] = NoSv
                      /\ g[y].key # Free /\ g[y].refs = 0 => y \in G \cup {x}
    BY <1>1, <1>3 DEF Exact
  <2>1. Users(g, y) = Users(h, y)
    BY <1>5
  <2>2. CASE y = x
    BY <1>2, <1>3, <2>1, <2>2, NoSvIs
  <2>3. CASE y # x
    BY <1>3, <2>1, <2>3 DEF Exact
  <2> QED BY <2>2, <2>3
<1> QED BY <1>3, <1>4, <1>6 DEF Gained

\* ... with a reference to x added to vector v,
Pushed(h, c, G, v, x, g) ==
    /\ Exact(g, c, G \ {x})
    /\ Live(g) = Live(h) /\ Unused(g) = Unused(h)
    /\ Same(h, g, SvIds \ {v})
    /\ g[v].key = h[v].key /\ g[v].at = h[v].at
    /\ g[v].elems = Append(h[v].elems, x)

\* The reference of a vector to its new last element.
LEMMA PushExact ==
    ASSUME NEW h, NEW c, NEW G, Exact(h, c, G), NEW v \in Live(h), NEW x \in Vals,
           IsLive(h, x), NEW g, g = VecPush(h, v, x)
    PROVE  Pushed(h, c, G, v, x, g)
<1> DEFINE f == Ref(h, x)
           d == Plus(c, x)
<1>1. Exact(f, d, G \ {x}) /\ Live(f) = Live(h) /\ Unused(f) = Unused(h) /\ Same(h, f, SvIds)
  BY RefExact DEF Referred
<1>2. h \in Heap /\ f \in Heap /\ c \in Counts /\ v \in SvIds
  BY <1>1 DEF Exact, Live
<1>3. g = [f EXCEPT ![v].elems = Append(f[v].elems, x)]
  BY DEF VecPush
<1>4. \A y \in SvIds : d[y] = c[y] + (IF y = x THEN 1 ELSE 0)
  BY DEF Plus
<1> HIDE DEF f, d
<1>5. /\ g \in Heap
      /\ g[v].elems = Append(f[v].elems, x)
      /\ \A y \in SvIds : /\ g[y].key = f[y].key /\ g[y].at = f[y].at /\ g[y].refs = f[y].refs
                          /\ y # v => g[y] = f[y]
  <2>1. f[v] \in Sv /\ f[v].elems \in Seq(Vals)
    BY <1>2, SvParts
  <2>2. Append(f[v].elems, x) \in Seq(Vals)
    BY <2>1
  <2> DEFINE n == [f[v] EXCEPT !.elems = Append(f[v].elems, x)]
  <2>3. /\ n \in Sv /\ n.key = f[v].key /\ n.at = f[v].at /\ n.refs = f[v].refs
        /\ n.elems = Append(f[v].elems, x)
    BY <2>1, <2>2 DEF Sv
  <2>4. g = [f EXCEPT ![v] = n]
    BY <1>3
  <2> HIDE DEF n
  <2>5. \A y \in SvIds : g[y] = IF y = v THEN n ELSE f[y]
    BY <1>2, <2>4 DEF Heap
  <2>6. g \in Heap
    BY <1>2, <2>3, <2>4 DEF Heap
  <2> QED BY <1>2, <2>3, <2>5, <2>6
<1>6. Live(g) = Live(f) /\ Unused(g) = Unused(f)
  BY <1>5 DEF Live, Unused
<1>7. ASSUME NEW y \in SvIds
      PROVE  Users(g, y) = Users(f, y) + (IF y = x THEN 1 ELSE 0)
  <2>1. f[v].elems \in Seq(Vals)
    BY <1>2, SvParts
  <2>2. Users(g, y) = Users(f, y) - Places(y, f[v].elems) + Places(y, g[v].elems)
    <3>1. \A z \in SvIds \ {v} : g[z].elems = f[z].elems
      BY <1>5
    <3>2. g \in Heap
      BY <1>5
    <3> QED BY <1>2, <3>1, <3>2, VectorChanged
  <2>3. Places(y, g[v].elems) = Places(y, f[v].elems) + (IF y = x THEN 1 ELSE 0)
    BY <1>5, <2>1, PlacesAppend
  <2>4. Places(y, f[v].elems) \in Nat /\ Users(f, y) \in Nat
    BY <1>2, <2>1, PlacesNat, UsersNat
  <2>5. Places(y, g[v].elems) \in Nat
    BY <2>3, <2>4
  <2> QED BY <2>2, <2>3, <2>4, <2>5
<1>8. Exact(g, c, G \ {x})
  <2> SUFFICES ASSUME NEW y \in SvIds
               PROVE  /\ g[y].refs = c[y] + Users(g, y)
                      /\ g[y].key \in Nat \cup {Free}
                      /\ g[y].key = Free => g[y] = NoSv
                      /\ g[y].key # Free /\ g[y].refs = 0 => y \in G \ {x}
    BY <1>2, <1>5 DEF Exact
  <2>1. /\ f[y].refs = d[y] + Users(f, y) /\ f[y].key \in Nat \cup {Free}
        /\ (f[y].key = Free => f[y] = NoSv) /\ (f[y].key # Free /\ f[y].refs = 0 => y \in G \ {x})
    BY <1>1 DEF Exact
  <2>2. c[y] \in Nat /\ Users(f, y) \in Nat
    BY <1>2, UsersNat DEF Counts
  <2>3. g[y].refs = c[y] + Users(g, y)
    <3>1. /\ d[y] = c[y] + (IF y = x THEN 1 ELSE 0) /\ g[y].refs = f[y].refs
          /\ Users(g, y) = Users(f, y) + (IF y = x THEN 1 ELSE 0)
      BY <1>4, <1>5, <1>7
    <3> QED BY <2>1, <2>2, <3>1
  <2>4. g[y].key = Free => g[y] = NoSv
    <3>1. f[v].key # Free
      BY <1>1 DEF Live
    <3> QED BY <1>5, <2>1, <3>1
  <2> QED BY <1>5, <2>1, <2>3, <2>4
<1>9. Same(h, g, SvIds \ {v}) /\ g[v].key = h[v].key /\ g[v].at = h[v].at
      /\ g[v].elems = Append(h[v].elems, x)
  BY <1>1, <1>2, <1>5 DEF Same
<1> QED BY <1>1, <1>6, <1>8, <1>9 DEF Pushed

\* ... with references to some values,
AllReferred(h, c, G, xs, g) ==
    /\ Exact(g, PlusAll(c, xs), G)
    /\ Live(g) = Live(h) /\ Unused(g) = Unused(h)
    /\ Same(h, g, SvIds)

\* A reference for each of some values.
LEMMA RefsExact ==
    ASSUME NEW h, NEW c, NEW G, Exact(h, c, G), NEW xs \in Seq(Vals),
           \A k \in 1 .. Len(xs) : IsLive(h, xs[k]), NEW g, g = Refs(h, xs)
    PROVE  AllReferred(h, c, G, xs, g)
<1> DEFINE d == PlusAll(c, xs)
<1>1. h \in Heap /\ c \in Counts /\ d \in Counts
  BY PlusCounts DEF Exact
<1>2. \A y \in SvIds : d[y] = c[y] + Places(y, xs) /\ Places(y, xs) \in Nat
  BY PlacesNat DEF PlusAll
<1>3. /\ g \in Heap
      /\ \A y \in SvIds : /\ g[y].key = h[y].key /\ g[y].at = h[y].at /\ g[y].elems = h[y].elems
                          /\ g[y].refs = h[y].refs + Places(y, xs)
                          /\ Places(y, xs) = 0 => g[y] = h[y]
  <2> DEFINE r(y) == [h[y] EXCEPT !.refs = @ + Places(y, xs)]
  <2>1. g = [y \in SvIds |-> r(y)]
    BY DEF Refs
  <2>2. ASSUME NEW y \in SvIds
        PROVE  /\ r(y) \in Sv /\ r(y).key = h[y].key /\ r(y).at = h[y].at
               /\ r(y).elems = h[y].elems /\ r(y).refs = h[y].refs + Places(y, xs)
               /\ Places(y, xs) = 0 => r(y) = h[y]
    <3>1. h[y] \in Sv /\ h[y].refs \in Nat /\ h[y].refs + Places(y, xs) \in Nat
      BY <1>1, <1>2, SvParts
    <3>2. Places(y, xs) = 0 => h[y].refs + Places(y, xs) = h[y].refs
      BY <3>1
    <3> QED BY <3>1, <3>2 DEF Sv
  <2> HIDE DEF r
  <2> QED BY <2>1, <2>2 DEF Heap
<1>4. Live(g) = Live(h) /\ Unused(g) = Unused(h) /\ Same(h, g, SvIds)
  BY <1>3 DEF Live, Unused, Same
<1> HIDE DEF d
<1>5. \A y : Users(g, y) = Users(h, y)
  BY <1>3, VectorsSame
<1>6. Exact(g, d, G)
  <2> SUFFICES ASSUME NEW y \in SvIds
               PROVE  /\ g[y].refs = d[y] + Users(g, y)
                      /\ g[y].key \in Nat \cup {Free}
                      /\ g[y].key = Free => g[y] = NoSv
                      /\ g[y].key # Free /\ g[y].refs = 0 => y \in G
    BY <1>1, <1>3 DEF Exact
  <2>1. /\ h[y].refs = c[y] + Users(h, y) /\ h[y].key \in Nat \cup {Free}
        /\ (h[y].key = Free => h[y] = NoSv) /\ (h[y].key # Free /\ h[y].refs = 0 => y \in G)
    BY DEF Exact
  <2>2. c[y] \in Nat /\ Users(h, y) \in Nat /\ Users(g, y) = Users(h, y)
    BY <1>1, <1>5, UsersNat DEF Counts
  <2>3. h[y].key = Free => Places(y, xs) = 0
    <3> SUFFICES ASSUME h[y].key = Free, NEW k \in 1 .. Len(xs), xs[k] = y PROVE FALSE
      BY PlacesNat
    <3>1. IsLive(h, y) /\ y # Null
      BY <1>1, SvParts
    <3> QED BY <3>1 DEF IsLive, Live
  <2>4. /\ g[y].key = h[y].key /\ g[y].refs = h[y].refs + Places(y, xs) /\ Places(y, xs) \in Nat
        /\ (Places(y, xs) = 0 => g[y] = h[y]) /\ d[y] = c[y] + Places(y, xs)
    BY <1>2, <1>3
  <2>5. g[y].refs = 0 => h[y].refs = 0
    BY <2>1, <2>2, <2>4
  <2>6. g[y].refs = d[y] + Users(g, y)
    BY <2>1, <2>2, <2>4
  <2> QED BY <2>1, <2>3, <2>4, <2>5, <2>6
<1> QED BY <1>4, <1>6 DEF d, AllReferred

\* ... with a vector of some values added,
Copied(h, c, G, v, xs, g) ==
    /\ Exact(g, c, G \cup {v})
    /\ Live(g) = Live(h) \cup {v} /\ Unused(g) = Unused(h) \ {v}
    /\ Same(h, g, Live(h))
    /\ g[v].key = Vec /\ g[v].at = 0 /\ g[v].elems = xs

\* A new vector with references to each of some values.
LEMMA CopyExact ==
    ASSUME NEW h, NEW c, NEW G, Exact(h, c, G), NEW v \in Unused(h), NEW xs \in Seq(Vals),
           \A k \in 1 .. Len(xs) : IsLive(h, xs[k]), NEW g, g = VecCopy(h, v, xs)
    PROVE  Copied(h, c, G, v, xs, g)
<1> DEFINE e == New(h, v, Vec, 0)
           f == Refs(e, xs)
           d == PlusAll(c, xs)
           F == G \cup {v}
<1>1. /\ Exact(e, c, F) /\ Live(e) = Live(h) \cup {v} /\ Unused(e) = Unused(h) \ {v}
      /\ Same(h, e, Live(h)) /\ e[v].key = Vec /\ e[v].at = 0 /\ e[v].elems = << >>
  <2>1. Vec \in Nat /\ 0 \in Int
    BY DEF Vec
  <2>2. e = New(h, v, Vec, 0)
    OBVIOUS
  <2> HIDE DEF e
  <2>3. Gained(h, c, G, v, Vec, 0, e)
    BY <2>1, <2>2, NewExact
  <2> QED BY <2>3 DEF Gained
<1>2. g = [f EXCEPT ![v].elems = xs]
  BY DEF VecCopy
<1> HIDE DEF e, F
<1>3. Exact(f, d, F) /\ Live(f) = Live(e) /\ Unused(f) = Unused(e) /\ Same(e, f, SvIds)
  <2>1. \A k \in 1 .. Len(xs) : IsLive(e, xs[k])
    BY <1>1 DEF IsLive
  <2>2. AllReferred(e, c, F, xs, f)
    BY <1>1, <2>1, RefsExact
  <2> QED BY <2>2 DEF AllReferred
<1>4. \A y \in SvIds : d[y] = c[y] + Places(y, xs) /\ Places(y, xs) \in Nat
  BY PlacesNat DEF PlusAll
<1> HIDE DEF f, d
<1>5. e \in Heap /\ f \in Heap /\ c \in Counts /\ v \in SvIds /\ v \notin Live(h)
  <2>1. v \in SvIds /\ v \notin Live(h)
    BY UnusedFree
  <2> QED BY <1>1, <1>3, <2>1 DEF Exact
<1>6. /\ g \in Heap
      /\ g[v].elems = xs
      /\ \A y \in SvIds : /\ g[y].key = f[y].key /\ g[y].at = f[y].at /\ g[y].refs = f[y].refs
                          /\ y # v => g[y] = f[y]
  <2> DEFINE n == [f[v] EXCEPT !.elems = xs]
  <2>1. f[v] \in Sv
    BY <1>5, SvParts
  <2>2. n \in Sv /\ n.elems = xs /\ n.key = f[v].key /\ n.at = f[v].at /\ n.refs = f[v].refs
    BY <2>1 DEF Sv
  <2>3. g = [f EXCEPT ![v] = n]
    BY <1>2
  <2> HIDE DEF n
  <2>4. g \in [SvIds -> Sv] /\ \A y \in SvIds : g[y] = IF y = v THEN n ELSE f[y]
    BY <1>5, <2>2, <2>3 DEF Heap
  <2> QED BY <1>5, <2>2, <2>4 DEF Heap
<1>7. Live(g) = Live(f) /\ Unused(g) = Unused(f)
  BY <1>6 DEF Live, Unused
<1>8. f[v].elems = << >> /\ f[v].key = Vec /\ f[v].at = 0
  BY <1>1, <1>3, <1>5 DEF Same
<1>9. ASSUME NEW y \in SvIds PROVE Users(g, y) = Users(f, y) + Places(y, xs)
  <2>1. Users(g, y) = Users(f, y) - Places(y, f[v].elems) + Places(y, g[v].elems)
    BY <1>5, <1>6, VectorChanged
  <2>2. Places(y, f[v].elems) = 0 /\ Users(f, y) \in Nat
    BY <1>5, <1>8, PlacesEmpty, UsersNat
  <2> QED BY <1>4, <1>6, <2>1, <2>2
<1>10. Exact(g, c, F)
  <2> SUFFICES ASSUME NEW y \in SvIds
               PROVE  /\ g[y].refs = c[y] + Users(g, y)
                      /\ g[y].key \in Nat \cup {Free}
                      /\ g[y].key = Free => g[y] = NoSv
                      /\ g[y].key # Free /\ g[y].refs = 0 => y \in F
    BY <1>5, <1>6 DEF Exact
  <2>1. /\ f[y].refs = d[y] + Users(f, y) /\ f[y].key \in Nat \cup {Free}
        /\ (f[y].key = Free => f[y] = NoSv) /\ (f[y].key # Free /\ f[y].refs = 0 => y \in F)
    BY <1>3 DEF Exact
  <2>2. c[y] \in Nat /\ Users(f, y) \in Nat
    BY <1>5, UsersNat DEF Counts
  <2>3. g[y].refs = c[y] + Users(g, y)
    BY <1>4, <1>6, <1>9, <2>1, <2>2
  <2>4. g[y].key = Free => g[y] = NoSv
    <3>1. f[v].key # Free
      BY <1>8 DEF Vec, Free
    <3> QED BY <1>6, <2>1, <3>1
  <2> QED BY <1>6, <2>1, <2>3, <2>4
<1>11. Same(h, g, Live(h)) /\ g[v].key = Vec /\ g[v].at = 0 /\ g[v].elems = xs
  <2>1. \A y \in Live(h) : y \in SvIds /\ y # v
    BY <1>5 DEF Live
  <2> QED BY <1>1, <1>3, <1>5, <1>6, <1>8, <2>1 DEF Same
<1> QED BY <1>1, <1>3, <1>7, <1>10, <1>11 DEF F, Copied

\* There are finitely many references in vectors.
LEMMA HeldNat ==
    ASSUME NEW h \in Heap
    PROVE  Cardinality(Held(h)) \in Nat
<1>1. CASE \E y : y \in SvIds
  BY <1>1, HeldParts
<1>2. CASE ~ \E y : y \in SvIds
  <2>1. Held(h) = {}
    BY <1>2 DEF Held
  <2> QED BY <2>1, FS_EmptySet
<1> QED BY <1>1, <1>2

-----------------------------------------------------------------------------
(* Giving up references                                                    *)

\* References that are given up one after the other.
Releasing == [heap : Heap, todo : Seq(Vals)]

\* The values and the references to give up remain that.
LEMMA ReleasedType ==
    ASSUME NEW st \in Releasing
    PROVE  Released(st) \in Releasing
<1> DEFINE h == st.heap
           x == Head(st.todo)
           rest == Tail(st.todo)
<1>1. h \in Heap /\ st.todo \in Seq(Vals)
  BY DEF Releasing
<1>2. CASE st.todo = << >>
  BY <1>2 DEF Released
<1>3. CASE st.todo # << >>
  <2>1. x \in Vals /\ rest \in Seq(Vals)
    BY <1>1, <1>3, HeadTailProperties
  <2>2. Released(st) = IF x = Null THEN [heap |-> h, todo |-> rest]
                       ELSE IF h[x].key < 0
                       THEN [heap |-> [h EXCEPT ![x].key = Twice], todo |-> rest]
                       ELSE IF h[x].refs > 1
                       THEN [heap |-> [h EXCEPT ![x].refs = @ - 1], todo |-> rest]
                       ELSE [heap |-> [h EXCEPT ![x] = NoSv], todo |-> h[x].elems \o rest]
    BY <1>3 DEF Released
  <2> HIDE DEF h, x, rest
  <2>3. CASE x = Null
    BY <1>1, <2>1, <2>2, <2>3 DEF Releasing
  <2>4. CASE x # Null
    <3>1. x \in SvIds
      BY <2>1, <2>4 DEF Vals
    <3>2. h[x] \in Sv /\ h[x].refs \in Nat /\ h[x].elems \in Seq(Vals)
      BY <1>1, <3>1, SvParts
    <3>3. [h EXCEPT ![x].key = Twice] \in Heap
      <4>1. [h[x] EXCEPT !.key = Twice] \in Sv
        BY <3>2 DEF Sv, Twice
      <4> QED BY <1>1, <3>1, <4>1 DEF Heap
    <3>4. h[x].refs > 1 => [h EXCEPT ![x].refs = @ - 1] \in Heap
      <4>1. h[x].refs > 1 => [h[x] EXCEPT !.refs = @ - 1] \in Sv
        BY <3>2 DEF Sv
      <4> QED BY <1>1, <3>1, <4>1 DEF Heap
    <3>5. [h EXCEPT ![x] = NoSv] \in Heap
      BY <1>1, <3>1, NoSvIs DEF Heap
    <3>6. h[x].elems \o rest \in Seq(Vals)
      BY <2>1, <3>2
    <3> HIDE DEF Releasing
    <3>7. \A hh \in Heap, tt \in Seq(Vals) : [heap |-> hh, todo |-> tt] \in Releasing
      BY DEF Releasing
    <3> QED BY <2>1, <2>2, <2>4, <3>3, <3>4, <3>5, <3>6, <3>7
  <2> QED BY <2>3, <2>4
<1> QED BY <1>2, <1>3

\* Each step gives up one reference of all that there are.
LEMMA ReleasedExact ==
    ASSUME NEW d \in Counts, NEW st \in Releasing, st.todo # << >>,
           Exact(st.heap, PlusAll(d, st.todo), {}), NEW s, s = Released(st)
    PROVE  /\ s \in Releasing /\ Exact(s.heap, PlusAll(d, s.todo), {})
           /\ Live(s.heap) \subseteq Live(st.heap) /\ Same(st.heap, s.heap, Live(s.heap))
           /\ Len(s.todo) + Cardinality(Held(s.heap))
              = Len(st.todo) + Cardinality(Held(st.heap)) - 1
<1> DEFINE h == st.heap
           xs == st.todo
           x == Head(xs)
           rest == Tail(xs)
           g == s.heap
           ys == s.todo
<1>1. h \in Heap /\ xs \in Seq(Vals) /\ s \in Releasing /\ g \in Heap /\ ys \in Seq(Vals)
  <2>1. s \in Releasing
    BY ReleasedType
  <2> QED BY <2>1 DEF Releasing
<1>2. x \in Vals /\ rest \in Seq(Vals) /\ Len(rest) = Len(xs) - 1 /\ Len(xs) \in Nat
  BY <1>1, HeadTailProperties
<1>3. \A y : Places(y, xs) = (IF y = x THEN 1 ELSE 0) + Places(y, rest)
  BY <1>1, PlacesTail
<1>4. PlusAll(d, xs) \in Counts /\ PlusAll(d, ys) \in Counts
  BY <1>1, PlusCounts
<1>5. \A y \in SvIds : /\ PlusAll(d, xs)[y] = d[y] + Places(y, xs)
                       /\ PlusAll(d, ys)[y] = d[y] + Places(y, ys)
                       /\ d[y] \in Nat /\ Places(y, xs) \in Nat /\ Places(y, ys) \in Nat
                       /\ Places(y, rest) \in Nat /\ Users(h, y) \in Nat
  BY <1>1, <1>2, PlacesNat, UsersNat DEF PlusAll, Counts
<1>6. Exact(h, PlusAll(d, xs), {})
  OBVIOUS
<1>7. Cardinality(Held(h)) \in Nat
  BY <1>1, HeldNat
<1>8. s = IF x = Null THEN [heap |-> h, todo |-> rest]
          ELSE IF h[x].key < 0 THEN [heap |-> [h EXCEPT ![x].key = Twice], todo |-> rest]
          ELSE IF h[x].refs > 1 THEN [heap |-> [h EXCEPT ![x].refs = @ - 1], todo |-> rest]
          ELSE [heap |-> [h EXCEPT ![x] = NoSv], todo |-> h[x].elems \o rest]
  BY DEF Released
<1>9. CASE x = Null
  <2>1. g = h /\ ys = rest
    BY <1>8, <1>9
  <2>2. \A y \in SvIds : PlusAll(d, ys)[y] = PlusAll(d, xs)[y]
    <3> TAKE y \in SvIds
    <3>1. y # x
      BY <1>1, <1>9, SvParts
    <3> QED BY <1>3, <1>5, <2>1, <3>1
  <2> HIDE DEF h, xs, g, ys
  <2>3. Exact(g, PlusAll(d, ys), {})
    BY <1>4, <1>6, <2>1, <2>2, ExactOther
  <2>4. Same(h, g, Live(g)) /\ Live(g) \subseteq Live(h)
    BY <2>1 DEF Same
  <2> QED BY <1>1, <1>2, <1>7, <2>1, <2>3, <2>4 DEF h, xs, g, ys
<1>10. CASE x # Null
  <2>1. x \in SvIds
    BY <1>2, <1>10 DEF Vals
  <2>2. /\ h[x] \in Sv /\ h[x].refs \in Nat /\ h[x].elems \in Seq(Vals) /\ h[x].key \in Int
    BY <1>1, <2>1, SvParts
  <2>3. h[x].refs = d[x] + 1 + Places(x, rest) + Users(h, x)
    <3>1. h[x].refs = PlusAll(d, xs)[x] + Users(h, x)
      BY <1>6, <2>1 DEF Exact
    <3> QED BY <1>3, <1>5, <2>1, <3>1, SMTT(30)
  <2>4. h[x].key # Free /\ h[x].key \in Nat
    <3>1. PlusAll(d, xs)[x] # 0
      BY <1>3, <1>5, <2>1
    <3>2. x \in Live(h)
      BY <1>6, <2>1, <3>1, CountedLive
    <3> QED BY <1>6, <2>1, <3>2 DEF Live, Exact
  <2>5. CASE h[x].refs > 1
    <3>1. g = [h EXCEPT ![x].refs = @ - 1] /\ ys = rest
      <4>1. ~(h[x].key < 0)
        BY <2>4
      <4> HIDE DEF h, x, rest, xs, g, ys
      <4>2. s = [heap |-> [h EXCEPT ![x].refs = @ - 1], todo |-> rest]
        BY <1>8, <1>10, <2>5, <4>1, Zenon
      <4>3. s.heap = [h EXCEPT ![x].refs = @ - 1] /\ s.todo = rest
        BY <4>2
      <4> QED BY <4>3 DEF g, ys
    <3> HIDE DEF h, xs, g, ys, x, rest
    <3>2. \A y \in SvIds : /\ g[y].key = h[y].key /\ g[y].at = h[y].at /\ g[y].elems = h[y].elems
                           /\ g[y].refs = h[y].refs - (IF y = x THEN 1 ELSE 0)
                           /\ y # x => g[y] = h[y]
      <4> DEFINE n == [h[x] EXCEPT !.refs = @ - 1]
      <4>1. /\ n.key = h[x].key /\ n.at = h[x].at /\ n.elems = h[x].elems
            /\ n.refs = h[x].refs - 1
        BY <2>2 DEF Sv
      <4>2. g = [h EXCEPT ![x] = n]
        BY <3>1
      <4> HIDE DEF n
      <4>3. \A y \in SvIds : g[y] = IF y = x THEN n ELSE h[y]
        BY <1>1, <2>1, <4>2 DEF Heap
      <4>4. \A y \in SvIds : h[y].refs \in Nat
        BY <1>1, SvParts
      <4> QED BY <4>1, <4>3, <4>4
    <3>3. Held(g) = Held(h) /\ \A y : Users(g, y) = Users(h, y)
      BY <3>2, VectorsSame
    <3>4. Exact(g, PlusAll(d, ys), {})
      <4> SUFFICES ASSUME NEW y \in SvIds
                   PROVE  /\ g[y].refs = PlusAll(d, ys)[y] + Users(g, y)
                          /\ g[y].key \in Nat \cup {Free}
                          /\ g[y].key = Free => g[y] = NoSv
                          /\ g[y].key # Free /\ g[y].refs = 0 => y \in {}
        BY <1>1, <1>4 DEF Exact
      <4>1. /\ h[y].refs = PlusAll(d, xs)[y] + Users(h, y) /\ h[y].key \in Nat \cup {Free}
            /\ (h[y].key = Free => h[y] = NoSv) /\ (h[y].key # Free => h[y].refs # 0)
        BY <1>6 DEF Exact
      <4>2. Users(g, y) = Users(h, y)
        BY <3>3
      <4>3. CASE y = x
        BY <1>3, <1>5, <2>3, <2>4, <2>5, <3>1, <3>2, <4>1, <4>2, <4>3, SMTT(30)
      <4>4. CASE y # x
        BY <1>3, <1>5, <3>1, <3>2, <4>1, <4>2, <4>4
      <4> QED BY <4>3, <4>4
    <3>5. Live(g) \subseteq Live(h) /\ Same(h, g, Live(g))
      BY <3>2 DEF Live, Same
    <3>6. Len(ys) + Cardinality(Held(g)) = Len(xs) + Cardinality(Held(h)) - 1
      BY <1>2, <1>7, <3>1, <3>3
    <3> QED BY <1>1, <3>4, <3>5, <3>6 DEF h, xs, g, ys
  <2>6. CASE ~(h[x].refs > 1)
    <3>1. g = [h EXCEPT ![x] = NoSv] /\ ys = h[x].elems \o rest
      <4>1. ~(h[x].key < 0)
        BY <2>4
      <4> HIDE DEF h, x, rest, xs, g, ys
      <4>2. s = [heap |-> [h EXCEPT ![x] = NoSv], todo |-> h[x].elems \o rest]
        BY <1>8, <1>10, <2>6, <4>1, Zenon
      <4>3. s.heap = [h EXCEPT ![x] = NoSv] /\ s.todo = h[x].elems \o rest
        BY <4>2
      <4> QED BY <4>3 DEF g, ys
    <3>2. d[x] = 0 /\ Places(x, rest) = 0 /\ Users(h, x) = 0
      <4>1. d[x] \in Nat /\ Places(x, rest) \in Nat /\ Users(h, x) \in Nat
        BY <1>5, <2>1
      <4> HIDE DEF h, xs, g, ys, x, rest
      <4>2. ~(d[x] + 1 + Places(x, rest) + Users(h, x) > 1)
        BY <2>3, <2>6
      <4> QED BY <4>1, <4>2
    <3> HIDE DEF h, xs, g, ys, x, rest
    <3>3. g[x] = NoSv /\ \A y \in SvIds : y # x => g[y] = h[y]
      BY <1>1, <2>1, <3>1 DEF Heap
    <3>4. /\ Cardinality(Held(g)) = Cardinality(Held(h)) - Len(h[x].elems) + Len(g[x].elems)
          /\ \A y : Users(g, y) = Users(h, y) - Places(y, h[x].elems) + Places(y, g[x].elems)
      <4>1. \A y \in SvIds \ {x} : g[y].elems = h[y].elems
        BY <3>3
      <4> QED BY <1>1, <2>1, <4>1, VectorChanged
    <3>5. Len(g[x].elems) = 0 /\ \A y : Places(y, g[x].elems) = 0
      BY <3>3, NoSvIs, PlacesEmpty
    <3>6. Places(x, h[x].elems) = 0
      <4>1. /\ Places(x, h[x].elems) \in Nat /\ Cardinality(UsersBut(h, x, x)) \in Nat
            /\ Users(h, x) = Cardinality(UsersBut(h, x, x)) + Places(x, h[x].elems)
        BY <1>1, <2>1, UsersParts
      <4> QED BY <3>2, <4>1
    <3>7. \A y : Places(y, ys) = Places(y, h[x].elems) + Places(y, rest)
      BY <1>2, <2>2, <3>1, PlacesConcat
    <3>8. Exact(g, PlusAll(d, ys), {})
      <4> SUFFICES ASSUME NEW y \in SvIds
                   PROVE  /\ g[y].refs = PlusAll(d, ys)[y] + Users(g, y)
                          /\ g[y].key \in Nat \cup {Free}
                          /\ g[y].key = Free => g[y] = NoSv
                          /\ g[y].key # Free /\ g[y].refs = 0 => y \in {}
        BY <1>1, <1>4 DEF Exact
      <4>1. /\ h[y].refs = PlusAll(d, xs)[y] + Users(h, y) /\ h[y].key \in Nat \cup {Free}
            /\ (h[y].key = Free => h[y] = NoSv) /\ (h[y].key # Free => h[y].refs # 0)
        BY <1>6 DEF Exact
      <4>2. Users(g, y) = Users(h, y) - Places(y, h[x].elems) /\ Places(y, h[x].elems) \in Nat
        <5>1. Places(y, h[x].elems) \in Nat
          BY <2>2, PlacesNat
        <5>2. Users(g, y) = Users(h, y) - Places(y, h[x].elems) + 0
          BY <3>4, <3>5
        <5> QED BY <1>5, <5>1, <5>2
      <4>3. CASE y = x
        <5>1. Users(g, y) = 0 /\ Places(y, ys) = 0 /\ d[y] = 0
          BY <3>2, <3>6, <3>7, <4>2, <4>3
        <5>2. g[y].refs = PlusAll(d, ys)[y] + Users(g, y)
          BY <1>5, <3>3, <4>3, <5>1, NoSvIs
        <5> QED BY <3>3, <4>3, <5>2, NoSvIs
      <4>4. CASE y # x
        <5>1. g[y] = h[y] /\ Places(y, xs) = Places(y, rest)
          BY <1>3, <1>5, <3>3, <4>4
        <5>2. g[y].refs = PlusAll(d, ys)[y] + Users(g, y)
          <6>1. /\ PlusAll(d, xs)[y] = d[y] + Places(y, xs)
                /\ PlusAll(d, ys)[y] = d[y] + Places(y, ys)
                /\ d[y] \in Nat /\ Places(y, rest) \in Nat /\ Users(h, y) \in Nat
            BY <1>5
          <6>2. Places(y, ys) = Places(y, h[x].elems) + Places(y, rest)
            BY <3>7
          <6> QED BY <4>1, <4>2, <5>1, <6>1, <6>2
        <5> QED BY <4>1, <5>1, <5>2
      <4> QED BY <4>3, <4>4
    <3>9. Live(g) \subseteq Live(h) /\ Same(h, g, Live(g))
      BY <3>3, NoSvIs DEF Live, Same
    <3>10. Len(ys) = Len(h[x].elems) + Len(rest) /\ Len(h[x].elems) \in Nat
      <4> DEFINE ps == h[x].elems
      <4>1. ps \in Seq(Vals) /\ ys = ps \o rest
        BY <2>2, <3>1
      <4> HIDE DEF ps
      <4>2. Len(ys) = Len(ps) + Len(rest) /\ Len(ps) \in Nat
        BY <1>2, <4>1, ConcatParts
      <4> QED BY <4>2 DEF ps
    <3>11. Len(ys) + Cardinality(Held(g)) = Len(xs) + Cardinality(Held(h)) - 1
      BY <1>2, <1>7, <3>4, <3>5, <3>10, SMTT(30)
    <3> QED BY <1>1, <3>8, <3>9, <3>11 DEF h, xs, g, ys
  <2> QED BY <2>5, <2>6
<1> QED BY <1>9, <1>10

\* Releases has the steps it is defined by.
LEMMA ReleasesFacts ==
    ASSUME NEW h \in Heap, NEW xs \in Seq(Vals), NEW n \in Nat,
           n = Len(xs) + Cardinality(Held(h))
    PROVE  /\ Releases(h, xs)[0] = [heap |-> h, todo |-> xs]
           /\ \A k \in 1 .. n : Releases(h, xs)[k] = Released(Releases(h, xs)[k-1])
<1> DEFINE first == [heap |-> h, todo |-> xs]
           Unfolds(f) == f = [k \in 0 .. n |-> IF k = 0 THEN first ELSE Released(f[k-1])]
           st == CHOOSE f : Unfolds(f)
<1>1. Releases(h, xs) = st
  BY DEF Releases
<1>2. first \in Releasing
  BY DEF Releasing
<1> HIDE DEF first
<1>3. \E f : Unfolds(f)
  <2> DEFINE step == [w \in (1 .. n) \X Releasing |-> Released(w[2])]
  <2>1. step \in [(1 .. n) \X Releasing -> Releasing]
    BY ReleasedType
  <2>2. \A k \in 1 .. n, x \in Releasing : step[<< k, x >>] = Released(x)
    OBVIOUS
  <2> HIDE DEF step
  <2>3. PICK f \in [0 .. n -> Releasing] : IsLoop(f, n, first, step)
    BY <1>2, <2>1, LoopExists
  <2>4. ASSUME NEW k \in 1 .. n PROVE f[k] = Released(f[k-1])
    <3>1. k - 1 \in 0 .. n
      OBVIOUS
    <3>2. f[k-1] \in Releasing
      BY <3>1
    <3> QED BY <2>2, <2>3, <3>2 DEF IsLoop
  <2>5. \A k \in 0 .. n : f[k] = IF k = 0 THEN first ELSE Released(f[k-1])
    <3> TAKE k \in 0 .. n
    <3>1. CASE k = 0
      BY <2>3, <3>1 DEF IsLoop
    <3>2. CASE k # 0
      <4>1. k \in 1 .. n
        BY <3>2
      <4> QED BY <2>4, <3>2, <4>1
    <3> QED BY <3>1, <3>2
  <2>6. f = [k \in 0 .. n |-> IF k = 0 THEN first ELSE Released(f[k-1])]
    BY <2>3, <2>5
  <2> QED BY <2>6
<1>4. Unfolds(st)
  BY <1>3
<1> HIDE DEF st
<1>5. \A k \in 0 .. n : st[k] = IF k = 0 THEN first ELSE Released(st[k-1])
  BY <1>4
<1>6. 0 \in 0 .. n /\ \A k \in 1 .. n : k \in 0 .. n /\ k # 0
  OBVIOUS
<1> QED BY <1>1, <1>5, <1>6 DEF first

\* ... with references given up.
Unreferred(h, d, g) ==
    /\ Exact(g, d, {})
    /\ Live(g) \subseteq Live(h) /\ Same(h, g, Live(g))
    /\ Unused(h) \subseteq Unused(g)

\* When references are given up that are counted, the others remain counted.
LEMMA UnrefsExact ==
    ASSUME NEW h, NEW c, NEW d \in Counts, NEW xs \in Seq(Vals), Exact(h, c, {}),
           \A x \in SvIds : c[x] = d[x] + Places(x, xs), NEW g, g = Unrefs(h, xs)
    PROVE  Unreferred(h, d, g)
<1> DEFINE n == Len(xs) + Cardinality(Held(h))
           st == Releases(h, xs)
           Good(z, i) == /\ z \in Releasing /\ Exact(z.heap, PlusAll(d, z.todo), {})
                         /\ Live(z.heap) \subseteq Live(h) /\ Same(h, z.heap, Live(z.heap))
                         /\ z.todo = << >> \/ Len(z.todo) + Cardinality(Held(z.heap)) <= n - i
           T == {i \in 0 .. n : Good(st[i], i)}
<1>1. h \in Heap /\ Cardinality(Held(h)) \in Nat /\ Len(xs) \in Nat /\ n \in Nat
  <2>1. h \in Heap
    BY DEF Exact
  <2>2. Cardinality(Held(h)) \in Nat
    BY <2>1, HeldNat
  <2> QED BY <2>1, <2>2
<1>2. st[0] = [heap |-> h, todo |-> xs] /\ \A k \in 1 .. n : st[k] = Released(st[k-1])
  BY <1>1, ReleasesFacts
<1>3. g = st[n].heap
  BY DEF Unrefs
<1>4. n = Len(xs) + Cardinality(Held(h))
  OBVIOUS
<1> HIDE DEF n, st
<1>5. Good(st[0], 0)
  <2>1. st[0].heap = h /\ st[0].todo = xs /\ st[0] \in Releasing
    BY <1>1, <1>2 DEF Releasing
  <2>2. PlusAll(d, xs) \in Counts /\ \A x \in SvIds : PlusAll(d, xs)[x] = c[x]
    BY PlusCounts DEF PlusAll
  <2>3. Exact(h, PlusAll(d, xs), {})
    BY <2>2, ExactOther
  <2> QED BY <1>1, <1>4, <2>1, <2>3 DEF Same
<1>6. ASSUME NEW k \in 0 .. n - 1, Good(st[k], k) PROVE Good(st[k + 1], k + 1)
  <2>1. k + 1 \in 1 .. n /\ (k + 1) - 1 = k
    BY <1>1
  <2>2. st[k + 1] = Released(st[k])
    BY <1>2, <2>1
  <2>3. CASE st[k].todo = << >>
    <3>1. st[k + 1] = st[k]
      BY <2>2, <2>3 DEF Released
    <3> QED BY <1>6, <2>3, <3>1
  <2>4. CASE st[k].todo # << >>
    <3>0. PICK s, u : s = st[k] /\ u = st[k + 1]
      OBVIOUS
    <3>1. s \in Releasing /\ Exact(s.heap, PlusAll(d, s.todo), {}) /\ s.todo # << >>
      BY <1>6, <2>4, <3>0
    <3>2. /\ Live(s.heap) \subseteq Live(h) /\ Same(h, s.heap, Live(s.heap))
          /\ Len(s.todo) + Cardinality(Held(s.heap)) <= n - k
      BY <1>6, <2>4, <3>0
    <3>3. u = Released(s)
      BY <2>2, <3>0
    <3>4. /\ u \in Releasing /\ Exact(u.heap, PlusAll(d, u.todo), {})
          /\ Live(u.heap) \subseteq Live(s.heap) /\ Same(s.heap, u.heap, Live(u.heap))
          /\ Len(u.todo) + Cardinality(Held(u.heap))
             = Len(s.todo) + Cardinality(Held(s.heap)) - 1
      BY <3>1, <3>3, ReleasedExact
    <3>5. Live(u.heap) \subseteq Live(h) /\ Same(h, u.heap, Live(u.heap))
      BY <3>2, <3>4 DEF Same
    <3>6. /\ Len(s.todo) \in Nat /\ Cardinality(Held(s.heap)) \in Nat
          /\ Len(u.todo) \in Nat /\ Cardinality(Held(u.heap)) \in Nat
      <4>1. s.heap \in Heap /\ s.todo \in Seq(Vals) /\ u.heap \in Heap /\ u.todo \in Seq(Vals)
        BY <3>1, <3>4 DEF Releasing
      <4>2. Cardinality(Held(s.heap)) \in Nat /\ Cardinality(Held(u.heap)) \in Nat
        BY <4>1, HeldNat
      <4> QED BY <4>1, <4>2
    <3>7. Len(u.todo) + Cardinality(Held(u.heap)) <= n - (k + 1)
      BY <1>1, <3>2, <3>4, <3>6, SMTT(30)
    <3>8. Good(u, k + 1)
      BY <3>4, <3>5, <3>7
    <3> QED BY <3>0, <3>8
  <2> QED BY <2>3, <2>4
<1>7. n \in T
  <2> HIDE DEF Good
  <2>1. 0 \in T
    BY <1>1, <1>5
  <2>2. \A k \in 0 .. n - 1 : k \in T => k + 1 \in T
    BY <1>1, <1>6
  <2> HIDE DEF T
  <2>3. \A k \in 0 .. n : k \in T
    BY <1>1, <2>1, <2>2, BoundedInduction
  <2> QED BY <1>1, <2>3
<1>8. Good(st[n], n)
  BY <1>7
<1>9. st[n].todo = << >>
  <2>1. st[n].heap \in Heap /\ st[n].todo \in Seq(Vals)
    BY <1>8 DEF Releasing
  <2>2. Cardinality(Held(st[n].heap)) \in Nat
    BY <2>1, HeldNat
  <2>3. Len(st[n].todo) \in Nat /\ (Len(st[n].todo) = 0 => st[n].todo = << >>)
    BY <2>1, EmptySeq
  <2> QED BY <1>1, <1>8, <2>2, <2>3
<1>10. Exact(g, d, {})
  <2>1. Exact(g, PlusAll(d, << >>), {})
    BY <1>3, <1>8, <1>9
  <2>2. \A x \in SvIds : d[x] = PlusAll(d, << >>)[x]
    BY PlacesEmpty DEF PlusAll, Counts
  <2> QED BY <2>1, <2>2, ExactOther
<1>11. Unused(h) \subseteq Unused(g)
  BY <1>3, <1>8 DEF Live, Unused
<1> QED BY <1>3, <1>8, <1>10, <1>11 DEF Unreferred

-----------------------------------------------------------------------------
(* The pieces of a vector                                                  *)

\* Heap g has a vector v with the first k of the pieces that are wanted, and else only
\* new values since heap h.
Pieces(h, c, G, v, want, g, k) ==
    /\ Exact(g, c, G) /\ v \in Live(g)
    /\ g[v].key = Vec /\ g[v].at = 0 /\ Len(g[v].elems) = k
    /\ \A j \in 1 .. k : LET x == g[v].elems[j]
                         IN  /\ x \in SvIds \ {v} /\ g[x].key = want[j].key
                             /\ g[x].at = want[j].at /\ g[x].elems = want[j].elems
    /\ Live(h) \subseteq Live(g) /\ Same(h, g, Live(h) \ {v})
    /\ Cardinality(Unused(g)) + k >= Cardinality(Unused(h))
    /\ \A x \in Live(g) \ Live(h) : x = v \/ \E j \in 1 .. k : x = g[v].elems[j]

\* When one of them is taken, there is one less.
LEMMA OneLess ==
    ASSUME NEW g, NEW x \in Unused(g)
    PROVE  Cardinality(Unused(g) \ {x}) = Cardinality(Unused(g)) - 1
BY UnusedFinite, FS_RemoveElement

\* A piece that is there already once more.
LEMMA PieceAgain ==
    ASSUME NEW h, NEW c, NEW G, NEW v, NEW want, NEW g, NEW k \in Nat,
           Pieces(h, c, G, v, want, g, k), NEW j \in 1 .. k, want[j] = want[k + 1],
           NEW f, f = VecPush(g, v, g[v].elems[j])
    PROVE  Pieces(h, c, G, v, want, f, k + 1)
<1> DEFINE x == g[v].elems[j]
<1>1. Exact(g, c, G) /\ v \in Live(g) /\ v \in SvIds /\ g \in Heap
  BY DEF Pieces, Live, Exact
<1>2. g[v].elems \in Seq(Vals) /\ Len(g[v].elems) = k
  BY <1>1, SvParts DEF Pieces
<1>3. x \in SvIds \ {v} /\ x \in Vals /\ IsLive(g, x)
  <2>1. x \in SvIds \ {v}
    BY DEF Pieces
  <2>2. x \in Vals /\ IsLive(g, x)
    BY <1>1, <1>2, ElementsLive
  <2> QED BY <2>1, <2>2
<1> HIDE DEF x
<1>4. f = VecPush(g, v, x)
  BY DEF x
<1>5. /\ Exact(f, c, G \ {x}) /\ Live(f) = Live(g) /\ Unused(f) = Unused(g)
      /\ Same(g, f, SvIds \ {v})
      /\ f[v].key = g[v].key /\ f[v].at = g[v].at /\ f[v].elems = Append(g[v].elems, x)
  <2>1. v \in Live(g) /\ x \in Vals
    BY <1>1, <1>3
  <2>2. Pushed(g, c, G, v, x, f)
    BY <1>1, <1>3, <1>4, <2>1, PushExact
  <2> QED BY <2>2 DEF Pushed
<1>6. Exact(f, c, G)
  <2>1. c \in Counts
    BY <1>1 DEF Exact
  <2> QED BY <1>5, <2>1, ExactOther
<1>7. /\ Len(f[v].elems) = k + 1 /\ f[v].elems[k + 1] = x
      /\ \A i \in 1 .. k : f[v].elems[i] = g[v].elems[i]
  <2> DEFINE e == g[v].elems
  <2>1. e \in Seq(Vals) /\ Len(e) = k /\ f[v].elems = Append(e, x)
    BY <1>2, <1>5
  <2> HIDE DEF e
  <2>2. Len(Append(e, x)) = k + 1 /\ Append(e, x)[k + 1] = x
        /\ \A i \in 1 .. k : Append(e, x)[i] = e[i]
    BY <1>3, <2>1, SMTT(30)
  <2> QED BY <2>1, <2>2 DEF e
<1>8. ASSUME NEW i \in 1 .. k + 1
      PROVE  LET y == f[v].elems[i]
             IN  /\ y \in SvIds \ {v} /\ f[y].key = want[i].key
                 /\ f[y].at = want[i].at /\ f[y].elems = want[i].elems
  <2>1. \E l \in 1 .. k : f[v].elems[i] = g[v].elems[l] /\ want[l] = want[i]
    <3>1. CASE i = k + 1
      BY <1>7, <3>1 DEF x
    <3>2. CASE i # k + 1
      <4>1. i \in 1 .. k
        BY <3>2
      <4> QED BY <1>7, <4>1
    <3> QED BY <3>1, <3>2
  <2>2. PICK l \in 1 .. k : f[v].elems[i] = g[v].elems[l] /\ want[l] = want[i]
    BY <2>1
  <2> DEFINE y == g[v].elems[l]
  <2>3. /\ y \in SvIds \ {v} /\ g[y].key = want[l].key
        /\ g[y].at = want[l].at /\ g[y].elems = want[l].elems
    BY DEF Pieces
  <2>4. f[v].elems[i] = y
    BY <2>2
  <2> HIDE DEF y
  <2>5. f[y].key = g[y].key /\ f[y].at = g[y].at /\ f[y].elems = g[y].elems
    BY <1>5, <2>3 DEF Same
  <2> QED BY <2>2, <2>3, <2>4, <2>5
<1>9. Live(h) \subseteq Live(f) /\ Same(h, f, Live(h) \ {v})
  <2>1. Live(h) \subseteq Live(g) /\ Same(h, g, Live(h) \ {v}) /\ Live(h) \subseteq SvIds
    BY DEF Pieces, Live
  <2> QED BY <1>5, <2>1 DEF Same
<1>10. Cardinality(Unused(f)) + (k + 1) >= Cardinality(Unused(h))
  <2>1. Cardinality(Unused(g)) + k >= Cardinality(Unused(h))
    BY DEF Pieces
  <2>2. Cardinality(Unused(g)) \in Nat /\ Cardinality(Unused(h)) \in Nat
    BY UnusedFinite
  <2> QED BY <1>5, <2>1, <2>2
<1>11. v \in Live(f) /\ f[v].key = Vec /\ f[v].at = 0
  BY <1>1, <1>5 DEF Pieces
<1>12. \A y \in Live(f) \ Live(h) : y = v \/ \E l \in 1 .. k + 1 : y = f[v].elems[l]
  <2> TAKE y \in Live(f) \ Live(h)
  <2>1. y = v \/ \E l \in 1 .. k : y = g[v].elems[l]
    BY <1>5 DEF Pieces
  <2>2. ASSUME NEW l \in 1 .. k, y = g[v].elems[l] PROVE \E m \in 1 .. k + 1 : y = f[v].elems[m]
    <3>1. l \in 1 .. k + 1
      OBVIOUS
    <3> QED BY <1>7, <2>2, <3>1
  <2> QED BY <2>1, <2>2
<1> QED BY <1>6, <1>7, <1>8, <1>9, <1>10, <1>11, <1>12 DEF Pieces

\* A new piece.
LEMMA PieceNew ==
    ASSUME NEW h, NEW c, NEW G, NEW v, NEW want, NEW g, NEW k \in Nat,
           Pieces(h, c, G, v, want, g, k), G \subseteq {v},
           NEW x \in Unused(g), NEW e, Exact(e, c, G \cup {x}),
           Live(e) = Live(g) \cup {x}, Unused(e) = Unused(g) \ {x}, Same(g, e, Live(g)),
           e[x].key = want[k + 1].key, e[x].at = want[k + 1].at, e[x].elems = want[k + 1].elems,
           NEW f, f = VecPush(e, v, x)
    PROVE  Pieces(h, c, G, v, want, f, k + 1)
<1>1. Exact(g, c, G) /\ v \in Live(g) /\ v \in SvIds /\ g \in Heap /\ e \in Heap /\ c \in Counts
  BY DEF Pieces, Live, Exact
<1>2. /\ x \in SvIds /\ x \notin Live(g) /\ x # v /\ x \in Vals /\ IsLive(e, x) /\ v \in Live(e)
  <2>1. x \in SvIds /\ x \notin Live(g)
    BY <1>1, UnusedFree
  <2> QED BY <1>1, <2>1 DEF IsLive, Vals
<1>3. /\ e[v].key = g[v].key /\ e[v].at = g[v].at /\ e[v].elems = g[v].elems
  BY <1>1 DEF Same
<1>4. /\ Exact(f, c, (G \cup {x}) \ {x}) /\ Live(f) = Live(e) /\ Unused(f) = Unused(e)
      /\ Same(e, f, SvIds \ {v})
      /\ f[v].key = e[v].key /\ f[v].at = e[v].at /\ f[v].elems = Append(e[v].elems, x)
  <2> DEFINE F == G \cup {x}
  <2>1. Exact(e, c, F) /\ v \in Live(e) /\ x \in Vals /\ IsLive(e, x) /\ f = VecPush(e, v, x)
    BY <1>2
  <2> HIDE DEF F
  <2>2. Pushed(e, c, F, v, x, f)
    BY <2>1, PushExact
  <2> QED BY <2>2 DEF Pushed, F
<1>5. Exact(f, c, G)
  <2>1. (G \cup {x}) \ {x} \subseteq G
    OBVIOUS
  <2> QED BY <1>1, <1>4, <2>1, ExactOther
<1>6. g[v].elems \in Seq(Vals) /\ Len(g[v].elems) = k
  BY <1>1, SvParts DEF Pieces
<1>7. /\ Len(f[v].elems) = k + 1 /\ f[v].elems[k + 1] = x
      /\ \A i \in 1 .. k : f[v].elems[i] = g[v].elems[i]
  <2> DEFINE s == g[v].elems
  <2>1. s \in Seq(Vals) /\ Len(s) = k /\ f[v].elems = Append(s, x)
    BY <1>3, <1>4, <1>6
  <2> HIDE DEF s
  <2>2. Len(Append(s, x)) = k + 1 /\ Append(s, x)[k + 1] = x
        /\ \A i \in 1 .. k : Append(s, x)[i] = s[i]
    BY <1>2, <2>1
  <2> QED BY <2>1, <2>2 DEF s
<1>8. ASSUME NEW i \in 1 .. k + 1
      PROVE  LET y == f[v].elems[i]
             IN  /\ y \in SvIds \ {v} /\ f[y].key = want[i].key
                 /\ f[y].at = want[i].at /\ f[y].elems = want[i].elems
  <2>1. \A y \in SvIds \ {v} : f[y].key = e[y].key /\ f[y].at = e[y].at /\ f[y].elems = e[y].elems
    BY <1>4 DEF Same
  <2>2. CASE i = k + 1
    BY <1>2, <1>7, <2>1, <2>2
  <2>3. CASE i # k + 1
    <3>1. i \in 1 .. k
      BY <2>3
    <3> DEFINE y == g[v].elems[i]
    <3>2. /\ y \in SvIds \ {v} /\ g[y].key = want[i].key
          /\ g[y].at = want[i].at /\ g[y].elems = want[i].elems
      BY <3>1 DEF Pieces
    <3>3. y \in Live(g)
      <4>1. IsLive(g, y)
        BY <1>1, <1>6, <3>1, ElementsLive
      <4>2. y # Null
        BY <1>1, <3>2, SvParts
      <4> QED BY <4>1, <4>2 DEF IsLive
    <3>4. e[y].key = g[y].key /\ e[y].at = g[y].at /\ e[y].elems = g[y].elems
      BY <3>3 DEF Same
    <3> QED BY <1>7, <2>1, <3>1, <3>2, <3>4
  <2> QED BY <2>2, <2>3
<1>9. Live(h) \subseteq Live(f) /\ Same(h, f, Live(h) \ {v})
  <2>1. Live(h) \subseteq Live(g) /\ Same(h, g, Live(h) \ {v}) /\ Live(h) \subseteq SvIds
    BY DEF Pieces, Live
  <2> QED BY <1>4, <2>1 DEF Same
<1>10. Cardinality(Unused(f)) + (k + 1) >= Cardinality(Unused(h))
  <2>1. Cardinality(Unused(g)) + k >= Cardinality(Unused(h))
    BY DEF Pieces
  <2>2. Cardinality(Unused(g)) \in Nat /\ Cardinality(Unused(h)) \in Nat
    BY UnusedFinite
  <2>3. Cardinality(Unused(f)) = Cardinality(Unused(g)) - 1
    BY <1>4, OneLess
  <2> QED BY <2>1, <2>2, <2>3
<1>11. v \in Live(f) /\ f[v].key = Vec /\ f[v].at = 0
  BY <1>2, <1>3, <1>4 DEF Pieces
<1>12. \A y \in Live(f) \ Live(h) : y = v \/ \E l \in 1 .. k + 1 : y = f[v].elems[l]
  <2> TAKE y \in Live(f) \ Live(h)
  <2>1. y = x \/ y \in Live(g) \ Live(h)
    BY <1>4
  <2>2. CASE y = x
    <3>1. k + 1 \in 1 .. k + 1
      OBVIOUS
    <3> QED BY <1>7, <2>2, <3>1
  <2>3. CASE y \in Live(g) \ Live(h)
    <3>1. y = v \/ \E l \in 1 .. k : y = g[v].elems[l]
      BY <2>3 DEF Pieces
    <3>2. ASSUME NEW l \in 1 .. k, y = g[v].elems[l] PROVE \E m \in 1 .. k + 1 : y = f[v].elems[m]
      <4>1. l \in 1 .. k + 1
        OBVIOUS
      <4> QED BY <1>7, <3>2, <4>1
    <3> QED BY <3>1, <3>2
  <2> QED BY <2>1, <2>2, <2>3
<1> QED BY <1>5, <1>7, <1>8, <1>9, <1>10, <1>11, <1>12 DEF Pieces

-----------------------------------------------------------------------------
(* The value of a lexeme                                                   *)

\* What the pieces of the value of a lexeme have to say.
LexWanted(keys, terminal) ==
    [j \in 1 .. Len(keys) |-> [key |-> LexTree(keys[j], terminal).key,
                               at  |-> LexTree(keys[j], terminal).at, elems |-> << >>]]

\* What a piece of a lexeme says; its name is that of its rule.
LEMMA LexTreeIs ==
    ASSUME NEW key \in Keys, NEW terminal \in Int, Location \in Int
    PROVE  /\ LexTree(key, terminal).key = LexKey(key) /\ LexKey(key) \in Keys
           /\ LexKey(LexKey(key)) = LexKey(key)
           /\ LexTree(key, terminal).at \in Int /\ LexTree(key, terminal).args = << >>
           /\ LexTree(key, terminal).key \in Nat
           /\ LexTree(LexKey(key), terminal) = LexTree(key, terminal)
BY DEF LexTree, Tree, LexKey, Keys, START, VALUE, RULE_NAME, LHS_NAME

\* A key that was there before has a first place.
LEMMA EarlierFirst ==
    ASSUME NEW keys, NEW k \in Nat, Earlier(keys, k + 1) # {}
    PROVE  /\ Min(Earlier(keys, k + 1)) \in 1 .. k
           /\ keys[Min(Earlier(keys, k + 1))] = keys[k + 1]
<1>1. Earlier(keys, k + 1) \in SUBSET Nat
  BY DEF Earlier
<1>2. Min(Earlier(keys, k + 1)) \in Earlier(keys, k + 1)
  BY <1>1, MinIsIn
<1>3. (k + 1) - 1 = k
  OBVIOUS
<1> QED BY <1>2, <1>3 DEF Earlier

\* With one piece more, the vector of a lexeme is as it should be,
LEMMA LexPieceGood ==
    ASSUME NEW h, NEW c, NEW v, NEW g, NEW keys \in Seq(Keys), NEW terminal \in Int,
           Location \in Int, NEW k \in 0 .. Len(keys) - 1,
           Cardinality(Unused(h)) >= Len(keys),
           Pieces(h, c, {}, v, LexWanted(keys, terminal), g, k)
    PROVE  Pieces(h, c, {}, v, LexWanted(keys, terminal), LexPiece(g, v, keys, k + 1, terminal), k + 1)
<1> DEFINE want == LexWanted(keys, terminal)
           f == LexPiece(g, v, keys, k + 1, terminal)
<1>1. k \in Nat /\ k + 1 \in 1 .. Len(keys) /\ Len(keys) \in Nat /\ \A j \in 1 .. k : j \in 1 .. Len(keys)
  OBVIOUS
<1>2. CASE Earlier(keys, k + 1) # {}
  <2> DEFINE j == Min(Earlier(keys, k + 1))
  <2>1. j \in 1 .. k /\ keys[j] = keys[k + 1]
    BY <1>1, <1>2, EarlierFirst
  <2>2. f = VecPush(g, v, g[v].elems[j])
    BY <1>2 DEF LexPiece
  <2> HIDE DEF j
  <2>3. want[j] = want[k + 1]
    BY <1>1, <2>1 DEF LexWanted
  <2> HIDE DEF want, f
  <2>4. Pieces(h, c, {}, v, want, g, k)
    BY DEF want
  <2>5. Pieces(h, c, {}, v, want, f, k + 1)
    BY <1>1, <2>1, <2>2, <2>3, <2>4, PieceAgain
  <2> QED BY <2>5 DEF want, f
<1>3. CASE Earlier(keys, k + 1) = {}
  <2> DEFINE x == FreeSv(g)
             t == LexTree(keys[k + 1], terminal)
             e == New(g, x, t.key, t.at)
  <2>1. f = VecPush(e, v, x)
    BY <1>3 DEF LexPiece
  <2>2. x \in Unused(g)
    <3>1. Cardinality(Unused(g)) + k >= Cardinality(Unused(h))
      BY DEF Pieces
    <3>2. Cardinality(Unused(g)) \in Nat /\ Cardinality(Unused(h)) \in Nat
      BY UnusedFinite
    <3>3. Cardinality(Unused(g)) > 0
      BY <1>1, <3>1, <3>2
    <3> QED BY <3>3, FreeSvUnused
  <2>3. t.key \in Nat /\ t.at \in Int
    <3>1. keys[k + 1] \in Keys
      BY <1>1
    <3> QED BY <3>1, LexTreeIs
  <2>4. want[k + 1].key = t.key /\ want[k + 1].at = t.at /\ want[k + 1].elems = << >>
    BY <1>1 DEF LexWanted
  <2> HIDE DEF x, t, e, want, f
  <2>5. Pieces(h, c, {}, v, want, g, k)
    BY DEF want
  <2>6. Exact(g, c, {})
    BY <2>5 DEF Pieces
  <2>7. Gained(g, c, {}, x, t.key, t.at, e)
    BY <2>2, <2>3, <2>6, NewExact DEF e
  <2>8. /\ Exact(e, c, {} \cup {x}) /\ Live(e) = Live(g) \cup {x} /\ Unused(e) = Unused(g) \ {x}
        /\ Same(g, e, Live(g)) /\ e[x].key = want[k + 1].key /\ e[x].at = want[k + 1].at
        /\ e[x].elems = want[k + 1].elems
    BY <2>4, <2>7 DEF Gained
  <2>9. Pieces(h, c, {}, v, want, f, k + 1)
    BY <1>1, <2>1, <2>2, <2>5, <2>8, PieceNew
  <2> QED BY <2>9 DEF want, f
<1> QED BY <1>2, <1>3

\* The value of a lexeme has its pieces.
LEMMA LexPiecesGood ==
    ASSUME NEW h, NEW c, NEW v, NEW keys \in Seq(Keys), NEW terminal \in Int,
           Location \in Int,
           Cardinality(Unused(h)) >= Len(keys),
           Pieces(h, c, {}, v, LexWanted(keys, terminal), h, 0)
    PROVE  Pieces(h, c, {}, v, LexWanted(keys, terminal),
                  LexPieces(h, v, keys, terminal)[Len(keys)], Len(keys))
<1> DEFINE n == Len(keys)
           Good(z, i) == Pieces(h, c, {}, v, LexWanted(keys, terminal), z, i)
           piece(z, i) == LexPiece(z, v, keys, i, terminal)
           Makes(f) == f = [k \in 0 .. n |-> IF k = 0 THEN h ELSE piece(f[k-1], k)]
           all == CHOOSE f : Makes(f)
<1>1. n \in Nat
  OBVIOUS
<1>2. LexPieces(h, v, keys, terminal) = all
  BY DEF LexPieces
<1>3. \A i \in 0 .. n - 1 : \A z : Good(z, i) => Good(piece(z, i + 1), i + 1)
  BY LexPieceGood
<1>4. Good(h, 0)
  OBVIOUS
<1>5. \A z, i : Good(z, i) => z \in Heap
  BY DEF Pieces, Exact
<1> HIDE DEF n, Good, piece
<1>6. \E f : Makes(f)
  <2> DEFINE step == [w \in (1 .. n) \X Heap |->
                        IF piece(w[2], w[1]) \in Heap THEN piece(w[2], w[1]) ELSE w[2]]
  <2>1. step \in [(1 .. n) \X Heap -> Heap]
    OBVIOUS
  <2>2. \A k \in 1 .. n, z \in Heap : piece(z, k) \in Heap => step[<< k, z >>] = piece(z, k)
    OBVIOUS
  <2> HIDE DEF step
  <2>3. PICK f \in [0 .. n -> Heap] : IsLoop(f, n, h, step)
    BY <1>1, <1>4, <1>5, <2>1, LoopExists
  <2> DEFINE T == {k \in 0 .. n : Good(f[k], k)}
  <2>4. ASSUME NEW k \in 1 .. n, Good(f[k-1], k - 1)
        PROVE  f[k] = piece(f[k-1], k) /\ Good(f[k], k)
    <3>1. k - 1 \in 0 .. n - 1 /\ k - 1 + 1 = k /\ k - 1 \in 0 .. n
      BY <1>1
    <3>2. Good(piece(f[k-1], k), k)
      BY <1>3, <2>4, <3>1
    <3>3. piece(f[k-1], k) \in Heap /\ f[k-1] \in Heap
      BY <1>5, <3>1, <3>2
    <3>4. f[k] = piece(f[k-1], k)
      BY <2>2, <2>3, <3>3 DEF IsLoop
    <3> QED BY <3>2, <3>4
  <2>5. n \in T /\ \A k \in 0 .. n : k \in T
    <3>1. 0 \in T
      BY <1>1, <1>4, <2>3 DEF IsLoop
    <3>2. \A k \in 0 .. n - 1 : k \in T => k + 1 \in T
      <4> SUFFICES ASSUME NEW k \in 0 .. n - 1, Good(f[k], k) PROVE k + 1 \in T
        BY DEF T
      <4>1. k + 1 \in 1 .. n /\ (k + 1) - 1 = k /\ k + 1 \in 0 .. n
        BY <1>1
      <4> QED BY <2>4, <4>1
    <3> HIDE DEF T
    <3>3. \A k \in 0 .. n : k \in T
      BY <1>1, <3>1, <3>2, BoundedInduction
    <3> QED BY <1>1, <3>3
  <2>6. \A k \in 0 .. n : f[k] = IF k = 0 THEN h ELSE piece(f[k-1], k)
    <3> TAKE k \in 0 .. n
    <3>1. CASE k = 0
      BY <2>3, <3>1 DEF IsLoop
    <3>2. CASE k # 0
      <4>1. k \in 1 .. n /\ k - 1 \in 0 .. n
        BY <1>1, <3>2
      <4>2. Good(f[k-1], k - 1)
        BY <2>5, <4>1
      <4> QED BY <2>4, <3>2, <4>1, <4>2
    <3> QED BY <3>1, <3>2
  <2>7. f = [k \in 0 .. n |-> IF k = 0 THEN h ELSE piece(f[k-1], k)]
    BY <2>3, <2>6
  <2> QED BY <2>7
<1>7. Makes(all)
  BY <1>6
<1> HIDE DEF all
<1>8. \A k \in 0 .. n : all[k] = IF k = 0 THEN h ELSE piece(all[k-1], k)
  BY <1>7
<1> DEFINE T == {k \in 0 .. n : Good(all[k], k)}
<1>9. 0 \in T
  BY <1>1, <1>4, <1>8
<1>10. \A k \in 0 .. n - 1 : k \in T => k + 1 \in T
  <2> SUFFICES ASSUME NEW k \in 0 .. n - 1, Good(all[k], k) PROVE k + 1 \in T
    BY DEF T
  <2>1. k + 1 \in 0 .. n /\ (k + 1) - 1 = k /\ k + 1 # 0
    BY <1>1
  <2>2. all[k + 1] = piece(all[k], k + 1)
    BY <1>8, <2>1
  <2> QED BY <1>3, <2>1, <2>2
<1> HIDE DEF T
<1>11. \A k \in 0 .. n : k \in T
  BY <1>1, <1>9, <1>10, BoundedInduction
<1>12. Good(all[n], n)
  BY <1>1, <1>11 DEF T
<1> QED BY <1>2, <1>12 DEF n, Good

\* A value without elements that says something.
Leaf(g, x, tree) == g[x].key = tree.key /\ g[x].at = tree.at /\ g[x].elems = << >>

\* The value of a lexeme says what it should.
LexMade(g, x, terminal) ==
    IF Len(l0semantic) = 1 THEN Leaf(g, x, LexTree(l0semantic[1], terminal))
    ELSE /\ g[x].key = Vec /\ g[x].at = 0 /\ Len(g[x].elems) = Len(l0semantic)
         /\ \A j \in 1 .. Len(l0semantic) :
              /\ g[x].elems[j] \in SvIds \ {x}
              /\ Leaf(g, g[x].elems[j], LexTree(l0semantic[j], terminal))

\* It is new, with what it is made of, and has one reference; the others remain.
LexValue(h, c, terminal, made) ==
    /\ LexMade(made.heap, made.sv, terminal)
    /\ \A x \in Live(made.heap) \ Live(h) : \A i \in 1 .. Len(made.heap[x].elems) :
         LET y == made.heap[x].elems[i] IN y \in SvIds /\ made.heap[y].elems = << >>
    /\ made.sv \in SvIds /\ made.sv \in Live(made.heap)
    /\ Exact(made.heap, Plus(c, made.sv), {})
    /\ Same(h, made.heap, Live(h) \cap Live(made.heap))
    /\ Cardinality(Unused(made.heap)) + 1 + Len(l0semantic) >= Cardinality(Unused(h))

\* The keys with which get_sv works.
LEMMA LexKeys ==
    ASSUME l0semantic \in Seq(Keys)
    PROVE  LET keys == [k \in 1 .. Len(l0semantic) |-> LexKey(l0semantic[k])]
           IN  keys \in Seq(Keys) /\ Len(keys) = Len(l0semantic)
<1>1. \A k \in 1 .. Len(l0semantic) : LexKey(l0semantic[k]) \in Keys
  BY DEF LexKey, Keys, START, VALUE, RULE_NAME, LHS_NAME
<1>2. Len(l0semantic) \in Nat
  OBVIOUS
<1> DEFINE n == Len(l0semantic)
           keys == [k \in 1 .. n |-> LexKey(l0semantic[k])]
<1>3. keys \in [1 .. n -> Keys]
  BY <1>1
<1> HIDE DEF n, keys
<1>4. keys \in Seq(Keys) /\ Len(keys) = n
  BY <1>2, <1>3, IsSequence DEF n
<1> QED BY <1>4 DEF n, keys

\* get_sv of lexer.c gives a value that says what it should, with one reference.
LEMMA LexSvGood ==
    ASSUME NEW h, NEW c, Exact(h, c, {}), NEW terminal \in Int, Location \in Int,
           l0semantic \in Seq(Keys), Cardinality(Unused(h)) >= 1 + Len(l0semantic),
           NEW made, made = LexSv(h, terminal)
    PROVE  LexValue(h, c, terminal, made)
<1> DEFINE keys == [k \in 1 .. Len(l0semantic) |-> LexKey(l0semantic[k])]
           n == Len(keys)
           v == FreeSv(h)
           b == New(h, v, Vec, 0)
           d == Plus(c, v)
           a == Ref(b, v)
           want == LexWanted(keys, terminal)
           full == LexPieces(a, v, keys, terminal)[n]
           el == full[v].elems[1]
<1>1. keys \in Seq(Keys) /\ n = Len(l0semantic) /\ n \in Nat
  BY LexKeys
<1>2. made = IF n = 1 THEN [heap |-> Unrefs(Ref(full, el), << v >>), sv |-> el]
             ELSE [heap |-> full, sv |-> v]
  BY DEF LexSv
<1> HIDE DEF keys, n
<1>3. v \in Unused(h) /\ v \in SvIds /\ h[v] = NoSv /\ c[v] = 0 /\ Users(h, v) = 0 /\ v \notin Live(h)
  <2>1. v \in Unused(h)
    BY <1>1, UnusedFinite, FreeSvUnused
  <2> HIDE DEF v
  <2> QED BY <2>1, UnusedFree
<1>4. Gained(h, c, {}, v, Vec, 0, b)
  <2>1. Vec \in Nat /\ 0 \in Int
    BY DEF Vec
  <2> HIDE DEF v
  <2> QED BY <1>3, <2>1, NewExact
<1>5. /\ Exact(b, c, {v}) /\ Live(b) = Live(h) \cup {v} /\ Unused(b) = Unused(h) \ {v}
      /\ Same(h, b, Live(h)) /\ b[v].key = Vec /\ b[v].at = 0 /\ b[v].elems = << >>
  <2>1. {} \cup {v} = {v}
    OBVIOUS
  <2> QED BY <1>4, <2>1 DEF Gained
<1> HIDE DEF v, b
<1>6. Referred(b, c, {v}, v, a)
  <2>1. v \in Vals /\ IsLive(b, v)
    BY <1>3, <1>5 DEF Vals, IsLive
  <2> QED BY <1>5, <2>1, RefExact
<1>7. /\ Exact(a, d, {}) /\ Live(a) = Live(h) \cup {v} /\ Unused(a) = Unused(h) \ {v}
      /\ Same(b, a, SvIds)
  <2>1. {v} \ {v} = {}
    OBVIOUS
  <2> QED BY <1>5, <1>6, <2>1 DEF Referred
<1> HIDE DEF a, d
<1>8. Pieces(a, d, {}, v, want, a, 0)
  <2>1. a[v].key = Vec /\ a[v].at = 0 /\ a[v].elems = << >>
    BY <1>3, <1>5, <1>7 DEF Same
  <2>2. Cardinality(Unused(a)) + 0 >= Cardinality(Unused(a))
    BY UnusedFinite
  <2>3. 1 .. 0 = {} /\ Len(<< >>) = 0
    OBVIOUS
  <2> HIDE DEF want
  <2> QED BY <1>7, <2>1, <2>2, <2>3 DEF Pieces, Same
<1>9. Cardinality(Unused(a)) + 1 = Cardinality(Unused(h)) /\ Cardinality(Unused(a)) >= n
  <2>1. Cardinality(Unused(a)) = Cardinality(Unused(h)) - 1
    BY <1>3, <1>7, OneLess
  <2> QED BY <1>1, <2>1, UnusedFinite
<1>10. Pieces(a, d, {}, v, want, full, n)
  BY <1>1, <1>8, <1>9, LexPiecesGood DEF n
<1> HIDE DEF want, full
<1>11. /\ Exact(full, d, {}) /\ v \in Live(full) /\ Len(full[v].elems) = n
       /\ Live(a) \subseteq Live(full) /\ Same(a, full, Live(a) \ {v})
       /\ Cardinality(Unused(full)) + n >= Cardinality(Unused(a))
  BY <1>10 DEF Pieces
<1>12. Same(h, full, Live(h))
  <2>1. \A x \in Live(h) : x \in SvIds /\ x \in Live(a) \ {v} /\ x \in Live(b)
    BY <1>3, <1>5, <1>7 DEF Live
  <2> QED BY <1>5, <1>7, <1>11, <2>1 DEF Same
<1>13. Cardinality(Unused(full)) + 1 + n >= Cardinality(Unused(h))
  BY <1>1, <1>9, <1>11, UnusedFinite
<1>16. /\ full[v].key = Vec /\ full[v].at = 0 /\ Len(full[v].elems) = n
       /\ \A j \in 1 .. n : /\ full[v].elems[j] \in SvIds \ {v}
                           /\ Leaf(full, full[v].elems[j], LexTree(l0semantic[j], terminal))
  <2>1. ASSUME NEW j \in 1 .. n
        PROVE  /\ full[v].elems[j] \in SvIds \ {v}
               /\ Leaf(full, full[v].elems[j], LexTree(l0semantic[j], terminal))
    <3> DEFINE x == full[v].elems[j]
    <3>1. x \in SvIds \ {v} /\ full[x].key = want[j].key /\ full[x].at = want[j].at
          /\ full[x].elems = want[j].elems
      BY <1>10 DEF Pieces
    <3>2. keys[j] = LexKey(l0semantic[j]) /\ l0semantic[j] \in Keys
      BY <1>1 DEF keys
    <3>3. LexTree(keys[j], terminal) = LexTree(l0semantic[j], terminal)
      BY <3>2, LexTreeIs
    <3>4. want[j].key = LexTree(keys[j], terminal).key /\ want[j].at = LexTree(keys[j], terminal).at
          /\ want[j].elems = << >>
      BY DEF want, LexWanted, n
    <3> QED BY <3>1, <3>3, <3>4 DEF Leaf
  <2> QED BY <1>10, <2>1 DEF Pieces
<1>17. \A x \in Live(full) \ Live(h) : \A i \in 1 .. Len(full[x].elems) :
         full[x].elems[i] \in SvIds /\ full[full[x].elems[i]].elems = << >>
  <2> TAKE x \in Live(full) \ Live(h)
  <2> TAKE i \in 1 .. Len(full[x].elems)
  <2>1. x = v \/ \E j \in 1 .. n : x = full[v].elems[j]
    BY <1>7, <1>10 DEF Pieces
  <2>2. CASE x = v
    BY <1>16, <2>2 DEF Leaf
  <2>3. ASSUME NEW j \in 1 .. n, x = full[v].elems[j] PROVE FALSE
    <3>1. full[x].elems = << >>
      BY <1>16, <2>3 DEF Leaf
    <3> QED BY <3>1
  <2> QED BY <2>1, <2>2, <2>3
<1>14. CASE n # 1
  <2>4. LexMade(full, v, terminal)
    BY <1>1, <1>14, <1>16 DEF LexMade
  <2>1. made.heap = full /\ made.sv = v
    BY <1>2, <1>14
  <2>2. Exact(full, Plus(c, v), {})
    BY <1>11 DEF d
  <2>3. Same(h, full, Live(h) \cap Live(full))
    BY <1>12 DEF Same
  <2> QED BY <1>1, <1>3, <1>11, <1>13, <1>17, <2>1, <2>2, <2>3, <2>4 DEF LexValue
<1>15. CASE n = 1
  <2> DEFINE f == Ref(full, el)
             g == Unrefs(f, << v >>)
  <2>1. made.heap = g /\ made.sv = el
    BY <1>2, <1>15
  <2>2. el \in SvIds /\ el \in Vals /\ IsLive(full, el)
    <3>1. el \in SvIds
      BY <1>10, <1>15 DEF Pieces
    <3>2. v \in SvIds /\ 1 \in 1 .. Len(full[v].elems)
      BY <1>3, <1>11, <1>15
    <3> QED BY <1>11, <3>1, <3>2, ElementsLive
  <2> HIDE DEF el
  <2>3. Referred(full, d, {}, el, f)
    BY <1>11, <2>2, RefExact
  <2>4. Exact(f, Plus(d, el), {}) /\ Live(f) = Live(full) /\ Unused(f) = Unused(full) /\ Same(full, f, SvIds)
    <3>1. {} \ {el} = {}
      OBVIOUS
    <3> QED BY <2>3, <3>1 DEF Referred
  <2> HIDE DEF f
  <2>5. Unreferred(f, Plus(c, el), g)
    <3>1. Plus(c, el) \in Counts /\ c \in Counts
      BY PlusCounts DEF Exact
    <3>2. \A x \in SvIds : Plus(d, el)[x] = Plus(c, el)[x] + Places(x, << v >>)
      <4> SUFFICES ASSUME NEW x \in SvIds
                   PROVE  Plus(d, el)[x] = Plus(c, el)[x] + Places(x, << v >>)
        OBVIOUS
      <4>1. c[x] \in Nat
        BY <3>1 DEF Counts
      <4>2. Plus(c, el)[x] = c[x] + (IF x = el THEN 1 ELSE 0)
        BY DEF Plus
      <4>3. Plus(d, el)[x] = d[x] + (IF x = el THEN 1 ELSE 0)
        BY DEF Plus
      <4>4. d[x] = c[x] + (IF x = v THEN 1 ELSE 0)
        BY DEF d, Plus
      <4>5. Places(x, << v >>) = IF x = v THEN 1 ELSE 0
        BY PlacesOne
      <4> QED BY <4>1, <4>2, <4>3, <4>4, <4>5
    <3>3. << v >> \in Seq(Vals)
      BY <1>3 DEF Vals
    <3> QED BY <2>4, <3>1, <3>2, <3>3, UnrefsExact
  <2> HIDE DEF g
  <2>6. /\ Exact(g, Plus(c, el), {}) /\ Live(g) \subseteq Live(f) /\ Same(f, g, Live(g))
        /\ Unused(f) \subseteq Unused(g)
    BY <2>5 DEF Unreferred
  <2>7. el \in Live(g)
    <3>1. Plus(c, el)[el] # 0
      <4>1. c[el] \in Nat
        BY <2>2 DEF Exact, Counts
      <4> QED BY <2>2, <4>1 DEF Plus
    <3> QED BY <2>2, <2>6, <3>1, CountedLive
  <2>8. Same(h, g, Live(h) \cap Live(g))
    <3>1. \A x \in Live(h) : x \in SvIds
      BY DEF Live
    <3> QED BY <1>12, <2>4, <2>6, <3>1 DEF Same
  <2>9. Cardinality(Unused(g)) >= Cardinality(Unused(full))
    BY <2>4, <2>6, UnusedFinite, FS_Subset
  <2>10. Cardinality(Unused(g)) + 1 + n >= Cardinality(Unused(h))
    BY <1>1, <1>13, <2>9, UnusedFinite
  <2>11. /\ \A x \in Live(g) : /\ x \in SvIds /\ x \in Live(full) /\ g[x].key = full[x].key
                               /\ g[x].at = full[x].at /\ g[x].elems = full[x].elems
         /\ \A x \in Live(g) : \A i \in 1 .. Len(g[x].elems) : g[x].elems[i] \in SvIds => g[x].elems[i] \in Live(g)
    <3>1. \A x \in Live(g) : x \in SvIds /\ x \in Live(full)
      BY <2>4, <2>6 DEF Live
    <3>2. \A x \in SvIds : x # Null
      BY SvIdsAssumption DEF Null
    <3>3. \A x \in Live(g) : \A i \in 1 .. Len(g[x].elems) : IsLive(g, g[x].elems[i])
      BY <2>6, <3>1, ElementsLive
    <3> QED BY <2>4, <2>6, <3>1, <3>2, <3>3 DEF Same, IsLive
  <2>12. LexMade(g, el, terminal)
    <3>1. full[v].elems[1] = el /\ 1 \in 1 .. n
      BY <1>15 DEF el
    <3>2. Leaf(full, el, LexTree(l0semantic[1], terminal))
      BY <1>16, <3>1
    <3>3. Leaf(g, el, LexTree(l0semantic[1], terminal))
      BY <2>7, <2>11, <3>2 DEF Leaf
    <3> QED BY <1>1, <1>15, <3>3 DEF LexMade
  <2>13. \A x \in Live(g) \ Live(h) : \A i \in 1 .. Len(g[x].elems) :
           g[x].elems[i] \in SvIds /\ g[g[x].elems[i]].elems = << >>
    <3> TAKE x \in Live(g) \ Live(h)
    <3> TAKE i \in 1 .. Len(g[x].elems)
    <3> DEFINE y == g[x].elems[i]
    <3>1. g[x].elems = full[x].elems /\ x \in Live(full) \ Live(h)
      BY <2>11
    <3>2. y = full[x].elems[i] /\ i \in 1 .. Len(full[x].elems)
      BY <3>1
    <3>3. y \in SvIds /\ full[y].elems = << >>
      BY <1>17, <3>1, <3>2
    <3>4. y \in Live(g)
      BY <2>11, <3>3
    <3> QED BY <2>11, <3>3, <3>4
  <2> QED BY <1>1, <2>1, <2>2, <2>6, <2>7, <2>8, <2>10, <2>12, <2>13 DEF LexValue
<1> QED BY <1>14, <1>15

-----------------------------------------------------------------------------
(* The value of a rule                                                     *)

\* What the pieces of the value of a rule have to say.
RuleWanted(keys, rhs, rid) ==
    [j \in 1 .. Len(keys) |->
       IF keys[j] = VALUE THEN [key |-> Vec, at |-> 0, elems |-> rhs]
       ELSE [key |-> keys[j], at |-> RuleAt(keys[j], rid), elems |-> << >>]]

\* With one piece more, the vector of a rule is as it should be,
LEMMA RulePieceGood ==
    ASSUME NEW h, NEW c, NEW v, NEW g, NEW keys \in Seq(Keys), NEW rhs \in Seq(Vals),
           NEW rid \in Int, rules[rid + 1].lhs \in Int,
           \A i \in 1 .. Len(rhs) : IsLive(h, rhs[i]),
           NEW k \in 0 .. Len(keys) - 1,
           Cardinality(Unused(h)) >= Len(keys),
           Pieces(h, c, {v}, v, RuleWanted(keys, rhs, rid), g, k)
    PROVE  Pieces(h, c, {v}, v, RuleWanted(keys, rhs, rid),
                  RulePiece(g, v, keys, k + 1, rhs, rid), k + 1)
<1> DEFINE want == RuleWanted(keys, rhs, rid)
           f == RulePiece(g, v, keys, k + 1, rhs, rid)
<1>1. /\ k \in Nat /\ k + 1 \in 1 .. Len(keys) /\ Len(keys) \in Nat
      /\ \A j \in 1 .. k : j \in 1 .. Len(keys)
  OBVIOUS
<1>2. CASE Earlier(keys, k + 1) # {}
  <2> DEFINE j == Min(Earlier(keys, k + 1))
  <2>1. j \in 1 .. k /\ keys[j] = keys[k + 1]
    BY <1>1, <1>2, EarlierFirst
  <2>2. f = VecPush(g, v, g[v].elems[j])
    BY <1>2 DEF RulePiece
  <2> HIDE DEF j
  <2>3. want[j] = want[k + 1]
    BY <1>1, <2>1 DEF RuleWanted
  <2> HIDE DEF want, f
  <2>4. Pieces(h, c, {v}, v, want, g, k)
    BY DEF want
  <2>5. Pieces(h, c, {v}, v, want, f, k + 1)
    BY <1>1, <2>1, <2>2, <2>3, <2>4, PieceAgain
  <2> QED BY <2>5 DEF want, f
<1>3. CASE Earlier(keys, k + 1) = {}
  <2> DEFINE x == FreeSv(g)
             key == keys[k + 1]
             at == RuleAt(key, rid)
             e == IF key = VALUE THEN VecCopy(g, x, rhs) ELSE New(g, x, key, at)
  <2>1. f = VecPush(e, v, x)
    BY <1>3 DEF RulePiece
  <2>2. x \in Unused(g)
    <3>1. Cardinality(Unused(g)) + k >= Cardinality(Unused(h))
      BY DEF Pieces
    <3>2. Cardinality(Unused(g)) \in Nat /\ Cardinality(Unused(h)) \in Nat
      BY UnusedFinite
    <3>3. Cardinality(Unused(g)) > 0
      BY <1>1, <3>1, <3>2
    <3> QED BY <3>3, FreeSvUnused
  <2>3. key \in Nat /\ at \in Int
    <3>1. key \in Keys
      BY <1>1
    <3> QED BY <3>1 DEF RuleAt, Keys, START, VALUE
  <2>4. want[k + 1] = IF key = VALUE THEN [key |-> Vec, at |-> 0, elems |-> rhs]
                      ELSE [key |-> key, at |-> at, elems |-> << >>]
    BY <1>1 DEF RuleWanted
  <2> HIDE DEF x, key, at, want, f
  <2>5. Pieces(h, c, {v}, v, want, g, k)
    BY DEF want
  <2>6. Exact(g, c, {v}) /\ Live(h) \subseteq Live(g)
    BY <2>5 DEF Pieces
  <2>7. /\ Exact(e, c, {v} \cup {x}) /\ Live(e) = Live(g) \cup {x} /\ Unused(e) = Unused(g) \ {x}
        /\ Same(g, e, Live(g)) /\ e[x].key = want[k + 1].key /\ e[x].at = want[k + 1].at
        /\ e[x].elems = want[k + 1].elems
    <3>1. CASE key = VALUE
      <4>1. \A i \in 1 .. Len(rhs) : IsLive(g, rhs[i])
        BY <2>6 DEF IsLive
      <4>2. e = VecCopy(g, x, rhs)
        BY <3>1
      <4> HIDE DEF e
      <4>3. Copied(g, c, {v}, x, rhs, e)
        BY <2>2, <2>6, <4>1, <4>2, CopyExact
      <4>4. want[k + 1].key = Vec /\ want[k + 1].at = 0 /\ want[k + 1].elems = rhs
        BY <2>4, <3>1
      <4> QED BY <4>3, <4>4 DEF Copied
    <3>2. CASE key # VALUE
      <4>1. e = New(g, x, key, at)
        BY <3>2
      <4> HIDE DEF e
      <4>2. Gained(g, c, {v}, x, key, at, e)
        BY <2>2, <2>3, <2>6, <4>1, NewExact
      <4>3. want[k + 1].key = key /\ want[k + 1].at = at /\ want[k + 1].elems = << >>
        BY <2>4, <3>2
      <4> QED BY <4>2, <4>3 DEF Gained
    <3> QED BY <3>1, <3>2
  <2> HIDE DEF e
  <2>8. Pieces(h, c, {v}, v, want, f, k + 1)
    BY <1>1, <2>1, <2>2, <2>5, <2>7, PieceNew
  <2> QED BY <2>8 DEF want, f
<1> QED BY <1>2, <1>3

\* The value of a rule has its pieces.
LEMMA RulePiecesGood ==
    ASSUME NEW h, NEW c, NEW v, NEW keys \in Seq(Keys), NEW rhs \in Seq(Vals),
           NEW rid \in Int, rules[rid + 1].lhs \in Int,
           \A i \in 1 .. Len(rhs) : IsLive(h, rhs[i]),
           Cardinality(Unused(h)) >= Len(keys),
           Pieces(h, c, {v}, v, RuleWanted(keys, rhs, rid), h, 0)
    PROVE  Pieces(h, c, {v}, v, RuleWanted(keys, rhs, rid),
                  RulePieces(h, v, keys, rhs, rid)[Len(keys)], Len(keys))
<1> DEFINE n == Len(keys)
           Good(z, i) == Pieces(h, c, {v}, v, RuleWanted(keys, rhs, rid), z, i)
           piece(z, i) == RulePiece(z, v, keys, i, rhs, rid)
           Makes(f) == f = [k \in 0 .. n |-> IF k = 0 THEN h ELSE piece(f[k-1], k)]
           all == CHOOSE f : Makes(f)
<1>1. n \in Nat
  OBVIOUS
<1>2. RulePieces(h, v, keys, rhs, rid) = all
  BY DEF RulePieces
<1>3. \A i \in 0 .. n - 1 : \A z : Good(z, i) => Good(piece(z, i + 1), i + 1)
  BY RulePieceGood
<1>4. Good(h, 0)
  OBVIOUS
<1>5. \A z, i : Good(z, i) => z \in Heap
  BY DEF Pieces, Exact
<1> HIDE DEF n, Good, piece
<1>6. \E f : Makes(f)
  <2> DEFINE step == [w \in (1 .. n) \X Heap |->
                        IF piece(w[2], w[1]) \in Heap THEN piece(w[2], w[1]) ELSE w[2]]
  <2>1. step \in [(1 .. n) \X Heap -> Heap]
    OBVIOUS
  <2>2. \A k \in 1 .. n, z \in Heap : piece(z, k) \in Heap => step[<< k, z >>] = piece(z, k)
    OBVIOUS
  <2> HIDE DEF step
  <2>3. PICK f \in [0 .. n -> Heap] : IsLoop(f, n, h, step)
    BY <1>1, <1>4, <1>5, <2>1, LoopExists
  <2> DEFINE T == {k \in 0 .. n : Good(f[k], k)}
  <2>4. ASSUME NEW k \in 1 .. n, Good(f[k-1], k - 1)
        PROVE  f[k] = piece(f[k-1], k) /\ Good(f[k], k)
    <3>1. k - 1 \in 0 .. n - 1 /\ k - 1 + 1 = k /\ k - 1 \in 0 .. n
      BY <1>1
    <3>2. Good(piece(f[k-1], k), k)
      BY <1>3, <2>4, <3>1
    <3>3. piece(f[k-1], k) \in Heap /\ f[k-1] \in Heap
      BY <1>5, <3>1, <3>2
    <3>4. f[k] = piece(f[k-1], k)
      BY <2>2, <2>3, <3>3 DEF IsLoop
    <3> QED BY <3>2, <3>4
  <2>5. n \in T /\ \A k \in 0 .. n : k \in T
    <3>1. 0 \in T
      BY <1>1, <1>4, <2>3 DEF IsLoop
    <3>2. \A k \in 0 .. n - 1 : k \in T => k + 1 \in T
      <4> SUFFICES ASSUME NEW k \in 0 .. n - 1, Good(f[k], k) PROVE k + 1 \in T
        BY DEF T
      <4>1. k + 1 \in 1 .. n /\ (k + 1) - 1 = k /\ k + 1 \in 0 .. n
        BY <1>1
      <4> QED BY <2>4, <4>1
    <3> HIDE DEF T
    <3>3. \A k \in 0 .. n : k \in T
      BY <1>1, <3>1, <3>2, BoundedInduction
    <3> QED BY <1>1, <3>3
  <2>6. \A k \in 0 .. n : f[k] = IF k = 0 THEN h ELSE piece(f[k-1], k)
    <3> TAKE k \in 0 .. n
    <3>1. CASE k = 0
      BY <2>3, <3>1 DEF IsLoop
    <3>2. CASE k # 0
      <4>1. k \in 1 .. n /\ k - 1 \in 0 .. n
        BY <1>1, <3>2
      <4>2. Good(f[k-1], k - 1)
        BY <2>5, <4>1
      <4> QED BY <2>4, <3>2, <4>1, <4>2
    <3> QED BY <3>1, <3>2
  <2>7. f = [k \in 0 .. n |-> IF k = 0 THEN h ELSE piece(f[k-1], k)]
    BY <2>3, <2>6
  <2> QED BY <2>7
<1>7. Makes(all)
  BY <1>6
<1> HIDE DEF all
<1>8. \A k \in 0 .. n : all[k] = IF k = 0 THEN h ELSE piece(all[k-1], k)
  BY <1>7
<1> DEFINE T == {k \in 0 .. n : Good(all[k], k)}
<1>9. 0 \in T
  BY <1>1, <1>4, <1>8
<1>10. \A k \in 0 .. n - 1 : k \in T => k + 1 \in T
  <2> SUFFICES ASSUME NEW k \in 0 .. n - 1, Good(all[k], k) PROVE k + 1 \in T
    BY DEF T
  <2>1. k + 1 \in 0 .. n /\ (k + 1) - 1 = k /\ k + 1 # 0
    BY <1>1
  <2>2. all[k + 1] = piece(all[k], k + 1)
    BY <1>8, <2>1
  <2> QED BY <1>3, <2>1, <2>2
<1> HIDE DEF T
<1>11. \A k \in 0 .. n : k \in T
  BY <1>1, <1>9, <1>10, BoundedInduction
<1>12. Good(all[n], n)
  BY <1>1, <1>11 DEF T
<1> QED BY <1>2, <1>12 DEF n, Good

\* The value of a rule says what it should; with ::first it is the first one of the
\* right hand side.
RuleMade(h, made, rhs, rid, keys) ==
    IF keys = << A_FIRST >> THEN made.heap = h /\ made.sv = rhs[1]
    ELSE LET g == made.heap
             v == made.sv
         IN  /\ v \in SvIds \ Live(h) /\ g[v].key = Vec /\ g[v].at = 0
             /\ Len(g[v].elems) = Len(keys)
             /\ \A j \in 1 .. Len(keys) :
                  LET x == g[v].elems[j]
                      w == RuleWanted(keys, rhs, rid)[j]
                  IN  x \in SvIds \ {v} /\ g[x].key = w.key /\ g[x].at = w.at /\ g[x].elems = w.elems
             /\ \A x \in Live(g) \ Live(h) : x = v \/ \E j \in 1 .. Len(keys) : x = g[v].elems[j]

\* It is new, with what it is made of, and may have no reference; the others remain.
RuleValue(h, c, made, rhs, rid, keys) ==
    /\ RuleMade(h, made, rhs, rid, keys)
    /\ made.sv \in Vals /\ IsLive(made.heap, made.sv)
    /\ Exact(made.heap, c, {made.sv})
    /\ Live(h) \subseteq Live(made.heap) /\ Same(h, made.heap, Live(h))

\* get_sv of parser.c gives a value that says what it should, without a reference yet.
LEMMA RuleSvGood ==
    ASSUME NEW h, NEW c, Exact(h, c, {}), NEW rhs \in Seq(Vals), NEW rid \in Int,
           rules[rid + 1].lhs \in Int, \A i \in 1 .. Len(rhs) : IsLive(h, rhs[i]),
           NEW keys, keys = G1decode(code.semantic, rid),
           keys = << A_FIRST >> \/ keys \in Seq(Keys), keys = << A_FIRST >> => rhs # << >>,
           Cardinality(Unused(h)) >= 1 + Len(keys),
           NEW made, made = RuleSv(h, rhs, rid)
    PROVE  RuleValue(h, c, made, rhs, rid, keys)
<1> DEFINE n == Len(keys)
           v == FreeSv(h)
           b == New(h, v, Vec, 0)
           want == RuleWanted(keys, rhs, rid)
           full == RulePieces(b, v, keys, rhs, rid)[n]
<1>1. made = IF keys = << A_FIRST >> THEN [heap |-> h, sv |-> rhs[1]]
             ELSE [heap |-> full, sv |-> v]
  BY DEF RuleSv
<1>2. CASE keys = << A_FIRST >>
  <2>1. made.heap = h /\ made.sv = rhs[1]
    BY <1>1, <1>2
  <2>2. 1 \in 1 .. Len(rhs) /\ rhs[1] \in Vals
    BY <1>2
  <2>3. Exact(h, c, {rhs[1]})
    BY DEF Exact
  <2> QED BY <1>2, <2>1, <2>2, <2>3 DEF RuleValue, RuleMade, Same
<1>3. CASE keys # << A_FIRST >>
  <2>1. keys \in Seq(Keys) /\ n \in Nat /\ made.heap = full /\ made.sv = v
    BY <1>1, <1>3
  <2> HIDE DEF n
  <2>2. v \in Unused(h) /\ v \in SvIds /\ v \notin Live(h)
    <3>1. v \in Unused(h)
      <4>1. Cardinality(Unused(h)) > 0
        BY <2>1, UnusedFinite DEF n
      <4> QED BY <4>1, FreeSvUnused
    <3> HIDE DEF v
    <3> QED BY <3>1, UnusedFree
  <2>3. Gained(h, c, {}, v, Vec, 0, b)
    <3>1. Vec \in Nat /\ 0 \in Int
      BY DEF Vec
    <3> HIDE DEF v
    <3> QED BY <2>2, <3>1, NewExact
  <2>4. /\ Exact(b, c, {v}) /\ Live(b) = Live(h) \cup {v} /\ Unused(b) = Unused(h) \ {v}
        /\ Same(h, b, Live(h)) /\ b[v].key = Vec /\ b[v].at = 0 /\ b[v].elems = << >>
    <3>1. {} \cup {v} = {v}
      OBVIOUS
    <3> QED BY <2>3, <3>1 DEF Gained
  <2> HIDE DEF v, b
  <2>5. Pieces(b, c, {v}, v, want, b, 0)
    <3>1. Cardinality(Unused(b)) + 0 >= Cardinality(Unused(b))
      BY UnusedFinite
    <3>2. 1 .. 0 = {} /\ Len(<< >>) = 0
      OBVIOUS
    <3> HIDE DEF want
    <3> QED BY <2>4, <3>1, <3>2 DEF Pieces, Same
  <2>6. Cardinality(Unused(b)) >= n
    <3>1. Cardinality(Unused(b)) = Cardinality(Unused(h)) - 1
      BY <2>2, <2>4, OneLess
    <3> QED BY <2>1, <3>1, UnusedFinite DEF n
  <2>7. Pieces(b, c, {v}, v, want, full, n)
    <3>1. \A i \in 1 .. Len(rhs) : IsLive(b, rhs[i])
      BY <2>4 DEF IsLive
    <3> QED BY <2>1, <2>5, <2>6, <3>1, RulePiecesGood DEF n
  <2> HIDE DEF want, full
  <2>8. /\ Exact(full, c, {v}) /\ v \in Live(full)
        /\ Live(b) \subseteq Live(full) /\ Same(b, full, Live(b) \ {v})
    BY <2>7 DEF Pieces
  <2>9. Live(h) \subseteq Live(full) /\ Same(h, full, Live(h))
    BY <2>2, <2>4, <2>8 DEF Same
  <2>10. \A x \in Live(full) \ Live(h) : x = v \/ \E j \in 1 .. n : x = full[v].elems[j]
    BY <2>4, <2>7 DEF Pieces
  <2>11. RuleMade(h, made, rhs, rid, keys)
    BY <1>3, <2>1, <2>2, <2>7, <2>10 DEF RuleMade, Pieces, n, want
  <2> QED BY <2>1, <2>2, <2>8, <2>9, <2>11 DEF RuleValue, IsLive, Vals
<1> QED BY <1>2, <1>3

-----------------------------------------------------------------------------
(* What a mask takes away                                                  *)

\* What was kept of a vector, what gave up its reference, and the place in the mask.
Sifting == [kept : Seq(Vals), gone : Seq(Vals), j : Nat \ {0}]

\* One element more of a vector that is filtered: sva_filter.
Sifted(st, xs, mask, k) ==
    IF st.j <= Len(mask) /\ mask[st.j] = k - 1
    THEN [st EXCEPT !.gone = Append(@, xs[k]), !.j = @ + 1]
    ELSE [st EXCEPT !.kept = Append(@, xs[k])]

\* After k elements, each of them is either kept or gone; no more are gone than the
\* mask names.
PartlyFiltered(st, xs, mask, k) ==
    /\ st \in Sifting
    /\ Len(st.kept) + Len(st.gone) = k
    /\ st.j = Len(st.gone) + 1 /\ Len(st.gone) <= Len(mask)
    /\ \A i \in 1 .. Len(st.kept) : \E m \in 1 .. Len(xs) : st.kept[i] = xs[m]
    /\ \A x : Places(x, SubSeq(xs, 1, k)) = Places(x, st.kept) + Places(x, st.gone)

\* One element further.
LEMMA SiftedNext ==
    ASSUME NEW xs \in Seq(Vals), NEW mask \in Seq(Nat), NEW k \in 1 .. Len(xs), NEW st,
           PartlyFiltered(st, xs, mask, k - 1), NEW s, s = Sifted(st, xs, mask, k)
    PROVE  PartlyFiltered(s, xs, mask, k)
<1> DEFINE a == SubSeq(xs, 1, k - 1)
           b == SubSeq(xs, 1, k)
<1>1. /\ Len(xs) \in Nat /\ Len(mask) \in Nat /\ k \in Nat /\ k - 1 \in Nat /\ xs[k] \in Vals
      /\ st \in Sifting /\ st.kept \in Seq(Vals) /\ st.gone \in Seq(Vals) /\ st.j \in Nat \ {0}
  <2>1. st \in Sifting
    BY DEF PartlyFiltered
  <2> QED BY <2>1 DEF Sifting
<1>8. Len(st.kept) \in Nat /\ Len(st.gone) \in Nat
  BY <1>1
<1>9. /\ Len(st.kept) + Len(st.gone) = k - 1 /\ st.j = Len(st.gone) + 1
      /\ Len(st.gone) <= Len(mask)
  BY DEF PartlyFiltered
<1>2. b = Append(a, xs[k])
  <2>1. Len(a) = k - 1 /\ Len(b) = k /\ a \in Seq(Vals) /\ b \in Seq(Vals)
    BY <1>1
  <2>2. \A i \in 1 .. k : b[i] = Append(a, xs[k])[i]
    BY <1>1
  <2>3. Append(a, xs[k]) \in Seq(Vals) /\ Len(Append(a, xs[k])) = k
    BY <1>1, <2>1
  <2> QED BY <2>1, <2>2, <2>3, SeqEqual
<1>3. a \in Seq(Vals)
  BY <1>1
<1> HIDE DEF a, b
<1>4. \A x : Places(x, b) = Places(x, st.kept) + Places(x, st.gone) + (IF x = xs[k] THEN 1 ELSE 0)
  <2> TAKE x
  <2>1. Places(x, b) = Places(x, a) + (IF x = xs[k] THEN 1 ELSE 0)
    BY <1>1, <1>2, <1>3, PlacesAppend
  <2>2. Places(x, a) = Places(x, st.kept) + Places(x, st.gone)
    BY DEF PartlyFiltered, a
  <2> QED BY <2>1, <2>2
<1>5. \A x : Places(x, st.kept) \in Nat /\ Places(x, st.gone) \in Nat
  BY <1>1, PlacesNat
<1>6. CASE st.j <= Len(mask) /\ mask[st.j] = k - 1
  <2> DEFINE u == Append(st.gone, xs[k])
  <2>1. s = [st EXCEPT !.gone = u, !.j = @ + 1] /\ u \in Seq(Vals) /\ Len(u) = Len(st.gone) + 1
    <3>1. s = [st EXCEPT !.gone = u, !.j = @ + 1]
      BY <1>6 DEF Sifted
    <3> QED BY <1>1, <3>1
  <2>7. u = Append(st.gone, xs[k])
    OBVIOUS
  <2> HIDE DEF u
  <2>2. /\ s.kept = st.kept /\ s.gone = u /\ s.j = st.j + 1
        /\ s \in Sifting
    <3>1. st.j + 1 \in Nat \ {0}
      BY <1>1
    <3> DEFINE m == st.j + 1
    <3>2. s = [st EXCEPT !.gone = u, !.j = m]
      BY <2>1
    <3>3. m \in Nat \ {0}
      BY <3>1
    <3> HIDE DEF m
    <3>4. s \in Sifting /\ s.kept = st.kept /\ s.gone = u /\ s.j = m
      BY <1>1, <2>1, <3>2, <3>3 DEF Sifting
    <3> QED BY <3>4 DEF m
  <2>3. Len(s.gone) = Len(st.gone) + 1
    BY <2>1, <2>2
  <2>4. \A x : Places(x, s.gone) = Places(x, st.gone) + (IF x = xs[k] THEN 1 ELSE 0)
    BY <1>1, <2>2, <2>7, PlacesAppend
  <2>5. \A x : Places(x, b) = Places(x, s.kept) + Places(x, s.gone)
    BY <1>4, <1>5, <2>2, <2>4
  <2>6. Len(s.kept) + Len(s.gone) = k /\ s.j = Len(s.gone) + 1 /\ Len(s.gone) <= Len(mask)
    <3>1. Len(s.kept) = Len(st.kept) /\ s.j = st.j + 1
      BY <2>2
    <3>2. Len(mask) \in Nat /\ k \in Nat /\ st.j <= Len(mask)
      BY <1>1, <1>6
    <3>6. \A m, i \in Nat : m + i = k - 1 => m + (i + 1) = k /\ (m + 1) + i = k
      BY <3>2
    <3>3. Len(s.kept) + Len(s.gone) = k
      BY <1>8, <1>9, <2>3, <3>1, <3>6
    <3>4. s.j = Len(s.gone) + 1
      BY <1>8, <1>9, <2>3, <3>1, <3>2
    <3>5. Len(s.gone) <= Len(mask)
      BY <1>8, <1>9, <2>3, <3>1, <3>2
    <3> QED BY <3>3, <3>4, <3>5
  <2> QED BY <2>2, <2>5, <2>6 DEF PartlyFiltered, b
<1>7. CASE ~(st.j <= Len(mask) /\ mask[st.j] = k - 1)
  <2> DEFINE u == Append(st.kept, xs[k])
  <2>1. s = [st EXCEPT !.kept = u] /\ u \in Seq(Vals) /\ Len(u) = Len(st.kept) + 1
    <3>1. s = [st EXCEPT !.kept = u]
      BY <1>7 DEF Sifted
    <3> QED BY <1>1, <3>1
  <2>8. u = Append(st.kept, xs[k])
    OBVIOUS
  <2> HIDE DEF u
  <2>2. /\ s.gone = st.gone /\ s.kept = u /\ s.j = st.j
        /\ s \in Sifting
    BY <1>1, <2>1 DEF Sifting
  <2>3. Len(s.kept) = Len(st.kept) + 1
    BY <2>1, <2>2
  <2>4. \A x : Places(x, s.kept) = Places(x, st.kept) + (IF x = xs[k] THEN 1 ELSE 0)
    BY <1>1, <2>2, <2>8, PlacesAppend
  <2>5. \A x : Places(x, b) = Places(x, s.kept) + Places(x, s.gone)
    BY <1>4, <1>5, <2>2, <2>4
  <2>6. Len(s.kept) + Len(s.gone) = k /\ s.j = Len(s.gone) + 1 /\ Len(s.gone) <= Len(mask)
    <3>1. Len(s.gone) = Len(st.gone) /\ s.j = st.j
      BY <2>2
    <3>2. Len(mask) \in Nat /\ k \in Nat
      BY <1>1
    <3>6. \A m, i \in Nat : m + i = k - 1 => m + (i + 1) = k /\ (m + 1) + i = k
      BY <3>2
    <3>3. Len(s.kept) + Len(s.gone) = k
      BY <1>8, <1>9, <2>3, <3>1, <3>6
    <3>4. s.j = Len(s.gone) + 1
      BY <1>8, <1>9, <2>3, <3>1, <3>2
    <3>5. Len(s.gone) <= Len(mask)
      BY <1>8, <1>9, <2>3, <3>1, <3>2
    <3> QED BY <3>3, <3>4, <3>5
  <2>7. \A i \in 1 .. Len(s.kept) : \E m \in 1 .. Len(xs) : s.kept[i] = xs[m]
    <3> TAKE i \in 1 .. Len(s.kept)
    <3>1. CASE i = Len(s.kept)
      <4>1. s.kept[i] = xs[k]
        BY <1>1, <2>2, <2>3, <2>8, <3>1
      <4> QED BY <4>1
    <3>2. CASE i # Len(s.kept)
      <4>1. i \in 1 .. Len(st.kept) /\ s.kept[i] = st.kept[i]
        BY <1>1, <2>2, <2>3, <2>8, <3>2
      <4> QED BY <4>1 DEF PartlyFiltered
    <3> QED BY <3>1, <3>2
  <2> QED BY <2>2, <2>5, <2>6, <2>7 DEF PartlyFiltered, b
<1> QED BY <1>6, <1>7

\* What is left of a vector and what is gone are together all that was in it.
FilteredWell(cut, xs, mask) ==
    /\ cut.kept \in Seq(Vals) /\ cut.gone \in Seq(Vals)
    /\ Len(cut.kept) + Len(cut.gone) = Len(xs) /\ Len(cut.gone) <= Len(mask)
    /\ \A i \in 1 .. Len(cut.kept) : \E m \in 1 .. Len(xs) : cut.kept[i] = xs[m]
    /\ \A x : Places(x, xs) = Places(x, cut.kept) + Places(x, cut.gone)

\* Filtering does that.
LEMMA FilteredFacts ==
    ASSUME NEW xs \in Seq(Vals), NEW mask \in Seq(Nat)
    PROVE  FilteredWell(Filtered(xs, mask), xs, mask)
<1> DEFINE n == Len(xs)
           Good(z, i) == PartlyFiltered(z, xs, mask, i)
           first == [kept |-> << >>, gone |-> << >>, j |-> 1]
           Makes(f) == f = [k \in 0 .. n |-> IF k = 0 THEN first ELSE Sifted(f[k-1], xs, mask, k)]
           all == CHOOSE f : Makes(f)
<1>1. n \in Nat
  OBVIOUS
<1>2. Filtering(xs, mask) = all
  BY DEF Filtering, Sifted
<1>3. Good(first, 0)
  <2>1. first \in Sifting /\ first.kept = << >> /\ first.gone = << >> /\ first.j = 1
    BY DEF Sifting
  <2>2. SubSeq(xs, 1, 0) = << >> /\ Len(<< >>) = 0 /\ 1 .. 0 = {}
    OBVIOUS
  <2>4. Len(mask) \in Nat
    OBVIOUS
  <2> HIDE DEF first
  <2>3. \A x : Places(x, SubSeq(xs, 1, 0)) = Places(x, first.kept) + Places(x, first.gone)
    <3> TAKE x
    <3>1. Places(x, << >>) = 0
      BY PlacesEmpty
    <3>2. Places(x, SubSeq(xs, 1, 0)) = 0 /\ Places(x, first.kept) = 0 /\ Places(x, first.gone) = 0
      BY <2>1, <2>2, <3>1
    <3> QED BY <3>2
  <2> QED BY <2>1, <2>2, <2>3, <2>4 DEF PartlyFiltered
<1>4. ASSUME NEW k \in 1 .. n, NEW z, Good(z, k - 1) PROVE Good(Sifted(z, xs, mask, k), k)
  BY <1>4, SiftedNext
<1>5. \A z \in Sifting, k \in 1 .. n : Sifted(z, xs, mask, k) \in Sifting
  <2> TAKE z \in Sifting, k \in 1 .. n
  <2>1. xs[k] \in Vals
    OBVIOUS
  <2>2. z.kept \in Seq(Vals) /\ z.gone \in Seq(Vals) /\ z.j \in Nat \ {0}
    BY DEF Sifting
  <2> DEFINE a == Append(z.kept, xs[k])
             b == Append(z.gone, xs[k])
  <2>3. a \in Seq(Vals) /\ b \in Seq(Vals) /\ z.j + 1 \in Nat \ {0}
    BY <2>1, <2>2
  <2>4. Sifted(z, xs, mask, k) \in {[z EXCEPT !.gone = b, !.j = @ + 1], [z EXCEPT !.kept = a]}
    BY DEF Sifted
  <2> HIDE DEF a, b
  <2> QED BY <2>3, <2>4 DEF Sifting
<1>6. first \in Sifting
  BY <1>3 DEF PartlyFiltered
<1> HIDE DEF first, n, Good
<1>7. \E f : Makes(f)
  <2> DEFINE step == [w \in (1 .. n) \X Sifting |-> Sifted(w[2], xs, mask, w[1])]
  <2>1. step \in [(1 .. n) \X Sifting -> Sifting]
    BY <1>5
  <2>2. \A k \in 1 .. n, x \in Sifting : step[<< k, x >>] = Sifted(x, xs, mask, k)
    OBVIOUS
  <2> HIDE DEF step
  <2>3. PICK f \in [0 .. n -> Sifting] : IsLoop(f, n, first, step)
    BY <1>1, <1>6, <2>1, LoopExists
  <2>4. ASSUME NEW k \in 1 .. n PROVE f[k] = Sifted(f[k-1], xs, mask, k)
    <3>1. k - 1 \in 0 .. n
      BY <1>1
    <3>2. f[k-1] \in Sifting
      BY <3>1
    <3> QED BY <2>2, <2>3, <3>2 DEF IsLoop
  <2>5. \A k \in 0 .. n : f[k] = IF k = 0 THEN first ELSE Sifted(f[k-1], xs, mask, k)
    <3> TAKE k \in 0 .. n
    <3>1. CASE k = 0
      BY <2>3, <3>1 DEF IsLoop
    <3>2. CASE k # 0
      <4>1. k \in 1 .. n
        BY <1>1, <3>2
      <4> QED BY <2>4, <3>2, <4>1
    <3> QED BY <3>1, <3>2
  <2>6. f = [k \in 0 .. n |-> IF k = 0 THEN first ELSE Sifted(f[k-1], xs, mask, k)]
    BY <2>3, <2>5
  <2> QED BY <2>6
<1>8. Makes(all)
  BY <1>7
<1> HIDE DEF all
<1>9. \A k \in 0 .. n : all[k] = IF k = 0 THEN first ELSE Sifted(all[k-1], xs, mask, k)
  BY <1>8
<1> DEFINE T == {k \in 0 .. n : Good(all[k], k)}
<1>10. 0 \in T
  BY <1>1, <1>3, <1>9
<1>11. \A k \in 0 .. n - 1 : k \in T => k + 1 \in T
  <2> SUFFICES ASSUME NEW k \in 0 .. n - 1, Good(all[k], k) PROVE k + 1 \in T
    BY DEF T
  <2>1. k + 1 \in 1 .. n /\ k + 1 \in 0 .. n /\ (k + 1) - 1 = k /\ k + 1 # 0
    BY <1>1
  <2>2. all[k + 1] = Sifted(all[k], xs, mask, k + 1)
    BY <1>9, <2>1
  <2>3. Good(Sifted(all[k], xs, mask, k + 1), k + 1)
    BY <1>4, <2>1
  <2> QED BY <2>1, <2>2, <2>3
<1> HIDE DEF T
<1>12. \A k \in 0 .. n : k \in T
  BY <1>1, <1>10, <1>11, BoundedInduction
<1>13. Good(all[n], n)
  BY <1>1, <1>12 DEF T
<1>14. PartlyFiltered(all[n], xs, mask, n)
  BY <1>13 DEF Good
<1>15. SubSeq(xs, 1, n) = xs
  BY DEF n
<1> QED BY <1>2, <1>14, <1>15 DEF PartlyFiltered, FilteredWell, Filtered, Sifting, n

-----------------------------------------------------------------------------
(* The stack                                                               *)

\* A value that is put behind all others is appended.
LEMMA FilledBehind ==
    ASSUME NEW xs \in Seq(Vals), NEW x \in Vals
    PROVE  Filled(xs, Len(xs), x) = Append(xs, x) /\ Old(xs, Len(xs)) = << >>
<1> DEFINE n == Len(xs)
           s == {n, n + 1}
<1>1. n \in Nat
  OBVIOUS
<1>2. Max(s) = n + 1
  <2>1. \A m \in s : m <= n + 1 /\ (m = n \/ m = n + 1)
    BY <1>1
  <2>2. n + 1 \in s /\ \A m \in s : n + 1 >= m
    BY <1>1
  <2>3. \A m \in s : (\A y \in s : m >= y) => m = n + 1
    BY <1>1, <2>2
  <2> QED BY <2>2, <2>3 DEF Max
<1> DEFINE f == Filled(xs, n, x)
           g == Append(xs, x)
<1>3. f = [k \in 1 .. n + 1 |-> IF k = n + 1 THEN x ELSE IF k <= n THEN xs[k] ELSE Null]
  BY <1>2 DEF Filled
<1>4. g \in Seq(Vals) /\ Len(g) = n + 1 /\ g[n + 1] = x /\ \A k \in 1 .. n : g[k] = xs[k]
  BY <1>1
<1> HIDE DEF f
<1>5. \A k \in 1 .. n + 1 : k = n + 1 \/ (k \in 1 .. n /\ k <= n /\ k # n + 1)
  BY <1>1
<1>8. \A k \in 1 .. n + 1 : f[k] = g[k]
  BY <1>3, <1>4, <1>5
<1>9. f \in Seq(Vals) /\ Len(f) = n + 1
  <2>1. \A k \in 1 .. n + 1 : f[k] \in Vals
    BY <1>3, <1>5
  <2> QED BY <1>1, <1>3, <2>1, IsSequence
<1>6. Filled(xs, n, x) = Append(xs, x)
  BY <1>4, <1>8, <1>9, SeqEqual DEF f
<1>7. Old(xs, n) = << >>
  BY <1>1 DEF Old
<1> QED BY <1>6, <1>7

-----------------------------------------------------------------------------
(* The references of the engine                                            *)

\* The references to values that no vector holds: those of the store, of the stack, of
\* the lists and of the instance.
Rooted(s, e, t, v, r) ==
    [x \in SvIds |-> Places(x, s) + Places(x, e) + Places(x, t) + Places(x, v) + Places(x, << r >>)]

\* Sequences of values, and a heap that counts their references.
Typed(s, e, t, v, r) ==
    /\ s \in Seq(Vals) /\ e \in Seq(Vals) /\ t \in Seq(Vals) /\ v \in Seq(Vals) /\ r \in Vals
Holding(h, s, e, t, v, r) == Typed(s, e, t, v, r) /\ Exact(h, Rooted(s, e, t, v, r), {})

\* The counts of these references.
LEMMA RootedIs ==
    ASSUME NEW s, NEW e, NEW t, NEW v, NEW r, Typed(s, e, t, v, r)
    PROVE  /\ Rooted(s, e, t, v, r) \in Counts
           /\ \A x : /\ Places(x, s) \in Nat /\ Places(x, e) \in Nat /\ Places(x, t) \in Nat
                     /\ Places(x, v) \in Nat
                     /\ Places(x, << r >>) = IF x = r THEN 1 ELSE 0
           /\ \A x \in SvIds :
                Rooted(s, e, t, v, r)[x] = Places(x, s) + Places(x, e) + Places(x, t)
                                           + Places(x, v) + (IF x = r THEN 1 ELSE 0)
<1>1. \A x : /\ Places(x, s) \in Nat /\ Places(x, e) \in Nat /\ Places(x, t) \in Nat
             /\ Places(x, v) \in Nat
  BY PlacesNat DEF Typed
<1>2. \A x : Places(x, << r >>) = IF x = r THEN 1 ELSE 0
  BY PlacesOne
<1>3. \A x \in SvIds : Rooted(s, e, t, v, r)[x] = Places(x, s) + Places(x, e) + Places(x, t)
                                           + Places(x, v) + (IF x = r THEN 1 ELSE 0)
  BY <1>2 DEF Rooted
<1>4. \A x \in SvIds : Places(x, s) + Places(x, e) + Places(x, t) + Places(x, v)
                       + Places(x, << r >>) \in Nat
  <2> TAKE x \in SvIds
  <2>1. Places(x, << r >>) \in Nat
    BY <1>2
  <2> QED BY <1>1, <2>1
<1>5. Rooted(s, e, t, v, r) \in Counts
  BY <1>4 DEF Rooted, Counts
<1> QED BY <1>1, <1>2, <1>3, <1>5

\* The count of one value.
LEMMA RootedAt ==
    ASSUME NEW s, NEW e, NEW t, NEW v, NEW r, Typed(s, e, t, v, r), NEW x \in SvIds
    PROVE  /\ Places(x, s) \in Nat /\ Places(x, e) \in Nat /\ Places(x, t) \in Nat
           /\ Places(x, v) \in Nat
           /\ Rooted(s, e, t, v, r)[x] = Places(x, s) + Places(x, e) + Places(x, t)
                                         + Places(x, v) + (IF x = r THEN 1 ELSE 0)
<1>1. \A y : /\ Places(y, s) \in Nat /\ Places(y, e) \in Nat /\ Places(y, t) \in Nat
             /\ Places(y, v) \in Nat
  BY PlacesNat DEF Typed
<1>2. Places(x, << r >>) = IF x = r THEN 1 ELSE 0
  BY PlacesOne
<1> QED BY <1>1, <1>2 DEF Rooted

\* What is in a sequence that is counted lives.
LEMMA PlacedLive ==
    ASSUME NEW h, NEW c, NEW G, Exact(h, c, G), NEW xs \in Seq(Vals),
           \A x \in SvIds : Places(x, xs) <= c[x]
    PROVE  \A k \in 1 .. Len(xs) : xs[k] \in Vals /\ IsLive(h, xs[k])
<1> TAKE k \in 1 .. Len(xs)
<1>1. xs[k] \in Vals
  OBVIOUS
<1>2. CASE xs[k] # Null
  <2>1. xs[k] \in SvIds
    BY <1>1, <1>2 DEF Vals
  <2>2. Places(xs[k], xs) \in Nat /\ Places(xs[k], xs) # 0
    BY PlacesNat
  <2>3. c[xs[k]] \in Nat /\ Places(xs[k], xs) <= c[xs[k]]
    BY <2>1 DEF Exact, Counts
  <2>4. c[xs[k]] # 0
    BY <2>2, <2>3
  <2> QED BY <1>1, <2>1, <2>4, CountedLive DEF IsLive
<1> QED BY <1>1, <1>2 DEF IsLive

\* All that the engine refers to lives.
LEMMA HoldingLive ==
    ASSUME NEW h, NEW s, NEW e, NEW t, NEW v, NEW r, Holding(h, s, e, t, v, r)
    PROVE  /\ \A k \in 1 .. Len(s) : s[k] \in Vals /\ IsLive(h, s[k])
           /\ \A k \in 1 .. Len(e) : e[k] \in Vals /\ IsLive(h, e[k])
           /\ \A k \in 1 .. Len(t) : t[k] \in Vals /\ IsLive(h, t[k])
           /\ \A k \in 1 .. Len(v) : v[k] \in Vals /\ IsLive(h, v[k])
           /\ r \in Vals /\ IsLive(h, r)
<1> DEFINE c == Rooted(s, e, t, v, r)
<1>1. Typed(s, e, t, v, r) /\ Exact(h, c, {})
  BY DEF Holding
<1>2. /\ c \in Counts
      /\ \A x : /\ Places(x, s) \in Nat /\ Places(x, e) \in Nat /\ Places(x, t) \in Nat
                /\ Places(x, v) \in Nat
                /\ Places(x, << r >>) = IF x = r THEN 1 ELSE 0
      /\ \A x \in SvIds : c[x] = Places(x, s) + Places(x, e) + Places(x, t)
                                 + Places(x, v) + (IF x = r THEN 1 ELSE 0)
  BY <1>1, RootedIs
<1> HIDE DEF c
<1>3. \A x \in SvIds : /\ Places(x, s) <= c[x] /\ Places(x, e) <= c[x] /\ Places(x, t) <= c[x]
                       /\ Places(x, v) <= c[x] /\ (x = r => c[x] # 0)
  <2> TAKE x \in SvIds
  <2>1. /\ Places(x, s) \in Nat /\ Places(x, e) \in Nat /\ Places(x, t) \in Nat
        /\ Places(x, v) \in Nat
    BY <1>2
  <2>2. c[x] = Places(x, s) + Places(x, e) + Places(x, t) + Places(x, v) + (IF x = r THEN 1 ELSE 0)
    BY <1>2
  <2> QED BY <2>1, <2>2
<1>4. r \in Vals /\ IsLive(h, r)
  <2>1. CASE r = Null
    BY <1>1, <2>1 DEF IsLive, Typed
  <2>2. CASE r # Null
    <3>1. r \in SvIds /\ c[r] # 0
      BY <1>1, <1>3, <2>2 DEF Typed, Vals
    <3> QED BY <1>1, <3>1, CountedLive DEF IsLive, Typed
  <2> QED BY <2>1, <2>2
<1>5. s \in Seq(Vals) /\ e \in Seq(Vals) /\ t \in Seq(Vals) /\ v \in Seq(Vals)
  BY <1>1 DEF Typed
<1>6. \A k \in 1 .. Len(s) : s[k] \in Vals /\ IsLive(h, s[k])
  BY <1>1, <1>3, <1>5, PlacedLive
<1>7. \A k \in 1 .. Len(e) : e[k] \in Vals /\ IsLive(h, e[k])
  BY <1>1, <1>3, <1>5, PlacedLive
<1>8. \A k \in 1 .. Len(t) : t[k] \in Vals /\ IsLive(h, t[k])
  BY <1>1, <1>3, <1>5, PlacedLive
<1>9. \A k \in 1 .. Len(v) : v[k] \in Vals /\ IsLive(h, v[k])
  BY <1>1, <1>3, <1>5, PlacedLive
<1> QED BY <1>4, <1>6, <1>7, <1>8, <1>9

\* A new value with a reference of its maker.
LEMMA NewRefExact ==
    ASSUME NEW h, NEW c, Exact(h, c, {}), NEW x \in Unused(h), NEW key \in Nat, NEW at \in Int,
           NEW g, g = Ref(New(h, x, key, at), x)
    PROVE  /\ x \in SvIds /\ Exact(g, Plus(c, x), {})
           /\ Live(g) = Live(h) \cup {x} /\ Same(h, g, Live(h))
           /\ g[x].key = key /\ g[x].at = at /\ g[x].elems = << >>
<1> DEFINE b == New(h, x, key, at)
<1>1. x \in SvIds /\ x \notin Live(h)
  BY UnusedFree
<1>2. Gained(h, c, {}, x, key, at, b)
  BY NewExact
<1>3. /\ Exact(b, c, {x}) /\ Live(b) = Live(h) \cup {x} /\ Same(h, b, Live(h))
      /\ b[x].key = key /\ b[x].at = at /\ b[x].elems = << >>
  <2>1. {} \cup {x} = {x}
    OBVIOUS
  <2> QED BY <1>2, <2>1 DEF Gained
<1>4. g = Ref(b, x)
  OBVIOUS
<1> HIDE DEF b
<1>5. Referred(b, c, {x}, x, g)
  <2>1. x \in Vals /\ IsLive(b, x)
    BY <1>1, <1>3 DEF Vals, IsLive
  <2> QED BY <1>3, <1>4, <2>1, RefExact
<1>6. Exact(g, Plus(c, x), {}) /\ Live(g) = Live(b) /\ Same(b, g, SvIds)
  <2>1. {x} \ {x} = {}
    OBVIOUS
  <2> QED BY <1>5, <2>1 DEF Referred
<1>7. Same(h, g, Live(h))
  <2>1. \A y \in Live(h) : y \in SvIds
    BY DEF Live
  <2> QED BY <1>3, <1>6, <2>1 DEF Same
<1> QED BY <1>1, <1>3, <1>6, <1>7 DEF Same

\* Over two steps.
LEMMA SameOn ==
    ASSUME NEW h, NEW g, NEW f, NEW S, NEW T, Same(h, g, S), Same(g, f, T), T \subseteq S
    PROVE  Same(h, f, T)
<1> SUFFICES ASSUME NEW x \in T
             PROVE  f[x].key = h[x].key /\ f[x].at = h[x].at /\ f[x].elems = h[x].elems
  BY DEF Same
<1>1. f[x].key = g[x].key /\ f[x].at = g[x].at /\ f[x].elems = g[x].elems
  BY DEF Same
<1>2. g[x].key = h[x].key /\ g[x].at = h[x].at /\ g[x].elems = h[x].elems
  BY DEF Same
<1> QED BY <1>1, <1>2

\* What lives before and after is the same.
Unchanged(h, g) == Same(h, g, Live(h) \cap Live(g))

\* A heap whose counts are those of the engine.
LEMMA HoldingFrom ==
    ASSUME NEW h, NEW c, Exact(h, c, {}), NEW s, NEW e, NEW t, NEW v, NEW r,
           Typed(s, e, t, v, r), \A x \in SvIds : Rooted(s, e, t, v, r)[x] = c[x]
    PROVE  Holding(h, s, e, t, v, r)
<1>1. Rooted(s, e, t, v, r) \in Counts
  BY RootedIs
<1> QED BY <1>1, ExactOther DEF Holding

\* Of a new value with the reference of its maker, and a second one, the first is given
\* up.
LEMMA HandedOver ==
    ASSUME NEW h, NEW c \in Counts, NEW x \in SvIds, Exact(h, Plus(c, x), {}),
           NEW g, g = Unrefs(Ref(h, x), << x >>)
    PROVE  /\ Exact(g, Plus(c, x), {}) /\ x \in Live(g) /\ x \in Live(h)
           /\ Live(g) \subseteq Live(h) /\ Same(h, g, Live(g))
<1> DEFINE d == Plus(c, x)
           b == Ref(h, x)
<1>1. d \in Counts /\ d[x] # 0 /\ x \in Vals
  <2>1. d \in Counts
    BY PlusCounts
  <2>2. c[x] \in Nat
    BY DEF Counts
  <2> QED BY <2>1, <2>2 DEF Plus, Vals
<1>2. Exact(h, d, {})
  OBVIOUS
<1> HIDE DEF d
<1>3. x \in Live(h)
  BY <1>1, <1>2, CountedLive
<1>4. Referred(h, d, {}, x, b)
  BY <1>1, <1>2, <1>3, RefExact DEF IsLive
<1> HIDE DEF b
<1>5. Exact(b, Plus(d, x), {}) /\ Live(b) = Live(h) /\ Same(h, b, SvIds)
  <2>1. {} \ {x} = {}
    OBVIOUS
  <2> QED BY <1>4, <2>1 DEF Referred
<1>6. Unreferred(b, d, g)
  <2>1. << x >> \in Seq(Vals)
    BY <1>1
  <2>2. \A y \in SvIds : Plus(d, x)[y] = d[y] + Places(y, << x >>)
    BY PlacesOne DEF Plus
  <2>3. g = Unrefs(b, << x >>)
    BY DEF b
  <2> QED BY <1>1, <1>5, <2>1, <2>2, <2>3, UnrefsExact
<1>7. Exact(g, d, {}) /\ Live(g) \subseteq Live(b) /\ Same(b, g, Live(g))
  BY <1>6 DEF Unreferred
<1>8. x \in Live(g)
  BY <1>1, <1>7, CountedLive
<1>9. Same(h, g, Live(g))
  <2>1. \A y \in Live(g) : y \in SvIds
    BY DEF Live
  <2> QED BY <1>5, <1>7, <2>1 DEF Same
<1> QED BY <1>3, <1>5, <1>7, <1>8, <1>9 DEF d

\* A value more in the store.
LEMMA MoreStored ==
    ASSUME NEW s, NEW e, NEW t, NEW v, NEW r, Typed(s, e, t, v, r), NEW x \in Vals
    PROVE  /\ Typed(Append(s, x), e, t, v, r)
           /\ \A y \in SvIds : Rooted(Append(s, x), e, t, v, r)[y]
                               = Plus(Rooted(s, e, t, v, r), x)[y]
<1>1. s \in Seq(Vals) /\ Typed(Append(s, x), e, t, v, r)
  BY DEF Typed
<1> SUFFICES ASSUME NEW y \in SvIds
             PROVE  Rooted(Append(s, x), e, t, v, r)[y] = Plus(Rooted(s, e, t, v, r), x)[y]
  BY <1>1
<1>2. Places(y, Append(s, x)) = Places(y, s) + (IF y = x THEN 1 ELSE 0)
  BY <1>1, PlacesAppend
<1>3. Plus(Rooted(s, e, t, v, r), x)[y] = Rooted(s, e, t, v, r)[y] + (IF y = x THEN 1 ELSE 0)
  BY DEF Plus
<1>4. /\ Places(y, s) \in Nat /\ Places(y, e) \in Nat /\ Places(y, t) \in Nat /\ Places(y, v) \in Nat
      /\ Rooted(s, e, t, v, r)[y] = Places(y, s) + Places(y, e) + Places(y, t) + Places(y, v)
                                 + (IF y = r THEN 1 ELSE 0)
  BY RootedAt
<1>6. Rooted(Append(s, x), e, t, v, r)[y] = Places(y, Append(s, x)) + Places(y, e) + Places(y, t)
                                 + Places(y, v) + (IF y = r THEN 1 ELSE 0)
  BY <1>1, RootedAt
<1> QED BY <1>2, <1>3, <1>4, <1>6

\* The store takes over the value of a lexeme.
LEMMA LexemeStored ==
    ASSUME NEW h, NEW s, NEW e, NEW t, NEW v, NEW r, Holding(h, s, e, t, v, r),
           NEW terminal, NEW made, LexValue(h, Rooted(s, e, t, v, r), terminal, made),
           NEW g, g = Unrefs(Ref(made.heap, made.sv), << made.sv >>)
    PROVE  /\ Holding(g, Append(s, made.sv), e, t, v, r)
           /\ made.sv \in Live(g) /\ Live(g) \subseteq Live(made.heap)
           /\ Same(made.heap, g, Live(g))
<1> DEFINE c == Rooted(s, e, t, v, r)
           x == made.sv
<1>1. Typed(s, e, t, v, r) /\ c \in Counts
  BY RootedIs DEF Holding
<1>2. x \in SvIds /\ x \in Vals /\ Exact(made.heap, Plus(c, x), {})
  BY DEF LexValue, Vals
<1> HIDE DEF c, x
<1>3. /\ Exact(g, Plus(c, x), {}) /\ x \in Live(g) /\ Live(g) \subseteq Live(made.heap)
      /\ Same(made.heap, g, Live(g))
  <2>1. g = Unrefs(Ref(made.heap, x), << x >>)
    BY DEF x
  <2> QED BY <1>1, <1>2, <2>1, HandedOver
<1>4. /\ Typed(Append(s, x), e, t, v, r)
      /\ \A y \in SvIds : Rooted(Append(s, x), e, t, v, r)[y] = Plus(c, x)[y]
  BY <1>1, <1>2, MoreStored DEF c
<1>5. Holding(g, Append(s, x), e, t, v, r)
  BY <1>3, <1>4, HoldingFrom
<1> QED BY <1>3, <1>5 DEF x

\* The store takes a value that a handler made.
LEMMA GivenStored ==
    ASSUME NEW h, NEW s, NEW e, NEW t, NEW v, NEW r, Holding(h, s, e, t, v, r),
           Cardinality(Unused(h)) >= 1, NEW key \in Nat, NEW at \in Int,
           NEW x, x = FreeSv(h), NEW g, g = Ref(New(h, x, key, at), x)
    PROVE  /\ Holding(g, Append(s, x), e, t, v, r)
           /\ x \in SvIds /\ Live(g) = Live(h) \cup {x} /\ Same(h, g, Live(h)) /\ x \notin Live(h)
           /\ g[x].key = key /\ g[x].at = at /\ g[x].elems = << >>
<1> DEFINE c == Rooted(s, e, t, v, r)
<1>1. Typed(s, e, t, v, r) /\ c \in Counts /\ Exact(h, c, {})
  BY RootedIs DEF Holding
<1> HIDE DEF c
<1>2. x \in Unused(h)
  <2>1. Cardinality(Unused(h)) > 0
    BY UnusedFinite
  <2> QED BY <2>1, FreeSvUnused
<1>3. /\ x \in SvIds /\ Exact(g, Plus(c, x), {})
      /\ Live(g) = Live(h) \cup {x} /\ Same(h, g, Live(h))
      /\ g[x].key = key /\ g[x].at = at /\ g[x].elems = << >>
  BY <1>1, <1>2, NewRefExact
<1>4. x \notin Live(h)
  BY <1>1, <1>2, UnusedFree
<1>5. /\ Typed(Append(s, x), e, t, v, r)
      /\ \A y \in SvIds : Rooted(Append(s, x), e, t, v, r)[y] = Plus(c, x)[y]
  <2>1. x \in Vals
    BY <1>3 DEF Vals
  <2> QED BY <1>1, <2>1, MoreStored DEF c
<1>6. Holding(g, Append(s, x), e, t, v, r)
  BY <1>3, <1>5, HoldingFrom
<1> QED BY <1>3, <1>4, <1>6

\* Heap g is heap h without references that nobody in the engine has.
LeftWith(h, g, s, e, t, v, r) ==
    /\ Holding(g, s, e, t, v, r)
    /\ Live(g) \subseteq Live(h) /\ Same(h, g, Live(g)) /\ Unused(h) \subseteq Unused(g)

\* References are given up, and those of the engine are left.
LEMMA GivenUp ==
    ASSUME NEW h, NEW c, Exact(h, c, {}), NEW xs \in Seq(Vals),
           NEW s, NEW e, NEW t, NEW v, NEW r, Typed(s, e, t, v, r),
           \A x \in SvIds : c[x] = Rooted(s, e, t, v, r)[x] + Places(x, xs),
           NEW g, g = Unrefs(h, xs)
    PROVE  LeftWith(h, g, s, e, t, v, r)
<1> DEFINE d == Rooted(s, e, t, v, r)
<1>1. d \in Counts
  BY RootedIs
<1>2. Unreferred(h, d, g)
  BY <1>1, UnrefsExact
<1> QED BY <1>2 DEF Unreferred, Holding, LeftWith

\* What happens to a lexeme in lexing-only mode; the value may be new.
Posting(h, s, e, t, v, r, terminal, made, new, tv, h1, g) ==
    /\ Holding(h, s, e, t, v, r) /\ terminal \in Int /\ new \in {0, 1}
    /\ new = 1 => LexValue(h, Rooted(s, e, t, v, r), terminal, made)
    /\ new = 0 => made.heap = h /\ made.sv \in Live(h)
    /\ Cardinality(Unused(made.heap)) >= 1
    /\ tv = FreeSv(made.heap)
    /\ h1 = Ref(Ref(New(made.heap, tv, LHS_NAME, terminal), tv), made.sv)
    /\ g = IF new = 1 THEN Unrefs(h1, << made.sv >>) ELSE h1

\* The lists of the lexing-only mode get a name and a value.
LEMMA LexemePosted ==
    ASSUME NEW h, NEW s, NEW e, NEW t, NEW v, NEW r, NEW terminal, NEW made, NEW new,
           NEW tv, NEW h1, NEW g, Posting(h, s, e, t, v, r, terminal, made, new, tv, h1, g)
    PROVE  /\ Holding(g, s, e, Append(t, tv), Append(v, made.sv), r)
           /\ tv \in Live(g) /\ made.sv \in Live(g) /\ made.sv # tv
           /\ Live(g) \subseteq Live(made.heap) \cup {tv} /\ Same(made.heap, g, Live(g) \ {tv})
           /\ g[tv].key = LHS_NAME /\ g[tv].at = terminal /\ g[tv].elems = << >>
<1>0. /\ Holding(h, s, e, t, v, r) /\ terminal \in Int /\ new \in {0, 1}
      /\ new = 1 => LexValue(h, Rooted(s, e, t, v, r), terminal, made)
      /\ new = 0 => made.heap = h /\ made.sv \in Live(h)
      /\ Cardinality(Unused(made.heap)) >= 1
      /\ tv = FreeSv(made.heap)
      /\ h1 = Ref(Ref(New(made.heap, tv, LHS_NAME, terminal), tv), made.sv)
      /\ g = IF new = 1 THEN Unrefs(h1, << made.sv >>) ELSE h1
  BY DEF Posting
<1> USE <1>0
<1> DEFINE c == Rooted(s, e, t, v, r)
           x == made.sv
           f == made.heap
           d == IF new = 1 THEN Plus(c, x) ELSE c
           a == Ref(New(f, tv, LHS_NAME, terminal), tv)
           t1 == Append(t, tv)
           v1 == Append(v, x)
<1>1. Typed(s, e, t, v, r) /\ c \in Counts /\ Exact(h, c, {})
  BY RootedIs DEF Holding
<1>2. /\ x \in SvIds /\ x \in Vals /\ x \in Live(f) /\ Exact(f, d, {})
  BY <1>1 DEF LexValue, Vals, Live
<1>3. \A y \in SvIds : d[y] = c[y] + (IF new = 1 /\ y = x THEN 1 ELSE 0)
  <2> TAKE y \in SvIds
  <2>1. c[y] \in Nat
    BY <1>1 DEF Counts
  <2> QED BY <2>1 DEF Plus
<1>4. h1 = Ref(a, x) /\ g = IF new = 1 THEN Unrefs(h1, << x >>) ELSE h1
  OBVIOUS
<1>5. a = Ref(New(f, tv, LHS_NAME, terminal), tv) /\ tv = FreeSv(f) /\ Cardinality(Unused(f)) >= 1
  OBVIOUS
<1> HIDE DEF c, x, f, d, a
<1>6. tv \in Unused(f) /\ tv \in SvIds /\ tv \in Vals /\ tv \notin Live(f)
  <2>1. Cardinality(Unused(f)) > 0
    BY <1>5, UnusedFinite
  <2>2. tv \in Unused(f)
    BY <1>5, <2>1, FreeSvUnused
  <2>3. tv \in SvIds /\ tv \notin Live(f)
    BY <1>2, <2>2, UnusedFree
  <2> QED BY <2>2, <2>3 DEF Vals
<1>7. /\ Exact(a, Plus(d, tv), {}) /\ Live(a) = Live(f) \cup {tv} /\ Same(f, a, Live(f))
      /\ a[tv].key = LHS_NAME /\ a[tv].at = terminal /\ a[tv].elems = << >>
  <2>1. LHS_NAME \in Nat
    BY DEF LHS_NAME
  <2> QED BY <1>2, <1>5, <1>6, <2>1, NewRefExact
<1>8. /\ Exact(h1, Plus(Plus(d, tv), x), {}) /\ Live(h1) = Live(a) /\ Same(a, h1, SvIds)
  <2>1. IsLive(a, x)
    BY <1>2, <1>7 DEF IsLive
  <2>2. Referred(a, Plus(d, tv), {}, x, h1)
    BY <1>2, <1>4, <1>7, <2>1, RefExact
  <2>3. {} \ {x} = {}
    OBVIOUS
  <2> QED BY <2>2, <2>3 DEF Referred
<1>9. Typed(s, e, t1, v1, r)
  BY <1>1, <1>2, <1>6 DEF Typed
<1>10. \A y \in SvIds : /\ c[y] \in Nat /\ Places(y, << x >>) = IF y = x THEN 1 ELSE 0
                        /\ Rooted(s, e, t1, v1, r)[y] = c[y] + (IF y = tv THEN 1 ELSE 0)
                                                        + (IF y = x THEN 1 ELSE 0)
                        /\ Plus(Plus(d, tv), x)[y] = d[y] + (IF y = tv THEN 1 ELSE 0)
                                                     + (IF y = x THEN 1 ELSE 0)
  <2> TAKE y \in SvIds
  <2>1. t \in Seq(Vals) /\ v \in Seq(Vals)
    BY <1>1 DEF Typed
  <2>2. Places(y, t1) = Places(y, t) + (IF y = tv THEN 1 ELSE 0)
    BY <1>6, <2>1, PlacesAppend
  <2>3. Places(y, v1) = Places(y, v) + (IF y = x THEN 1 ELSE 0)
    BY <1>2, <2>1, PlacesAppend
  <2>4. /\ Places(y, s) \in Nat /\ Places(y, e) \in Nat /\ Places(y, t) \in Nat /\ Places(y, v) \in Nat
        /\ c[y] = Places(y, s) + Places(y, e) + Places(y, t) + Places(y, v)
                  + (IF y = r THEN 1 ELSE 0)
    BY <1>1, RootedAt DEF c
  <2>5. Rooted(s, e, t1, v1, r)[y] = Places(y, s) + Places(y, e) + Places(y, t1) + Places(y, v1)
                                     + (IF y = r THEN 1 ELSE 0)
    BY <1>9, RootedAt
  <2>6. Places(y, << x >>) = IF y = x THEN 1 ELSE 0
    BY PlacesOne
  <2>7. c[y] \in Nat
    BY <1>1 DEF Counts
  <2>8. Plus(Plus(d, tv), x)[y] = d[y] + (IF y = tv THEN 1 ELSE 0) + (IF y = x THEN 1 ELSE 0)
    BY DEF Plus
  <2> HIDE DEF t1, v1
  <2>9. Rooted(s, e, t1, v1, r)[y] = c[y] + (IF y = tv THEN 1 ELSE 0) + (IF y = x THEN 1 ELSE 0)
    BY <2>2, <2>3, <2>4, <2>5
  <2> QED BY <2>6, <2>7, <2>8, <2>9
<1> HIDE DEF t1, v1
<1>11. Holding(g, s, e, t1, v1, r) /\ Live(g) \subseteq Live(h1) /\ Same(h1, g, Live(g))
  <2>1. CASE new = 1
    <3>1. \A y \in SvIds : Plus(Plus(d, tv), x)[y] = Rooted(s, e, t1, v1, r)[y] + Places(y, << x >>)
      BY <1>3, <1>10, <2>1
    <3>2. << x >> \in Seq(Vals) /\ g = Unrefs(h1, << x >>)
      BY <1>2, <1>4, <2>1
    <3> DEFINE p == Plus(Plus(d, tv), x)
    <3>3. Exact(h1, p, {}) /\ \A y \in SvIds : p[y] = Rooted(s, e, t1, v1, r)[y] + Places(y, << x >>)
      BY <1>8, <3>1
    <3> HIDE DEF p
    <3>4. LeftWith(h1, g, s, e, t1, v1, r)
      BY <1>9, <3>2, <3>3, GivenUp
    <3> QED BY <3>4 DEF LeftWith
  <2>2. CASE new = 0
    <3>1. \A y \in SvIds : Rooted(s, e, t1, v1, r)[y] = Plus(Plus(d, tv), x)[y]
      BY <1>3, <1>10, <2>2
    <3>2. g = h1
      BY <1>4, <2>2
    <3>3. Holding(g, s, e, t1, v1, r)
      BY <1>8, <1>9, <3>1, <3>2, HoldingFrom
    <3> QED BY <3>2, <3>3 DEF Same
  <2> QED BY <2>1, <2>2
<1>12. tv \in Live(g) /\ x \in Live(g)
  <2>1. Rooted(s, e, t1, v1, r)[tv] # 0 /\ Rooted(s, e, t1, v1, r)[x] # 0
    BY <1>2, <1>6, <1>10
  <2> QED BY <1>2, <1>6, <1>11, <2>1, CountedLive DEF Holding
<1>13. Same(f, g, Live(g) \ {tv})
  <2>1. \A y \in Live(g) : y \in SvIds /\ (y # tv => y \in Live(f))
    BY <1>7, <1>8, <1>11 DEF Live
  <2> QED BY <1>7, <1>8, <1>11, <2>1, SMTT(30) DEF Same
<1>14. g[tv].key = LHS_NAME /\ g[tv].at = terminal /\ g[tv].elems = << >>
  BY <1>6, <1>7, <1>8, <1>11, <1>12, SMTT(30) DEF Same
<1>15. x # tv /\ Live(g) \subseteq Live(f) \cup {tv}
  BY <1>2, <1>6, <1>7, <1>8, <1>11
<1> QED BY <1>11, <1>12, <1>13, <1>14, <1>15 DEF x, f, t1, v1

\* A value that lives is put on the stack.
LEMMA ValuePushed ==
    ASSUME NEW h, NEW s, NEW e, NEW t, NEW v, NEW r, Holding(h, s, e, t, v, r),
           NEW x \in Vals, IsLive(h, x), NEW g, g = Unrefs(Ref(h, x), << >>)
    PROVE  /\ Holding(g, s, Append(e, x), t, v, r)
           /\ Live(g) \subseteq Live(h) /\ Same(h, g, Live(g))
<1> DEFINE c == Rooted(s, e, t, v, r)
           a == Ref(h, x)
           e1 == Append(e, x)
<1>1. Typed(s, e, t, v, r) /\ c \in Counts /\ Exact(h, c, {})
  BY RootedIs DEF Holding
<1>2. Typed(s, e1, t, v, r) /\ e \in Seq(Vals)
  BY <1>1 DEF Typed
<1> HIDE DEF a
<1>3. Exact(a, Plus(c, x), {}) /\ Live(a) = Live(h) /\ Same(h, a, SvIds)
  <2> HIDE DEF c
  <2>1. Referred(h, c, {}, x, a)
    BY <1>1, RefExact DEF a
  <2>2. {} \ {x} = {}
    OBVIOUS
  <2> QED BY <2>1, <2>2 DEF Referred
<1>4. \A y \in SvIds : Plus(c, x)[y] = Rooted(s, e1, t, v, r)[y] + Places(y, << >>)
  <2> TAKE y \in SvIds
  <2>1. Places(y, e1) = Places(y, e) + (IF y = x THEN 1 ELSE 0)
    BY <1>2, PlacesAppend
  <2> HIDE DEF e1, c
  <2>2. /\ Places(y, s) \in Nat /\ Places(y, e) \in Nat /\ Places(y, t) \in Nat /\ Places(y, v) \in Nat
        /\ c[y] = Places(y, s) + Places(y, e) + Places(y, t) + Places(y, v)
                  + (IF y = r THEN 1 ELSE 0)
    BY <1>1, RootedAt DEF c
  <2>3. Rooted(s, e1, t, v, r)[y] = Places(y, s) + Places(y, e1) + Places(y, t) + Places(y, v)
                                     + (IF y = r THEN 1 ELSE 0)
    BY <1>2, RootedAt
  <2>4. Places(y, << >>) = 0
    BY PlacesEmpty
  <2>5. Plus(c, x)[y] = c[y] + (IF y = x THEN 1 ELSE 0)
    BY DEF Plus
  <2> QED BY <2>1, <2>2, <2>3, <2>4, <2>5
<1> HIDE DEF c, e1
<1>5. g = Unrefs(a, << >>) /\ << >> \in Seq(Vals)
  BY DEF a
<1>6. Holding(g, s, e1, t, v, r) /\ Live(g) \subseteq Live(a) /\ Same(a, g, Live(g))
  <2> DEFINE p == Plus(c, x)
  <2>1. Exact(a, p, {}) /\ \A y \in SvIds : p[y] = Rooted(s, e1, t, v, r)[y] + Places(y, << >>)
    BY <1>3, <1>4
  <2> HIDE DEF p
  <2>2. LeftWith(a, g, s, e1, t, v, r)
    BY <1>2, <1>5, <2>1, GivenUp
  <2> QED BY <2>2 DEF LeftWith
<1>7. \A y \in Live(g) : y \in SvIds
  BY DEF Live
<1> QED BY <1>3, <1>6, <1>7 DEF e1, Same

\* What the engine has is less by some references, and these are given up.
LEMMA PartGivenUp ==
    ASSUME NEW h, NEW s, NEW e, NEW t, NEW v, NEW r, Holding(h, s, e, t, v, r),
           NEW s1, NEW e1, NEW t1, NEW v1, NEW r1, Typed(s1, e1, t1, v1, r1),
           NEW xs \in Seq(Vals), NEW g, g = Unrefs(h, xs),
           \A x \in SvIds :
             Places(x, s) + Places(x, e) + Places(x, t) + Places(x, v) + (IF x = r THEN 1 ELSE 0)
             = Places(x, s1) + Places(x, e1) + Places(x, t1) + Places(x, v1)
               + (IF x = r1 THEN 1 ELSE 0) + Places(x, xs)
    PROVE  LeftWith(h, g, s1, e1, t1, v1, r1)
<1> DEFINE c == Rooted(s, e, t, v, r)
<1>1. Typed(s, e, t, v, r) /\ Exact(h, c, {})
  BY DEF Holding
<1>2. \A x \in SvIds : c[x] = Rooted(s1, e1, t1, v1, r1)[x] + Places(x, xs)
  <2> TAKE x \in SvIds
  <2>1. c[x] = Places(x, s) + Places(x, e) + Places(x, t) + Places(x, v)
               + (IF x = r THEN 1 ELSE 0)
    BY <1>1, RootedAt
  <2>2. Rooted(s1, e1, t1, v1, r1)[x] = Places(x, s1) + Places(x, e1) + Places(x, t1)
                                        + Places(x, v1) + (IF x = r1 THEN 1 ELSE 0)
    BY RootedAt
  <2> QED BY <2>1, <2>2
<1> HIDE DEF c
<1> QED BY <1>1, <1>2, GivenUp

\* The lists are cleared.
LEMMA ListsCleared ==
    ASSUME NEW h, NEW s, NEW e, NEW t, NEW v, NEW r, Holding(h, s, e, t, v, r),
           NEW g, g = Unrefs(h, t \o v)
    PROVE  LeftWith(h, g, s, e, << >>, << >>, r)
<1>1. Typed(s, e, t, v, r) /\ Typed(s, e, << >>, << >>, r) /\ t \o v \in Seq(Vals)
      /\ t \in Seq(Vals) /\ v \in Seq(Vals)
  BY DEF Typed, Holding
<1>2. \A x \in SvIds :
        Places(x, s) + Places(x, e) + Places(x, t) + Places(x, v) + (IF x = r THEN 1 ELSE 0)
        = Places(x, s) + Places(x, e) + Places(x, << >>) + Places(x, << >>)
          + (IF x = r THEN 1 ELSE 0) + Places(x, t \o v)
  <2> TAKE x \in SvIds
  <2>1. Places(x, s) \in Nat /\ Places(x, e) \in Nat /\ Places(x, t) \in Nat /\ Places(x, v) \in Nat
    BY <1>1, RootedAt
  <2>2. Places(x, t \o v) = Places(x, t) + Places(x, v)
    BY <1>1, PlacesConcat
  <2>3. Places(x, << >>) = 0
    BY PlacesEmpty
  <2> QED BY <2>1, <2>2, <2>3
<1> DEFINE u == << >>
           xs == t \o v
<1>3. /\ Typed(s, e, u, u, r) /\ xs \in Seq(Vals) /\ g = Unrefs(h, xs)
      /\ \A x \in SvIds :
           Places(x, s) + Places(x, e) + Places(x, t) + Places(x, v) + (IF x = r THEN 1 ELSE 0)
           = Places(x, s) + Places(x, e) + Places(x, u) + Places(x, u)
             + (IF x = r THEN 1 ELSE 0) + Places(x, xs)
  BY <1>1, <1>2
<1> HIDE DEF u, xs
<1>4. LeftWith(h, g, s, e, u, u, r)
  BY <1>3, PartGivenUp
<1> QED BY <1>4 DEF u

\* The store is emptied: it keeps nothing, or an entry without a value.
LEMMA StoreCleared ==
    ASSUME NEW h, NEW s, NEW e, NEW t, NEW v, NEW r, Holding(h, s, e, t, v, r),
           NEW s1 \in {<< >>, << Null >>}, NEW g, g = Unrefs(h, s)
    PROVE  LeftWith(h, g, s1, e, t, v, r)
<1>1. Typed(s, e, t, v, r) /\ Typed(s1, e, t, v, r) /\ s \in Seq(Vals)
  <2>1. << >> \in Seq(Vals) /\ << Null >> \in Seq(Vals)
    BY DEF Vals
  <2>2. s1 \in Seq(Vals)
    BY <2>1
  <2> QED BY <2>2 DEF Typed, Holding
<1>2. \A x \in SvIds :
        Places(x, s) + Places(x, e) + Places(x, t) + Places(x, v) + (IF x = r THEN 1 ELSE 0)
        = Places(x, s1) + Places(x, e) + Places(x, t) + Places(x, v)
          + (IF x = r THEN 1 ELSE 0) + Places(x, s)
  <2> TAKE x \in SvIds
  <2>1. Places(x, s) \in Nat /\ Places(x, e) \in Nat /\ Places(x, t) \in Nat /\ Places(x, v) \in Nat
    BY <1>1, RootedAt
  <2>2. x # Null
    BY SvIdsAssumption DEF Null
  <2>3. Places(x, s1) = 0
    BY <2>2, PlacesEmpty, PlacesOne
  <2> QED BY <2>1, <2>3
<1> QED BY <1>1, <1>2, PartGivenUp

\* The instance gives up its result.
LEMMA ResultCleared ==
    ASSUME NEW h, NEW s, NEW e, NEW t, NEW v, NEW r, Holding(h, s, e, t, v, r),
           NEW g, g = Unrefs(h, << r >>)
    PROVE  LeftWith(h, g, s, e, t, v, Null)
<1>1. Typed(s, e, t, v, r) /\ Typed(s, e, t, v, Null) /\ << r >> \in Seq(Vals)
  BY DEF Typed, Holding, Vals
<1>2. \A x \in SvIds :
        Places(x, s) + Places(x, e) + Places(x, t) + Places(x, v) + (IF x = r THEN 1 ELSE 0)
        = Places(x, s) + Places(x, e) + Places(x, t) + Places(x, v)
          + (IF x = Null THEN 1 ELSE 0) + Places(x, << r >>)
  <2> TAKE x \in SvIds
  <2>1. Places(x, s) \in Nat /\ Places(x, e) \in Nat /\ Places(x, t) \in Nat /\ Places(x, v) \in Nat
    BY <1>1, RootedAt
  <2>2. x # Null
    BY SvIdsAssumption DEF Null
  <2>3. Places(x, << r >>) = IF x = r THEN 1 ELSE 0
    BY PlacesOne
  <2> QED BY <2>1, <2>2, <2>3
<1> DEFINE u == Null
           xs == << r >>
<1>3. /\ Typed(s, e, t, v, u) /\ xs \in Seq(Vals) /\ g = Unrefs(h, xs)
      /\ \A x \in SvIds :
           Places(x, s) + Places(x, e) + Places(x, t) + Places(x, v) + (IF x = r THEN 1 ELSE 0)
           = Places(x, s) + Places(x, e) + Places(x, t) + Places(x, v)
             + (IF x = u THEN 1 ELSE 0) + Places(x, xs)
  BY <1>1, <1>2
<1> HIDE DEF u, xs
<1>4. LeftWith(h, g, s, e, t, v, u)
  BY <1>3, PartGivenUp
<1> QED BY <1>4 DEF u

\* The instance, which has none, takes the first value of the stack, which is emptied.
LEMMA ResultTaken ==
    ASSUME NEW h, NEW s, NEW e, NEW t, NEW v, Holding(h, s, e, t, v, Null), e # << >>,
           NEW g, g = Unrefs(Ref(h, e[1]), e)
    PROVE  /\ Holding(g, s, << >>, t, v, e[1])
           /\ Live(g) \subseteq Live(h) /\ Same(h, g, Live(g))
<1> DEFINE c == Rooted(s, e, t, v, Null)
           x == e[1]
           a == Ref(h, x)
           p == Plus(c, x)
<1>1. Typed(s, e, t, v, Null) /\ Exact(h, c, {}) /\ e \in Seq(Vals) /\ 1 \in 1 .. Len(e)
  BY DEF Holding, Typed
<1>2. x \in Vals /\ IsLive(h, x)
  BY <1>1, HoldingLive
<1> HIDE DEF x
<1>3. Typed(s, << >>, t, v, x)
  BY <1>1, <1>2 DEF Typed
<1>4. \A y \in SvIds : p[y] = Rooted(s, << >>, t, v, x)[y] + Places(y, e)
  <2> TAKE y \in SvIds
  <2>1. p[y] = c[y] + (IF y = x THEN 1 ELSE 0)
    BY DEF Plus
  <2> HIDE DEF c, p
  <2>2. /\ Places(y, s) \in Nat /\ Places(y, e) \in Nat /\ Places(y, t) \in Nat /\ Places(y, v) \in Nat
        /\ c[y] = Places(y, s) + Places(y, e) + Places(y, t) + Places(y, v)
                  + (IF y = Null THEN 1 ELSE 0)
    BY <1>1, RootedAt DEF c
  <2>3. Rooted(s, << >>, t, v, x)[y] = Places(y, s) + Places(y, << >>) + Places(y, t)
                                       + Places(y, v) + (IF y = x THEN 1 ELSE 0)
    BY <1>3, RootedAt
  <2>4. Places(y, << >>) = 0
    BY PlacesEmpty
  <2>5. y # Null
    BY SvIdsAssumption DEF Null
  <2> QED BY <2>1, <2>2, <2>3, <2>4, <2>5
<1> HIDE DEF c, a
<1>5. Exact(a, p, {}) /\ Live(a) = Live(h) /\ Same(h, a, SvIds)
  <2>1. Referred(h, c, {}, x, a)
    BY <1>1, <1>2, RefExact DEF a
  <2>2. {} \ {x} = {}
    OBVIOUS
  <2> QED BY <2>1, <2>2 DEF Referred
<1> HIDE DEF p
<1>6. g = Unrefs(a, e)
  BY DEF a, x
<1>7. LeftWith(a, g, s, << >>, t, v, x)
  BY <1>1, <1>3, <1>4, <1>5, <1>6, GivenUp
<1>8. \A y \in Live(g) : y \in SvIds
  BY DEF Live
<1> QED BY <1>5, <1>7, <1>8 DEF LeftWith, Same, x

\* What happens to the values of the right hand side of a rule: they are copied, the
\* copies sifted, a value is made of them, and they and the copies are given up.
Reducing(h, s, e, t, v, r, from, args, mask, cut, h1, rid, keys, made, g) ==
    /\ Holding(h, s, e, t, v, r)
    /\ from \in 0 .. Len(e) /\ args = SubSeq(e, from + 1, Len(e))
    /\ mask \in Seq(Nat) /\ cut = Filtered(args, mask)
    /\ h1 = Unrefs(Refs(h, args), cut.gone)
    /\ rid \in Int /\ rules[rid + 1].lhs \in Int
    /\ keys = G1decode(code.semantic, rid)
    /\ keys = << A_FIRST >> \/ keys \in Seq(Keys)
    /\ keys = << A_FIRST >> => Len(mask) < Len(args)
    /\ Cardinality(Unused(h)) >= 1 + Len(keys)
    /\ made = RuleSv(h1, cut.kept, rid)
    /\ g = Unrefs(Unrefs(Ref(made.heap, made.sv), args), cut.kept)

\* The value takes the place of those of the right hand side.
LEMMA RuleStepped ==
    ASSUME NEW h, NEW s, NEW e, NEW t, NEW v, NEW r, NEW from, NEW args, NEW mask, NEW cut,
           NEW h1, NEW rid, NEW keys, NEW made, NEW g,
           Reducing(h, s, e, t, v, r, from, args, mask, cut, h1, rid, keys, made, g)
    PROVE  /\ Holding(g, s, Append(SubSeq(e, 1, from), made.sv), t, v, r)
           /\ RuleValue(h1, PlusAll(Rooted(s, e, t, v, r), cut.kept), made, cut.kept, rid, keys)
           /\ Live(h1) \subseteq Live(h) /\ Same(h, h1, Live(h1))
           /\ Live(g) \subseteq Live(made.heap) /\ Same(made.heap, g, Live(g))
<1>0. /\ Holding(h, s, e, t, v, r)
      /\ from \in 0 .. Len(e) /\ args = SubSeq(e, from + 1, Len(e))
      /\ mask \in Seq(Nat) /\ cut = Filtered(args, mask)
      /\ h1 = Unrefs(Refs(h, args), cut.gone)
      /\ rid \in Int /\ rules[rid + 1].lhs \in Int
      /\ keys = G1decode(code.semantic, rid)
      /\ keys = << A_FIRST >> \/ keys \in Seq(Keys)
      /\ keys = << A_FIRST >> => Len(mask) < Len(args)
      /\ Cardinality(Unused(h)) >= 1 + Len(keys)
      /\ made = RuleSv(h1, cut.kept, rid)
      /\ g = Unrefs(Unrefs(Ref(made.heap, made.sv), args), cut.kept)
  BY DEF Reducing
<1> USE <1>0
<1> DEFINE c == Rooted(s, e, t, v, r)
           head == SubSeq(e, 1, from)
           h0 == Refs(h, args)
           kept == cut.kept
           gone == cut.gone
           x == made.sv
           f == made.heap
           h2 == Ref(f, x)
           h3 == Unrefs(h2, args)
           e1 == Append(head, x)
<1>1. /\ Typed(s, e, t, v, r) /\ Exact(h, c, {}) /\ c \in Counts /\ e \in Seq(Vals)
      /\ Len(e) \in Nat
  <2>1. Typed(s, e, t, v, r) /\ Exact(h, c, {})
    BY DEF Holding
  <2>2. c \in Counts
    BY <2>1 DEF Exact
  <2>3. e \in Seq(Vals)
    BY <2>1 DEF Typed
  <2> QED BY <2>1, <2>2, <2>3
<1>2. /\ head \in Seq(Vals) /\ args \in Seq(Vals)
      /\ \A k \in 1 .. Len(args) : args[k] = e[from + k] /\ from + k \in 1 .. Len(e)
      /\ \A y : Places(y, e) = Places(y, head) + Places(y, args)
  <2>1. /\ SubSeq(e, 1, from) \in Seq(Vals) /\ Len(SubSeq(e, 1, from)) = from
        /\ SubSeq(e, from + 1, Len(e)) \in Seq(Vals)
        /\ Len(SubSeq(e, from + 1, Len(e))) = Len(e) - from
        /\ \A k \in 1 .. from : SubSeq(e, 1, from)[k] = e[k]
        /\ \A k \in 1 .. Len(e) - from : SubSeq(e, from + 1, Len(e))[k] = e[from + k]
        /\ \A y : Places(y, e) = Places(y, SubSeq(e, 1, from))
                                 + Places(y, SubSeq(e, from + 1, Len(e)))
    BY <1>1, PlacesParts
  <2>2. \A k \in 1 .. Len(e) - from : from + k \in 1 .. Len(e)
    BY <1>1
  <2> QED BY <2>1, <2>2
<1>3. FilteredWell(cut, args, mask)
  BY <1>2, FilteredFacts
<1>4. /\ kept \in Seq(Vals) /\ gone \in Seq(Vals) /\ Len(kept) + Len(gone) = Len(args)
      /\ Len(gone) <= Len(mask)
      /\ \A y : Places(y, args) = Places(y, kept) + Places(y, gone)
  BY <1>3 DEF FilteredWell
<1>5. \A k \in 1 .. Len(args) : IsLive(h, args[k])
  BY <1>2, HoldingLive
<1> HIDE DEF c, h0, h2, h3, head
<1>6. Exact(h0, PlusAll(c, args), {}) /\ Live(h0) = Live(h) /\ Unused(h0) = Unused(h)
      /\ Same(h, h0, SvIds)
  <2>1. AllReferred(h, c, {}, args, h0)
    BY <1>1, <1>2, <1>5, RefsExact DEF h0
  <2> QED BY <2>1 DEF AllReferred
<1>7. \A y \in SvIds :
        /\ Places(y, s) \in Nat /\ Places(y, e) \in Nat /\ Places(y, t) \in Nat /\ Places(y, v) \in Nat
        /\ Places(y, head) \in Nat /\ Places(y, args) \in Nat /\ Places(y, kept) \in Nat
        /\ Places(y, gone) \in Nat
        /\ c[y] = Places(y, s) + Places(y, e) + Places(y, t) + Places(y, v)
                  + (IF y = r THEN 1 ELSE 0)
  <2> TAKE y \in SvIds
  <2>1. /\ Places(y, s) \in Nat /\ Places(y, e) \in Nat /\ Places(y, t) \in Nat /\ Places(y, v) \in Nat
        /\ c[y] = Places(y, s) + Places(y, e) + Places(y, t) + Places(y, v)
                  + (IF y = r THEN 1 ELSE 0)
    BY <1>1, RootedAt DEF c
  <2>2. /\ Places(y, head) \in Nat /\ Places(y, args) \in Nat /\ Places(y, kept) \in Nat
        /\ Places(y, gone) \in Nat
    BY <1>2, <1>4, PlacesNat
  <2> QED BY <2>1, <2>2
<1> DEFINE ck == PlusAll(c, kept)
<1>8. ck \in Counts /\ \A y \in SvIds : ck[y] = c[y] + Places(y, kept)
  BY <1>1, <1>4, PlusCounts DEF PlusAll
<1> HIDE DEF kept, gone
<1>9. /\ Exact(h1, ck, {}) /\ Live(h1) \subseteq Live(h0) /\ Same(h0, h1, Live(h1))
      /\ Unused(h0) \subseteq Unused(h1)
  <2> DEFINE ca == PlusAll(c, args)
  <2>1. \A y \in SvIds : ca[y] = ck[y] + Places(y, gone)
    <3> TAKE y \in SvIds
    <3>1. ca[y] = c[y] + Places(y, args)
      BY DEF PlusAll
    <3>2. Places(y, args) = Places(y, kept) + Places(y, gone)
      BY <1>4
    <3>3. c[y] \in Nat
      BY <1>1 DEF Counts
    <3> HIDE DEF ca, ck
    <3>4. Places(y, kept) \in Nat /\ Places(y, gone) \in Nat
      BY <1>7
    <3>5. ck[y] = c[y] + Places(y, kept)
      BY <1>8
    <3> QED BY <3>1, <3>2, <3>3, <3>4, <3>5
  <2>2. Exact(h0, ca, {}) /\ h1 = Unrefs(h0, gone)
    BY <1>6 DEF h0, gone
  <2> HIDE DEF ca, ck
  <2>3. Unreferred(h0, ck, h1)
    BY <1>4, <1>8, <2>1, <2>2, UnrefsExact
  <2> QED BY <2>3 DEF Unreferred
<1>10. Live(h1) \subseteq Live(h) /\ Same(h, h1, Live(h1))
  <2>1. \A y \in Live(h1) : y \in SvIds
    BY DEF Live
  <2> QED BY <1>6, <1>9, <2>1 DEF Same
<1>11. \A k \in 1 .. Len(kept) : kept[k] \in Vals /\ IsLive(h1, kept[k])
  <2>1. \A y \in SvIds : Places(y, kept) <= ck[y]
    <3> TAKE y \in SvIds
    <3>1. c[y] \in Nat
      BY <1>1 DEF Counts
    <3> HIDE DEF ck
    <3>4. Places(y, kept) \in Nat
      BY <1>7
    <3>5. ck[y] = c[y] + Places(y, kept)
      BY <1>8
    <3> QED BY <3>1, <3>4, <3>5
  <2> HIDE DEF ck
  <2> QED BY <1>4, <1>9, <2>1, PlacedLive
<1>12. RuleValue(h1, ck, made, kept, rid, keys)
  <2>1. keys = << A_FIRST >> => kept # << >>
    <3> SUFFICES ASSUME keys = << A_FIRST >> PROVE kept # << >>
      OBVIOUS
    <3>1. Len(mask) < Len(args) /\ Len(mask) \in Nat /\ Len(args) \in Nat /\ Len(gone) \in Nat
          /\ Len(kept) \in Nat
      BY <1>2, <1>4
    <3>2. Len(kept) # 0
      BY <1>4, <3>1
    <3> QED BY <3>2
  <2>2. Cardinality(Unused(h1)) >= 1 + Len(keys)
    <3>1. Cardinality(Unused(h0)) <= Cardinality(Unused(h1))
      BY <1>9, UnusedFinite, FS_Subset
    <3>2. Len(keys) \in Nat
      <4>1. CASE keys = << A_FIRST >>
        BY <4>1
      <4>2. CASE keys \in Seq(Keys)
        BY <4>2
      <4> QED BY <4>1, <4>2
    <3> QED BY <1>6, <3>1, <3>2, UnusedFinite
  <2>3. made = RuleSv(h1, kept, rid) /\ \A i \in 1 .. Len(kept) : IsLive(h1, kept[i])
    BY <1>11 DEF kept
  <2> HIDE DEF ck
  <2> QED BY <1>4, <1>9, <2>1, <2>2, <2>3, RuleSvGood
<1>13. x \in Vals /\ IsLive(f, x) /\ Exact(f, ck, {x})
  BY <1>12 DEF RuleValue
<1> HIDE DEF ck, x, f
<1>14. Exact(h2, Plus(ck, x), {}) /\ Live(h2) = Live(f) /\ Same(f, h2, SvIds)
  <2>1. Referred(f, ck, {x}, x, h2)
    BY <1>13, RefExact DEF h2
  <2>2. {x} \ {x} = {}
    OBVIOUS
  <2> QED BY <2>1, <2>2 DEF Referred
<1>15. Typed(s, e1, t, v, r) /\ e1 \in Seq(Vals)
  BY <1>1, <1>2, <1>13 DEF Typed
<1> DEFINE p == Plus(ck, x)
           q == PlusAll(Rooted(s, e1, t, v, r), kept)
<1>16. \A y \in SvIds :
         /\ p[y] = q[y] + Places(y, args)
         /\ q[y] = Rooted(s, e1, t, v, r)[y] + Places(y, kept)
  <2> TAKE y \in SvIds
  <2>1. Places(y, e1) = Places(y, head) + (IF y = x THEN 1 ELSE 0)
    BY <1>2, <1>13, PlacesAppend
  <2> HIDE DEF e1
  <2>2. Rooted(s, e1, t, v, r)[y] = Places(y, s) + Places(y, e1) + Places(y, t)
                                    + Places(y, v) + (IF y = r THEN 1 ELSE 0)
    BY <1>15, RootedAt
  <2>3. p[y] = ck[y] + (IF y = x THEN 1 ELSE 0)
    BY DEF Plus
  <2>4. q[y] = Rooted(s, e1, t, v, r)[y] + Places(y, kept)
    BY DEF PlusAll
  <2>5. Places(y, e) = Places(y, head) + Places(y, args)
    BY <1>2
  <2>6. /\ Places(y, s) \in Nat /\ Places(y, e) \in Nat /\ Places(y, t) \in Nat /\ Places(y, v) \in Nat
        /\ Places(y, head) \in Nat /\ Places(y, args) \in Nat /\ Places(y, kept) \in Nat
        /\ c[y] = Places(y, s) + Places(y, e) + Places(y, t) + Places(y, v)
                  + (IF y = r THEN 1 ELSE 0)
    BY <1>7
  <2>7. ck[y] = c[y] + Places(y, kept)
    BY <1>8
  <2> HIDE DEF p, q
  <2>8. p[y] = q[y] + Places(y, args)
    <3>1. q[y] = Places(y, s) + (Places(y, head) + (IF y = x THEN 1 ELSE 0)) + Places(y, t)
                 + Places(y, v) + (IF y = r THEN 1 ELSE 0) + Places(y, kept)
      BY <2>1, <2>2, <2>4
    <3>2. p[y] = Places(y, s) + (Places(y, head) + Places(y, args)) + Places(y, t) + Places(y, v)
                 + (IF y = r THEN 1 ELSE 0) + Places(y, kept) + (IF y = x THEN 1 ELSE 0)
      BY <2>3, <2>5, <2>6, <2>7
    <3> DEFINE i == IF y = x THEN 1 ELSE 0
               j == IF y = r THEN 1 ELSE 0
               ns == Places(y, s)
               nh == Places(y, head)
               na == Places(y, args)
               nt == Places(y, t)
               nv == Places(y, v)
               nk == Places(y, kept)
               pn == p[y]
               qn == q[y]
    <3>3. /\ i \in Nat /\ j \in Nat /\ ns \in Nat /\ nh \in Nat /\ na \in Nat /\ nt \in Nat
          /\ nv \in Nat /\ nk \in Nat
      BY <2>6
    <3>4. qn = ns + (nh + i) + nt + nv + j + nk /\ pn = ns + (nh + na) + nt + nv + j + nk + i
      BY <3>1, <3>2
    <3> HIDE DEF i, j, ns, nh, na, nt, nv, nk, pn, qn
    <3>5. pn = qn + na
      BY <3>3, <3>4
    <3> QED BY <3>5 DEF pn, qn, na
  <2> QED BY <2>4, <2>8
<1>17. q \in Counts
  <2>1. Rooted(s, e1, t, v, r) \in Counts
    BY <1>15, RootedIs
  <2> QED BY <1>4, <2>1, PlusCounts
<1>18. Exact(h2, p, {})
  BY <1>14
<1> HIDE DEF p, q, e1
<1>19. /\ Exact(h3, q, {}) /\ Live(h3) \subseteq Live(h2) /\ Same(h2, h3, Live(h3))
  <2>1. Unreferred(h2, q, h3)
    BY <1>2, <1>16, <1>17, <1>18, UnrefsExact DEF h3
  <2> QED BY <2>1 DEF Unreferred
<1>20. g = Unrefs(h3, kept)
  BY DEF h3, h2, kept, x, f
<1>21. LeftWith(h3, g, s, e1, t, v, r)
  BY <1>4, <1>15, <1>16, <1>19, <1>20, GivenUp
<1>22. Live(g) \subseteq Live(f) /\ Same(f, g, Live(g))
  <2>1. \A y \in Live(g) : y \in SvIds
    BY DEF Live
  <2>2. Live(g) \subseteq Live(h3) /\ Same(h3, g, Live(g))
    BY <1>21 DEF LeftWith
  <2>3. Live(h3) \subseteq Live(h2) /\ Live(h2) = Live(f)
    BY <1>14, <1>19
  <2>4. Same(h2, h3, Live(h3)) /\ Same(f, h2, SvIds)
    BY <1>14, <1>19
  <2>5. Same(f, h3, Live(h3))
    <3>1. \A y \in Live(h3) : y \in SvIds
      BY DEF Live
    <3> QED BY <2>4, <3>1 DEF Same
  <2>6. Same(f, g, Live(g))
    BY <2>2, <2>5, SameOn
  <2> QED BY <2>2, <2>3, <2>6
<1> QED BY <1>10, <1>12, <1>21, <1>22 DEF LeftWith, e1, head, x, f, kept, ck, c

-----------------------------------------------------------------------------
(* The invariant of the evaluation                                         *)

\* The numbers of entries of the store, and the symbols found at a location.
Numbers == 0 .. Len(store) - 1
Terminals == Lexemes \cup {Symid(name) : name \in Names}

\* The values that the engine refers to.
Roots == Rooted(store, es, tokens, values, result)

\* The values count these references, and those of each other; the stack is used only by a program.
Holders ==
    /\ Holding(heap, store, es, tokens, values, result)
    /\ phase # "step" => es = << >>

\* What is read is read with the grammar of the input, and has its place in the bound.
Reading ==
    /\ l0semantic \in L0Semantics /\ inputs \in Nat
    /\ phase # "idle" => inputs > 0
    /\ inputs > 0 => Decoded /\ grammar = Parsed
    /\ phase # "gone" => locs \in Seq(Seq(Terminals \X Numbers)) /\ Len(locs) <= MaxTokens
    /\ phase \in {"trees", "event", "posted"} => Len(locs) < MaxTokens

\* Of the lexemes at a location in parser mode, each has an entry of the store; in the
\* other mode the value made last is one of the list.
Finding ==
    /\ phase = "event" => mode = "parser"
    /\ phase \in {"trees", "event"} => found \in Seq(Terminals)
    /\ phase \in {"trees", "event"} /\ mode = "parser" =>
         /\ svids \in Seq(Numbers) /\ Len(found) = Len(svids)
         /\ phase = "trees" /\ sv # Null => svids # << >>
    /\ phase = "trees" /\ mode = "lexer" /\ sv # Null =>
         found # << >> /\ sv \in SvIds /\ Places(sv, values) > 0

\* The stack has the values that the steps of the program behind it need.
Awaited(prog, k, todo, e) == todo = SubSeq(prog, k, Len(prog)) /\ Len(e) = Height(prog, k)

Stepping ==
    phase = "step" =>
      \E n \in 0 .. Len(locs) : \E prog \in Parses(n) : \E k \in 1 .. Len(prog) + 1 :
        Awaited(prog, k, steps, es)

\* The whole of it.
EvalInv == DecodeInv /\ Holders /\ Reading /\ Finding /\ Stepping

-----------------------------------------------------------------------------
(* The rules of the grammar with which input is read                       *)

\* What is found under the number of a rule of Parsed.
LEMMA ParsedRule ==
    ASSUME DecodeInv, Decoded, grammar = Parsed, NEW rid \in 0 .. Len(Parsed.rules) - 1
    PROVE  /\ rules[rid + 1].lhs \in Int
           /\ G1decode(code.mask, rid) = Parsed.rules[rid + 1].mask
           /\ G1decode(code.mask, rid) \in Seq(Nat)
           /\ G1decode(code.semantic, rid) = Parsed.rules[rid + 1].sema
           /\ G1decode(code.semantic, rid) = << A_FIRST >>
              \/ G1decode(code.semantic, rid) \in Seq(Keys)
<1> DEFINE g == Parsed
           n == Len(g.rules)
           J == Joined(Meanings(g))
<1>1. g \in Grammars /\ n \in Nat /\ GoodRules(g.rules)
  BY ParsedAssumption, CodeFacts
<1>2. rid + 1 \in 1 .. n /\ rid \in Int
  BY <1>1
<1>3. \A k \in 1 .. n : g.rules[k] \in Range(g.rules) /\ IsRule(g.rules[k])
  BY <1>1, RulesAt DEF Range
<1>4. \A k \in 1 .. n : g.rules[k].type # "brange"
  BY <1>3, ParsedAssumption
<1>5. Len(J[n]) = n
  BY <1>1, <1>4, OneEach
<1>6. rules = J[n]
  BY InvRulesAsWritten DEF RulesAsWritten, Written
<1>7. RuleFound
  BY InvRuleFound
<1>8. rid \in 0 .. Len(rules) - 1
  BY <1>5, <1>6
<1>9. /\ G1decode(code.mask, rid) = g.rules[rid + 1].mask
      /\ G1decode(code.semantic, rid) = g.rules[rid + 1].sema
  BY <1>4, <1>7, <1>8 DEF RuleFound
<1>10. J[n] \in Seq(MadeRule)
  <2>1. Meanings(g) \in Seq(Seq(MadeRule)) /\ Len(Meanings(g)) = n
    BY <1>1, MeaningsFacts
  <2>2. J \in [0 .. Len(Meanings(g)) -> Seq(MadeRule)]
    BY <2>1, JoinedFacts
  <2> HIDE DEF J, n
  <2>3. n \in 0 .. n
    BY <1>1
  <2> QED BY <2>1, <2>2, <2>3
<1>11. rules[rid + 1].lhs \in Int
  <2> HIDE DEF J, n
  <2>1. rules \in Seq(MadeRule) /\ Len(rules) = n
    BY <1>5, <1>6, <1>10
  <2>2. rules[rid + 1] \in MadeRule
    BY <1>2, <2>1
  <2>3. \A s \in Symbols : s \in Int
    BY SymbolNat
  <2> QED BY <2>2, <2>3 DEF MadeRule
<1>12. g.rules[rid + 1].mask \in Seq(Nat)
  BY <1>2, <1>3 DEF IsRule
<1>13. g.rules[rid + 1].sema = << A_FIRST >> \/ g.rules[rid + 1].sema \in Seq(Keys)
  BY <1>2, <1>3, ParsedAssumption
<1> QED BY <1>9, <1>11, <1>12, <1>13

-----------------------------------------------------------------------------
(* Steps that keep a part of the invariant                                 *)

\* Sequences over a larger set.
LEMMA SeqOver ==
    ASSUME NEW S, NEW T, S \subseteq T, NEW xs \in Seq(S)
    PROVE  xs \in Seq(T)
<1>1. Len(xs) \in Nat /\ xs \in [1 .. Len(xs) -> T]
  OBVIOUS
<1> QED BY <1>1, IsSequence

\* The code is decoded once.
LEMMA CodeKept ==
    ASSUME DecodeInv, UNCHANGED codeVars
    PROVE  DecodeInv' /\ (Decoded => Decoded') /\ grammar' = grammar
<1>1. DecodeInv'
  BY DecodeInvNext
<1> QED BY <1>1 DEF codeVars, Decoded

\* Nothing happens to the values.
LEMMA HoldersKept ==
    ASSUME Holders, UNCHANGED << heap, store, es, tokens, values, result >>,
           phase' # "step" => es' = << >>
    PROVE  Holders'
BY DEF Holders

\* With a longer store, the entries of the others have the same numbers.
LEMMA NumbersGrow ==
    ASSUME Len(store) \in Nat, Len(store') \in Nat, Len(store) <= Len(store')
    PROVE  /\ Numbers \subseteq Numbers'
           /\ \A xs \in Seq(Numbers) : xs \in Seq(Numbers')
           /\ \A xs \in Seq(Seq(Terminals \X Numbers)) : xs \in Seq(Seq(Terminals \X Numbers'))
<1>1. Numbers \subseteq Numbers'
  BY DEF Numbers
<1> DEFINE N == Numbers
           M == Numbers'
           A == Terminals \X N
           B == Terminals \X M
<1>2. N \subseteq M /\ A \subseteq B
  BY <1>1
<1> HIDE DEF N, M
<1>3. \A xs \in Seq(N) : xs \in Seq(M)
  BY <1>2, SeqOver
<1> HIDE DEF A, B
<1>4. Seq(A) \subseteq Seq(B)
  BY <1>2, SeqOver
<1>5. \A xs \in Seq(Seq(A)) : xs \in Seq(Seq(B))
  BY <1>4, SeqOver
<1> QED BY <1>1, <1>3, <1>5 DEF N, M, A, B

\* The store is a sequence.
LEMMA StoreLen ==
    ASSUME Holders
    PROVE  store \in Seq(Vals) /\ Len(store) \in Nat /\ es \in Seq(Vals) /\ Len(es) \in Nat
           /\ values \in Seq(Vals) /\ tokens \in Seq(Vals) /\ result \in Vals
           /\ Typed(store, es, tokens, values, result)
BY DEF Holders, Holding, Typed

-----------------------------------------------------------------------------
(* Programs                                                                *)

\* A parse of what was read is a program.
LEMMA ParseFacts ==
    ASSUME Reading, phase # "gone", NEW n \in 0 .. Len(locs), NEW prog \in Parses(n)
    PROVE  /\ Len(prog) \in Nat \ {0} /\ prog \in Seq(Range(prog))
           /\ prog[Len(prog)].at = 0 /\ n <= Len(locs) /\ n \in Nat /\ Fits(prog)
           /\ \A k \in 1 .. Len(prog) :
                LET s == prog[k] IN
                /\ s.do \in {"token", "nulling", "rule"}
                /\ s.at \in Nat /\ s.at + Taken(s) = Height(prog, k)
                /\ s.do = "token" => s.loc \in 1 .. n
                /\ s.do = "rule"  => /\ s.args \in Nat \ {0} /\ s.rule \in 0 .. Len(Parsed.rules) - 1
                                    /\ LET r == Parsed.rules[s.rule + 1]
                                       IN  r.sema = << A_FIRST >> => Len(r.mask) < s.args
<1>1. n \in 0 .. MaxTokens /\ n \in Nat /\ n <= Len(locs)
  <2>1. Len(locs) \in Nat /\ Len(locs) <= MaxTokens
    BY DEF Reading
  <2> QED BY <2>1, ProgramsAssumption
<1>2. prog \in Programs[n] /\ Fits(prog)
  BY DEF Parses
<1>3. /\ prog \in Seq(Range(prog)) /\ prog # << >> /\ Last(prog).at = 0
  BY <1>1, <1>2, ProgramsAssumption
<1>4. Len(prog) \in Nat \ {0} /\ Last(prog) = prog[Len(prog)]
  <2> DEFINE R == Range(prog)
  <2>1. prog \in Seq(R) /\ prog # << >>
    BY <1>3
  <2> HIDE DEF R
  <2> QED BY <2>1 DEF Last
<1>5. \A k \in 1 .. Len(prog) :
                LET s == prog[k] IN
                /\ s.do \in {"token", "nulling", "rule"}
                /\ s.at \in Nat /\ s.at + Taken(s) = Height(prog, k)
                /\ s.do = "token" => s.loc \in 1 .. n
                /\ s.do = "rule"  => /\ s.args \in Nat \ {0} /\ s.rule \in 0 .. Len(Parsed.rules) - 1
                                    /\ LET r == Parsed.rules[s.rule + 1]
                                       IN  r.sema = << A_FIRST >> => Len(r.mask) < s.args
  BY <1>1, <1>2, ProgramsAssumption
<1> QED BY <1>1, <1>2, <1>3, <1>4, <1>5

\* The rest of a sequence.
LEMMA RestFacts ==
    ASSUME NEW S, NEW xs \in Seq(S), NEW k \in 1 .. Len(xs) + 1
    PROVE  /\ SubSeq(xs, k, Len(xs)) = << >> <=> k = Len(xs) + 1
           /\ k <= Len(xs) => /\ Head(SubSeq(xs, k, Len(xs))) = xs[k]
                              /\ Tail(SubSeq(xs, k, Len(xs))) = SubSeq(xs, k + 1, Len(xs))
           /\ SubSeq(xs, 1, Len(xs)) = xs
<1> DEFINE n == Len(xs)
           r == SubSeq(xs, k, n)
           t == SubSeq(xs, k + 1, n)
<1>1. n \in Nat /\ k \in Nat \ {0} /\ k <= n + 1
  OBVIOUS
<1>2. r \in Seq(S) /\ Len(r) = n + 1 - k /\ \A i \in 1 .. Len(r) : r[i] = xs[k + i - 1]
  BY <1>1
<1>3. k <= n => t \in Seq(S) /\ Len(t) = n - k /\ \A i \in 1 .. Len(t) : t[i] = xs[k + i]
  <2> SUFFICES ASSUME k <= n
               PROVE  t \in Seq(S) /\ Len(t) = n - k /\ \A i \in 1 .. Len(t) : t[i] = xs[k + i]
    OBVIOUS
  <2>1. t \in Seq(S) /\ Len(t) = n - k
    BY <1>1
  <2>2. \A i \in 1 .. n - k : t[i] = xs[k + i]
    BY <1>1
  <2> QED BY <2>1, <2>2
<1>4. SubSeq(xs, 1, n) = xs
  OBVIOUS
<1> HIDE DEF n, r, t
<1>5. r = << >> <=> k = n + 1
  BY <1>1, <1>2
<1>6. ASSUME k <= n PROVE Head(r) = xs[k] /\ Tail(r) = t
  <2>1. Len(r) \in Nat \ {0} /\ Len(r) = (n - k) + 1
    BY <1>1, <1>2, <1>6
  <2>2. Head(r) = xs[k]
    <3>1. Head(r) = r[1] /\ 1 \in 1 .. Len(r)
      BY <1>2, <2>1
    <3>2. r[1] = xs[k + 1 - 1]
      BY <1>2, <3>1
    <3> QED BY <1>1, <3>1, <3>2
  <2>3. Tail(r) \in Seq(S) /\ Len(Tail(r)) = n - k
        /\ \A i \in 1 .. n - k : Tail(r)[i] = r[i + 1]
    BY <1>1, <1>2, <2>1
  <2>4. \A i \in 1 .. n - k : r[i + 1] = xs[k + i]
    <3> TAKE i \in 1 .. n - k
    <3>1. i + 1 \in 1 .. Len(r) /\ k + (i + 1) - 1 = k + i
      BY <1>1, <2>1
    <3> QED BY <1>2, <3>1
  <2>5. \A i \in 1 .. n - k : Tail(r)[i] = t[i]
    BY <1>3, <1>6, <2>3, <2>4
  <2> QED BY <1>3, <1>6, <2>2, <2>3, <2>5
<1> QED BY <1>4, <1>5, <1>6 DEF n, r, t

\* The step at hand, and what is left behind it.
AtStep(s, rest, e) ==
    /\ s.do \in {"token", "nulling", "rule"}
    /\ s.at \in Nat /\ s.at + Taken(s) = Len(e)
    /\ s.do = "token" => /\ s.loc \in 1 .. Len(locs)
                         /\ \E a \in 1 .. Len(locs[s.loc]) : locs[s.loc][a][1] = s.symbol
    /\ s.do = "rule"  => /\ s.args \in Nat \ {0} /\ s.rule \in 0 .. Len(Parsed.rules) - 1
                         /\ LET r == Parsed.rules[s.rule + 1]
                            IN  r.sema = << A_FIRST >> => Len(r.mask) < s.args
    /\ \A e1 : Len(e1) = s.at + 1 =>
         \E n \in 0 .. Len(locs) : \E prog \in Parses(n) : \E k \in 1 .. Len(prog) + 1 :
           Awaited(prog, k, rest, e1)
\* A program is at one of its steps, or it is done and its value is the only one.
LEMMA StepFacts ==
    ASSUME Reading, Stepping, phase = "step"
    PROVE  /\ steps # << >> => AtStep(Head(steps), Tail(steps), es)
           /\ steps = << >> => Len(es) = 1
<1>1. PICK n \in 0 .. Len(locs) : \E prog \in Parses(n) : \E k \in 1 .. Len(prog) + 1 :
           Awaited(prog, k, steps, es)
  BY DEF Stepping
<1>2. PICK prog \in Parses(n) : \E k \in 1 .. Len(prog) + 1 : Awaited(prog, k, steps, es)
  BY <1>1
<1>3. PICK k \in 1 .. Len(prog) + 1 : Awaited(prog, k, steps, es)
  BY <1>2
<1> DEFINE m == Len(prog)
           R == Range(prog)
<1>4. m \in Nat \ {0} /\ prog \in Seq(R) /\ prog[m].at = 0 /\ n <= Len(locs) /\ n \in Nat
      /\ Fits(prog)
  BY ParseFacts
<1>5. \A i \in 1 .. m :
                LET s == prog[i] IN
                /\ s.do \in {"token", "nulling", "rule"}
                /\ s.at \in Nat /\ s.at + Taken(s) = Height(prog, i)
                /\ s.do = "token" => s.loc \in 1 .. n
                /\ s.do = "rule"  => /\ s.args \in Nat \ {0} /\ s.rule \in 0 .. Len(Parsed.rules) - 1
                                    /\ LET r == Parsed.rules[s.rule + 1]
                                       IN  r.sema = << A_FIRST >> => Len(r.mask) < s.args
  BY ParseFacts
<1>6. Len(locs) \in Nat
  BY DEF Reading
<1>7. steps = SubSeq(prog, k, m) /\ Len(es) = Height(prog, k)
  BY <1>3 DEF Awaited
<1> HIDE DEF R
<1>8. /\ SubSeq(prog, k, m) = << >> <=> k = m + 1
      /\ k <= m => /\ Head(SubSeq(prog, k, m)) = prog[k]
                   /\ Tail(SubSeq(prog, k, m)) = SubSeq(prog, k + 1, m)
  BY <1>4, RestFacts
<1>9. k \in Nat \ {0} /\ k <= m + 1
  BY <1>4
<1>10. ASSUME steps = << >> PROVE Len(es) = 1
  <2>1. k = m + 1 /\ k # 1 /\ k - 1 = m
    BY <1>4, <1>7, <1>8, <1>10
  <2>2. Height(prog, k) = prog[m].at + 1
    BY <2>1 DEF Height
  <2> QED BY <1>4, <1>7, <2>2
<1>11. ASSUME steps # << >> PROVE AtStep(Head(steps), Tail(steps), es)
  <2> DEFINE s == prog[k]
             rest == SubSeq(prog, k + 1, m)
  <2>1. k \in 1 .. m /\ Head(steps) = s /\ Tail(steps) = rest
    <3>1. k # m + 1
      BY <1>7, <1>8, <1>11
    <3>2. k <= m /\ k \in 1 .. m
      <4> HIDE DEF m
      <4> QED BY <1>4, <1>9, <3>1
    <3> QED BY <1>7, <1>8, <3>2
  <2>2. /\ s.do \in {"token", "nulling", "rule"} /\ s.at \in Nat /\ s.at + Taken(s) = Len(es)
    BY <1>5, <1>7, <2>1
  <2>3. s.do = "token" => /\ s.loc \in 1 .. Len(locs)
                          /\ \E a \in 1 .. Len(locs[s.loc]) : locs[s.loc][a][1] = s.symbol
    <3> SUFFICES ASSUME s.do = "token"
                 PROVE  /\ s.loc \in 1 .. Len(locs)
                        /\ \E a \in 1 .. Len(locs[s.loc]) : locs[s.loc][a][1] = s.symbol
      OBVIOUS
    <3>1. s.loc \in 1 .. n
      BY <1>5, <2>1
    <3>2. s.loc \in 1 .. Len(locs)
      BY <1>4, <1>6, <3>1
    <3> QED BY <1>4, <2>1, <3>2 DEF Fits
  <2>4. s.do = "rule"  => /\ s.args \in Nat \ {0} /\ s.rule \in 0 .. Len(Parsed.rules) - 1
                          /\ LET r == Parsed.rules[s.rule + 1]
                             IN  r.sema = << A_FIRST >> => Len(r.mask) < s.args
    BY <1>5, <2>1
  <2>5. ASSUME NEW e1, Len(e1) = s.at + 1
        PROVE  \E n1 \in 0 .. Len(locs) : \E p1 \in Parses(n1) : \E k1 \in 1 .. Len(p1) + 1 :
                 Awaited(p1, k1, rest, e1)
    <3>1. k + 1 \in 1 .. m + 1 /\ k + 1 # 1 /\ (k + 1) - 1 = k
      BY <1>4, <2>1
    <3>2. Height(prog, k + 1) = s.at + 1
      BY <3>1 DEF Height
    <3>3. Awaited(prog, k + 1, rest, e1)
      BY <2>5, <3>2 DEF Awaited
    <3> QED BY <3>1, <3>3
  <2> HIDE DEF s, rest
  <2> QED BY <2>1, <2>2, <2>3, <2>4, <2>5 DEF AtStep
<1> QED BY <1>10, <1>11

\* A program is at its start.
LEMMA StepStart ==
    ASSUME Reading, phase # "gone", NEW n \in 0 .. Len(locs), NEW prog \in Parses(n)
    PROVE  1 \in 1 .. Len(prog) + 1 /\ Awaited(prog, 1, prog, << >>)
<1> DEFINE R == Range(prog)
<1>1. Len(prog) \in Nat \ {0} /\ prog \in Seq(R)
  BY ParseFacts
<1> HIDE DEF R
<1>2. 1 \in 1 .. Len(prog) + 1
  BY <1>1
<1>3. SubSeq(prog, 1, Len(prog)) = prog
  BY <1>1, <1>2, RestFacts
<1>4. Height(prog, 1) = 0
  BY DEF Height
<1> QED BY <1>2, <1>3, <1>4 DEF Awaited

\* The latest parses are those of a location.
LEMMA LatestAt ==
    ASSUME Len(locs) \in Nat, NEW prog \in Latest
    PROVE  \E n \in 0 .. Len(locs) : prog \in Parses(n)
<1> DEFINE N == Len(locs)
           ends == {n \in 0 .. N : Parses(n) # {}}
<1>1. ends # {} /\ prog \in Parses(Max(ends))
  BY DEF Latest
<1>2. \E x \in ends : \A y \in ends : x >= y
  <2> DEFINE Q == {j \in Nat : \E x \in ends : x >= N - j}
  <2>1. PICK e \in ends : TRUE
    BY <1>1
  <2>2. Q \in SUBSET Nat /\ Q # {}
    <3>1. e \in 0 .. N /\ N - e \in Nat /\ N - (N - e) = e
      OBVIOUS
    <3>2. N - e \in Q
      BY <2>1, <3>1
    <3> QED BY <3>2
  <2> DEFINE j == Min(Q)
  <2>3. \A q \in Q : j <= q
    <3> HIDE DEF Q
    <3>1. \E q \in Q : \A y \in Q : q <= y
      BY <2>2, LeastOf
    <3> QED BY <3>1 DEF Min
  <2>4. j \in Q
    <3> HIDE DEF Q
    <3> QED BY <2>2, MinIsIn
  <2> HIDE DEF j
  <2>5. PICK x \in ends : x >= N - j
    BY <2>4
  <2>6. ASSUME NEW y \in ends PROVE x >= y
    <3>1. y \in 0 .. N /\ N - y \in Nat /\ N - (N - y) = y
      OBVIOUS
    <3>2. N - y \in Q
      BY <3>1
    <3>3. j <= N - y /\ j \in Nat /\ x \in 0 .. N
      BY <2>3, <2>4, <3>2
    <3> QED BY <2>5, <3>1, <3>3
  <2> QED BY <2>6
<1>3. Max(ends) \in ends
  BY <1>2 DEF Max
<1> QED BY <1>1, <1>3

-----------------------------------------------------------------------------
(* The invariant holds at first                                            *)

\* No value is there, and none is referred to.
LEMMA NothingHeld ==
    ASSUME NEW h, h = [x \in SvIds |-> NoSv]
    PROVE  Holding(h, << Null >>, << >>, << >>, << >>, Null)
<1> DEFINE s == << Null >>
           z == << >>
           c == Rooted(s, z, z, z, Null)
<1>1. Typed(s, z, z, z, Null)
  BY DEF Typed, Vals
<1>2. h \in Heap
  BY NoSvIs DEF Heap
<1>3. Held(h) = {}
  <2>1. \A y \in SvIds : Len(h[y].elems) = 0
    BY NoSvIs
  <2>2. \A y \in SvIds : {y} \X (1 .. Len(h[y].elems)) = {}
    BY <2>1
  <2> QED BY <2>2 DEF Held
<1>4. \A x \in SvIds : Users(h, x) = 0
  <2>1. \A x \in SvIds : UsersOf(h, x) = {}
    BY <1>3 DEF UsersOf
  <2> QED BY <2>1, FS_EmptySet DEF Users
<1> HIDE DEF s, z
<1>5. \A x \in SvIds : c[x] = 0
  <2> TAKE x \in SvIds
  <2>1. x # Null
    BY SvIdsAssumption DEF Null
  <2>2. Places(x, s) = 0 /\ Places(x, z) = 0
    BY <2>1, PlacesEmpty, PlacesOne DEF s, z
  <2>3. c[x] = Places(x, s) + Places(x, z) + Places(x, z) + Places(x, z) + (IF x = Null THEN 1 ELSE 0)
    BY <1>1, RootedAt
  <2> QED BY <2>1, <2>2, <2>3
<1>6. c \in Counts
  BY <1>1, RootedIs
<1> HIDE DEF c
<1>7. Exact(h, c, {})
  <2>1. \A x \in SvIds : h[x] = NoSv /\ h[x].refs = 0 /\ h[x].key = Free
    BY NoSvIs
  <2> QED BY <1>2, <1>4, <1>5, <1>6, <2>1 DEF Exact
<1>8. Holding(h, s, z, z, z, Null)
  BY <1>1, <1>7 DEF Holding, c
<1> QED BY <1>8 DEF s, z

\* The invariant holds in every initial state,
LEMMA EvalInvInit == Init => EvalInv
<1> SUFFICES ASSUME Init PROVE EvalInv
  OBVIOUS
<1>1. DecodeInv
  BY DecodeInvInit DEF Init
<1>2. Holders
  <2>1. heap = [x \in SvIds |-> NoSv]
    BY DEF Init
  <2>2. Holding(heap, << Null >>, << >>, << >>, << >>, Null)
    BY <2>1, NothingHeld
  <2> QED BY <2>2 DEF Init, Holders
<1>3. Reading
  <2> DEFINE A == Terminals \X Numbers
  <2>1. locs = << >> /\ phase = "idle" /\ inputs = 0 /\ l0semantic \in L0Semantics
    BY DEF Init
  <2>2. << >> \in Seq(Seq(A)) /\ Len(<< >>) = 0 /\ 0 <= MaxTokens
    BY ProgramsAssumption
  <2> HIDE DEF A
  <2>3. locs \in Seq(Seq(A)) /\ Len(locs) <= MaxTokens
    BY <2>1, <2>2
  <2> QED BY <2>1, <2>3 DEF Reading, A
<1>4. Finding /\ Stepping
  BY DEF Init, Finding, Stepping
<1> QED BY <1>1, <1>2, <1>3, <1>4 DEF EvalInv

-----------------------------------------------------------------------------
(* Steps without a change of values                                        *)

\* Reading goes on, with a store that only grows.
LEMMA ReadingKept ==
    ASSUME DecodeInv, Reading, Holders, UNCHANGED << codeVars, l0semantic, inputs, locs >>,
           Len(store') \in Nat, Len(store) <= Len(store'), phase # "gone",
           phase = "idle" => phase' = "idle",
           phase' \in {"trees", "event", "posted"} => Len(locs) < MaxTokens
    PROVE  Reading'
<1>1. (Decoded => Decoded') /\ grammar' = grammar
  BY CodeKept
<1>2. locs' \in Seq(Seq(Terminals \X Numbers'))
  <2>1. locs \in Seq(Seq(Terminals \X Numbers))
    BY DEF Reading
  <2>2. Len(store) \in Nat
    BY StoreLen
  <2> QED BY <2>1, <2>2, NumbersGrow
<1>3. Len(locs') <= MaxTokens /\ l0semantic' \in L0Semantics /\ inputs' \in Nat
  BY DEF Reading
<1>4. inputs' > 0 => Decoded' /\ grammar' = Parsed
  BY <1>1 DEF Reading
<1>5. phase' # "idle" => inputs' > 0
  BY DEF Reading
<1>6. phase' \in {"trees", "event", "posted"} => Len(locs') < MaxTokens
  OBVIOUS
<1> HIDE DEF Reading
<1> QED BY <1>2, <1>3, <1>4, <1>5, <1>6 DEF Reading

\* The lexer and the parser go from one state to the next, without values.
Quietly ==
    \/ LexBegin \/ LexDiscard \/ LexEnd \/ Clear \/ Reject \/ Eof \/ CompleteFail
    \/ CompleteDone \/ End
\* Such a step preserves the invariant.
LEMMA QuietStep ==
    ASSUME EvalInv, Quietly
    PROVE  EvalInv'
<1>1. DecodeInv /\ Holders /\ Reading /\ Finding /\ Stepping
  BY DEF EvalInv
<1>2. /\ UNCHANGED << codeVars, mode, l0semantic, inputs, heap, store, tokens, values, locs, es, result >>
      /\ phase # "gone" /\ phase # "idle" /\ phase # "step" /\ phase' # "step"
  BY DEF Quietly, LexBegin, LexDiscard, LexEnd, Clear, Reject, Eof, CompleteFail, CompleteDone, End,
         callVars, listVars, parVars
<1>3. DecodeInv'
  BY <1>1, <1>2, CodeKept
<1>4. Holders'
  BY <1>1, <1>2, HoldersKept DEF Holders
<1>5. Reading'
  <2>1. Len(store') \in Nat /\ Len(store) <= Len(store')
    BY <1>1, <1>2, StoreLen
  <2>2. phase' \in {"trees", "event", "posted"} => Len(locs) < MaxTokens
    <3>1. CASE LexBegin
      <4>1. Len(locs) + inputs <= MaxTokens /\ inputs > 0 /\ inputs \in Nat /\ Len(locs) \in Nat
        BY <1>1, <1>2, <3>1 DEF LexBegin, Reading
      <4> QED BY <4>1, ProgramsAssumption
    <3>2. CASE ~LexBegin
      BY <1>1, <3>2 DEF Quietly, LexDiscard, LexEnd, Clear, Reject, Eof, CompleteFail, CompleteDone, End,
                        Reading
    <3> QED BY <3>1, <3>2
  <2> QED BY <1>1, <1>2, <2>1, <2>2, ReadingKept
<1>6. Stepping'
  BY <1>2 DEF Stepping
<1>7. Finding'
  <2>1. CASE LexBegin
    BY <2>1 DEF Finding, LexBegin, callVars
  <2>2. CASE LexEnd
    <3>1. UNCHANGED << found, svids, sv, values, store, mode >> /\ phase = "trees"
          /\ (phase' = "event" <=> mode = "parser") /\ phase' \in {"event", "posted"}
      BY <2>2 DEF LexEnd, lexVars, listVars, callVars
    <3>2. Numbers' = Numbers
      BY <3>1 DEF Numbers
    <3> QED BY <1>1, <3>1, <3>2 DEF Finding
  <2>3. CASE Clear
    BY <1>1, <2>3 DEF Clear, Finding, callVars, listVars
  <2>4. CASE LexDiscard \/ Reject \/ Eof \/ CompleteFail \/ CompleteDone \/ End
    <3>1. phase' \notin {"trees", "event"}
      BY <2>4 DEF LexDiscard, Reject, Eof, CompleteFail, CompleteDone, End
    <3> QED BY <3>1 DEF Finding
  <2> QED BY <2>1, <2>2, <2>3, <2>4 DEF Quietly
<1> QED BY <1>3, <1>4, <1>5, <1>6, <1>7 DEF EvalInv

\* A location more, without alternatives, or with those that were found.
LEMMA LocationRead ==
    ASSUME EvalInv, PostDone \/ ParserEnter
    PROVE  EvalInv'
<1>1. DecodeInv /\ Holders /\ Reading /\ Finding /\ Stepping
  BY DEF EvalInv
<1>2. /\ UNCHANGED << codeVars, mode, l0semantic, inputs, heap, store, tokens, values, es, result >>
      /\ phase \in {"posted", "event"} /\ phase' \in {"read", "complete"}
  BY DEF PostDone, ParserEnter, callVars, listVars
<1>3. DecodeInv' /\ (Decoded => Decoded') /\ grammar' = grammar
  BY <1>1, <1>2, CodeKept
<1>4. Holders'
  BY <1>1, <1>2, HoldersKept DEF Holders
<1>5. Stepping' /\ Finding'
  BY <1>2 DEF Stepping, Finding
<1>6. Numbers' = Numbers
  BY <1>2 DEF Numbers
<1>7. locs' \in Seq(Seq(Terminals \X Numbers)) /\ Len(locs') <= MaxTokens
  <2> DEFINE N == Numbers
             A == Terminals \X N
             S == Seq(A)
             new == [k \in 1 .. Len(found) |-> << found[k], svids[k] >>]
  <2>1. locs \in Seq(S) /\ Len(locs) < MaxTokens /\ MaxTokens \in Nat
    BY <1>1, <1>2, ProgramsAssumption DEF Reading
  <2>2. << >> \in S
    OBVIOUS
  <2>3. ASSUME phase = "event" PROVE new \in S
    <3>1. found \in Seq(Terminals) /\ svids \in Seq(N) /\ Len(svids) = Len(found)
      BY <1>1, <2>3 DEF Finding
    <3> HIDE DEF N
    <3>2. Len(found) \in Nat /\ \A k \in 1 .. Len(found) : << found[k], svids[k] >> \in A
      BY <3>1
    <3> HIDE DEF A
    <3>3. new \in [1 .. Len(found) -> A]
      BY <3>2
    <3> HIDE DEF new
    <3> QED BY <3>2, <3>3, IsSequence
  <2>4. locs' = locs \/ locs' = Append(locs, << >>) \/ (phase = "event" /\ locs' = Append(locs, new))
    BY DEF PostDone, ParserEnter
  <2> HIDE DEF S, new
  <2>5. \A y \in S : Append(locs, y) \in Seq(S) /\ Len(Append(locs, y)) <= MaxTokens
    BY <2>1
  <2>6. locs' \in Seq(S) /\ Len(locs') <= MaxTokens
    BY <2>1, <2>2, <2>3, <2>4, <2>5
  <2> QED BY <2>6 DEF S
<1>8. Reading'
  <2>1. l0semantic' \in L0Semantics /\ inputs' \in Nat /\ inputs' > 0
    BY <1>1, <1>2 DEF Reading
  <2>2. Decoded' /\ grammar' = Parsed
    BY <1>1, <1>2, <1>3, <2>1 DEF Reading
  <2>3. locs' \in Seq(Seq(Terminals \X Numbers'))
    BY <1>6, <1>7
  <2> QED BY <1>2, <1>7, <2>1, <2>2, <2>3 DEF Reading
<1> QED BY <1>3, <1>4, <1>5, <1>8 DEF EvalInv

\* A parse tree is taken.
LEMMA TreeTaken ==
    ASSUME EvalInv, CompleteTree
    PROVE  EvalInv'
<1>1. DecodeInv /\ Holders /\ Reading /\ Finding /\ Stepping
  BY DEF EvalInv
<1>2. /\ UNCHANGED << codeVars, mode, l0semantic, inputs, heap, store, tokens, values, es, result, locs >>
      /\ phase = "complete" /\ phase' = "step"
  BY DEF CompleteTree, callVars, listVars
<1>3. DecodeInv' /\ (Decoded => Decoded') /\ grammar' = grammar
  BY <1>1, <1>2, CodeKept
<1>4. es = << >>
  BY <1>1, <1>2 DEF Holders
<1>5. Holders'
  BY <1>1, <1>2, <1>4, HoldersKept DEF Holders
<1>6. Len(store') \in Nat /\ Len(store) <= Len(store')
  BY <1>1, <1>2, StoreLen
<1>7. Reading'
  BY <1>1, <1>2, <1>6, ReadingKept
<1>8. Finding'
  BY <1>2 DEF Finding
<1>9. Stepping'
  <2>1. PICK prog \in Latest : steps' = prog
    BY DEF CompleteTree
  <2>2. Len(locs) \in Nat
    BY <1>1, <1>2 DEF Reading
  <2>3. PICK n \in 0 .. Len(locs) : prog \in Parses(n)
    BY <2>1, <2>2, LatestAt
  <2>4. 1 \in 1 .. Len(prog) + 1 /\ Awaited(prog, 1, prog, << >>)
    BY <1>1, <1>2, <2>3, StepStart
  <2>5. es' = << >> /\ locs' = locs
    BY <1>2, <1>4
  <2>6. prog \in Parses(n)'
    BY <2>3, <2>5 DEF Parses, Fits
  <2>7. Awaited(prog, 1, steps', es')
    BY <2>1, <2>4, <2>5
  <2>8. n \in 0 .. Len(locs')
    BY <2>5
  <2> QED BY <2>4, <2>6, <2>7, <2>8 DEF Stepping
<1> QED BY <1>3, <1>5, <1>7, <1>8, <1>9 DEF EvalInv

-----------------------------------------------------------------------------
(* Steps of the lexer and of the handlers                                  *)

\* One more entry of the store, and its number.
LEMMA EntryAdded ==
    ASSUME Holders, NEW x, store' = Append(store, x), NEW xs \in Seq(Numbers)
    PROVE  /\ Len(store') \in Nat /\ Len(store) <= Len(store')
           /\ Append(xs, Len(store)) \in Seq(Numbers') /\ << Len(store) >> \in Seq(Numbers')
           /\ Len(Append(xs, Len(store))) = Len(xs) + 1 /\ Append(xs, Len(store)) # << >>
<1>1. store \in Seq(Vals) /\ Len(store) \in Nat
  BY StoreLen
<1>2. Len(store') = Len(store) + 1
  BY <1>1
<1> DEFINE n == Len(store)
<1>3. n \in Numbers'
  BY <1>1, <1>2 DEF Numbers
<1>4. xs \in Seq(Numbers')
  BY <1>1, <1>2, NumbersGrow
<1> DEFINE M == Numbers'
<1>5. n \in M /\ xs \in Seq(M)
  BY <1>3, <1>4
<1> HIDE DEF M, n
<1>6. Append(xs, n) \in Seq(M) /\ << n >> \in Seq(M) /\ Len(Append(xs, n)) = Len(xs) + 1
  BY <1>5
<1>7. Append(xs, n) # << >>
  BY <1>5, <1>6
<1> QED BY <1>1, <1>2, <1>6, <1>7 DEF M, n

\* What get_sv needs to know.
LEMMA LexReady ==
    ASSUME Reading, phase # "gone", NEW t \in Lexemes
    PROVE  /\ t \in Int /\ Location \in Int /\ l0semantic \in Seq(Keys) /\ Len(l0semantic) \in Nat
           /\ t \in Terminals
<1>1. Len(locs) \in Nat
  BY DEF Reading
<1>2. l0semantic \in Seq(Keys)
  BY L0Assumption DEF Reading
<1> QED BY <1>1, <1>2, LexemesAssumption DEF Location, Terminals

\* ... as does a lexeme in parser mode,
LEMMA LexParseInv ==
    ASSUME EvalInv, NEW t \in Lexemes, LexParse(t)
    PROVE  EvalInv'
<1>1. DecodeInv /\ Holders /\ Reading /\ Finding /\ Stepping
  BY DEF EvalInv
<1>2. /\ UNCHANGED << codeVars, mode, l0semantic, inputs, phase, tokens, values, es, result, locs >>
      /\ phase = "trees" /\ mode = "parser"
      /\ Room(1 + Len(l0semantic)) /\ found' = Append(found, t)
  BY DEF LexParse, callVars, listVars, parVars
<1>3. DecodeInv'
  BY <1>1, <1>2, CodeKept
<1>4. /\ found \in Seq(Terminals) /\ svids \in Seq(Numbers) /\ Len(found) = Len(svids)
      /\ sv # Null => svids # << >>
  BY <1>1, <1>2 DEF Finding
<1>5. t \in Int /\ Location \in Int /\ l0semantic \in Seq(Keys) /\ t \in Terminals
  BY <1>1, <1>2, LexReady
<1>6. found' \in Seq(Terminals) /\ Len(found') = Len(found) + 1 /\ Len(found) \in Nat
  BY <1>2, <1>4, <1>5
<1>7. Stepping'
  BY <1>2 DEF Stepping
<1>8. Holding(heap, store, es, tokens, values, result) /\ es = << >>
  BY <1>1, <1>2 DEF Holders
<1>9. CASE ~SingleSv \/ sv = Null
  <2> DEFINE made == LexSv(heap, t)
  <2>1. /\ store' = Append(store, made.sv)
        /\ heap' = Unrefs(Ref(made.heap, made.sv), << made.sv >>)
        /\ svids' = Append(svids, Len(store))
    BY <1>9 DEF LexParse
  <2>2. LexValue(heap, Roots, t, made)
    <3>1. Exact(heap, Roots, {})
      BY <1>8 DEF Holding, Roots
    <3>2. Cardinality(Unused(heap)) >= 1 + Len(l0semantic)
      BY <1>2 DEF Room
    <3> QED BY <1>5, <3>1, <3>2, LexSvGood
  <2> HIDE DEF made
  <2>3. Holding(heap', store', es', tokens', values', result')
    <3>1. LexValue(heap, Rooted(store, es, tokens, values, result), t, made)
      BY <2>2 DEF Roots
    <3>2. Holding(heap', Append(store, made.sv), es, tokens, values, result)
      BY <1>8, <2>1, <3>1, LexemeStored
    <3> QED BY <1>2, <2>1, <3>2
  <2>4. Holders'
    BY <1>2, <1>8, <2>3 DEF Holders
  <2>5. /\ Len(store') \in Nat /\ Len(store) <= Len(store')
        /\ svids' \in Seq(Numbers') /\ svids' # << >> /\ Len(svids') = Len(svids) + 1
    BY <1>1, <1>4, <2>1, EntryAdded
  <2>6. Reading'
    <3>1. Len(locs) < MaxTokens
      BY <1>1, <1>2 DEF Reading
    <3> QED BY <1>1, <1>2, <2>5, <3>1, ReadingKept
  <2>7. Finding'
    BY <1>2, <1>4, <1>6, <2>5 DEF Finding
  <2> QED BY <1>3, <1>7, <2>4, <2>6, <2>7 DEF EvalInv
<1>10. CASE ~(~SingleSv \/ sv = Null)
  <2>1. svids' = Append(svids, Last(svids)) /\ UNCHANGED << sv, store, heap >> /\ sv # Null
    BY <1>10 DEF LexParse
  <2>2. Holders'
    BY <1>1, <1>2, <2>1, HoldersKept DEF Holders
  <2>3. Reading'
    <3>1. Len(locs) < MaxTokens
      BY <1>1, <1>2 DEF Reading
    <3>2. Len(store') \in Nat /\ Len(store) <= Len(store')
      BY <1>1, <2>1, StoreLen
    <3> QED BY <1>1, <1>2, <3>1, <3>2, ReadingKept
  <2>4. Numbers' = Numbers
    BY <2>1 DEF Numbers
  <2>5. svids' \in Seq(Numbers) /\ Len(svids') = Len(svids) + 1 /\ svids' # << >>
    <3> DEFINE N == Numbers
    <3>1. svids \in Seq(N) /\ svids # << >>
      BY <1>4, <2>1
    <3> HIDE DEF N
    <3>2. Last(svids) \in N
      BY <3>1 DEF Last
    <3>3. Append(svids, Last(svids)) \in Seq(N) /\ Len(Append(svids, Last(svids))) = Len(svids) + 1
          /\ Append(svids, Last(svids)) # << >>
      BY <3>1, <3>2
    <3> QED BY <2>1, <3>3 DEF N
  <2>6. Finding'
    BY <1>2, <1>4, <1>6, <2>4, <2>5 DEF Finding
  <2> QED BY <1>3, <1>7, <2>2, <2>3, <2>6 DEF EvalInv
<1> QED BY <1>9, <1>10

\* Lists that may have been cleared, and the values that were there.
LEMMA PostedHolding ==
    ASSUME Reading, phase = "trees", NEW t \in Lexemes, NEW h, NEW tlist, NEW vlist,
           Holding(h, store, es, tlist, vlist, result),
           sv # Null => sv \in SvIds /\ Places(sv, vlist) > 0,
           Cardinality(Unused(h)) >= 2 + Len(l0semantic),
           Posted(h, t, tlist, vlist)
    PROVE  /\ Holding(heap', store, es, tokens', values', result)
           /\ sv' \in SvIds /\ Places(sv', values') > 0
<1> DEFINE isnew == ~SingleSv \/ sv = Null
           made  == IF isnew THEN LexSv(h, t) ELSE [heap |-> h, sv |-> sv]
           tv    == FreeSv(made.heap)
           h1    == Ref(Ref(New(made.heap, tv, LHS_NAME, t), tv), made.sv)
           c     == Rooted(store, es, tlist, vlist, result)
<1>1. /\ heap' = IF isnew THEN Unrefs(h1, << made.sv >>) ELSE h1
      /\ sv' = made.sv /\ tokens' = Append(tlist, tv) /\ values' = Append(vlist, made.sv)
  BY DEF Posted
<1>2. t \in Int /\ Location \in Int /\ l0semantic \in Seq(Keys) /\ Len(l0semantic) \in Nat
  BY LexReady
<1>3. Cardinality(Unused(h)) \in Nat
  BY UnusedFinite
<1>4. isnew => LexValue(h, c, t, made)
  <2> SUFFICES ASSUME isnew PROVE LexValue(h, c, t, made)
    OBVIOUS
  <2>1. Exact(h, c, {})
    BY DEF Holding
  <2>2. Cardinality(Unused(h)) >= 1 + Len(l0semantic)
    BY <1>2, <1>3
  <2>3. made = LexSv(h, t)
    OBVIOUS
  <2> HIDE DEF made, c
  <2> QED BY <1>2, <2>1, <2>2, <2>3, LexSvGood
<1>5. ~isnew => made.heap = h /\ made.sv \in Live(h) /\ made.sv = sv
  <2> SUFFICES ASSUME ~isnew PROVE sv \in Live(h)
    OBVIOUS
  <2>1. sv \in SvIds /\ Places(sv, vlist) > 0
    OBVIOUS
  <2>2. vlist \in Seq(Vals) /\ Typed(store, es, tlist, vlist, result)
    BY DEF Holding, Typed
  <2>3. c[sv] # 0
    <3>1. /\ Places(sv, store) \in Nat /\ Places(sv, es) \in Nat /\ Places(sv, tlist) \in Nat
          /\ Places(sv, vlist) \in Nat
          /\ c[sv] = Places(sv, store) + Places(sv, es) + Places(sv, tlist)
                     + Places(sv, vlist) + (IF sv = result THEN 1 ELSE 0)
      BY <2>1, <2>2, RootedAt
    <3> HIDE DEF c
    <3> QED BY <2>1, <3>1
  <2>4. Exact(h, c, {})
    BY DEF Holding
  <2> HIDE DEF c
  <2> QED BY <2>1, <2>3, <2>4, CountedLive
<1>6. Cardinality(Unused(made.heap)) >= 1
  <2>1. CASE isnew
    <3> HIDE DEF made, c
    <3>1. Cardinality(Unused(made.heap)) + 1 + Len(l0semantic) >= Cardinality(Unused(h))
      BY <1>4, <2>1 DEF LexValue
    <3>2. Cardinality(Unused(made.heap)) \in Nat
      BY UnusedFinite
    <3> QED BY <1>2, <1>3, <3>1, <3>2
  <2>2. CASE ~isnew
    <3>1. made.heap = h
      BY <1>5, <2>2
    <3> QED BY <1>2, <1>3, <3>1
  <2> QED BY <2>1, <2>2
<1>7. isnew \in BOOLEAN /\ tv = FreeSv(made.heap)
      /\ h1 = Ref(Ref(New(made.heap, tv, LHS_NAME, t), tv), made.sv)
  OBVIOUS
<1>8. isnew => made.sv \in SvIds
  BY <1>4 DEF LexValue
<1>9. ~isnew => made.sv \in SvIds
  BY <1>5 DEF Live
<1> HIDE DEF isnew, made, tv, h1
<1>10. Holding(heap', store, es, Append(tlist, tv), Append(vlist, made.sv), result)
  <2> DEFINE new == IF isnew THEN 1 ELSE 0
             g == heap'
             s == store
             e == es
             r == result
  <2>1. /\ new \in {0, 1}
        /\ new = 1 => LexValue(h, Rooted(s, e, tlist, vlist, r), t, made)
        /\ new = 0 => made.heap = h /\ made.sv \in Live(h)
        /\ g = IF new = 1 THEN Unrefs(h1, << made.sv >>) ELSE h1
        /\ Holding(h, s, e, tlist, vlist, r)
        /\ t \in Int
    BY <1>1, <1>2, <1>4, <1>5 DEF c
  <2> HIDE DEF c, g, s, e, r, new
  <2>2. Posting(h, s, e, tlist, vlist, r, t, made, new, tv, h1, g)
    BY <1>6, <1>7, <2>1 DEF Posting
  <2>3. Holding(g, s, e, Append(tlist, tv), Append(vlist, made.sv), r)
    BY <2>2, LexemePosted
  <2> QED BY <2>3 DEF g, s, e, r
<1>11. made.sv \in SvIds /\ Places(made.sv, Append(vlist, made.sv)) > 0
  <2>1. vlist \in Seq(Vals) /\ made.sv \in SvIds /\ made.sv \in Vals
    BY <1>8, <1>9 DEF Holding, Typed, Vals
  <2>2. Places(made.sv, vlist) \in Nat
    BY <2>1, PlacesNat
  <2>3. Places(made.sv, Append(vlist, made.sv)) = Places(made.sv, vlist) + 1
    BY <2>1, PlacesAppend
  <2> QED BY <2>1, <2>2, <2>3
<1> QED BY <1>1, <1>10, <1>11

\* ... a lexeme in the other mode,
LEMMA LexPostInv ==
    ASSUME EvalInv, NEW t \in Lexemes, LexPost(t)
    PROVE  EvalInv'
<1>1. DecodeInv /\ Holders /\ Reading /\ Finding /\ Stepping
  BY DEF EvalInv
<1>2. /\ UNCHANGED << codeVars, mode, l0semantic, inputs, phase, store, es, result, locs >>
      /\ phase = "trees" /\ mode = "lexer"
      /\ Cardinality(Unused(heap)) >= 2 + Len(l0semantic) /\ found' = Append(found, t)
  BY DEF LexPost, callVars, parVars, Room
<1>3. DecodeInv'
  BY <1>1, <1>2, CodeKept
<1>4. sv # Null => found # << >> /\ sv \in SvIds /\ Places(sv, values) > 0
  BY <1>1, <1>2 DEF Finding
<1>5. Stepping'
  BY <1>2 DEF Stepping
<1>6. Holding(heap, store, es, tokens, values, result) /\ es = << >>
  BY <1>1, <1>2 DEF Holders
<1>7. /\ Holding(heap', store, es, tokens', values', result)
      /\ sv' \in SvIds /\ Places(sv', values') > 0
  <2>1. CASE found = << >>
    <3> DEFINE h == Unrefs(heap, tokens \o values)
               z == << >>
    <3>1. Posted(h, t, z, z)
      BY <2>1 DEF LexPost
    <3>2. LeftWith(heap, h, store, es, z, z, result)
      BY <1>6, ListsCleared
    <3>3. Holding(h, store, es, z, z, result) /\ Unused(heap) \subseteq Unused(h)
      BY <3>2 DEF LeftWith
    <3>4. sv = Null
      BY <1>4, <2>1
    <3> HIDE DEF h, z
    <3>5. Cardinality(Unused(h)) >= 2 + Len(l0semantic)
      <4>1. IsFiniteSet(Unused(h)) /\ Cardinality(Unused(h)) \in Nat /\ Cardinality(Unused(heap)) \in Nat
        BY UnusedFinite
      <4>2. Cardinality(Unused(heap)) <= Cardinality(Unused(h))
        BY <3>3, <4>1, FS_Subset
      <4>3. Len(l0semantic) \in Nat
        BY <1>1, <1>2, LexReady
      <4> QED BY <1>2, <4>1, <4>2, <4>3
    <3> QED BY <1>1, <1>2, <3>1, <3>3, <3>4, <3>5, PostedHolding
  <2>2. CASE found # << >>
    <3>1. Posted(heap, t, tokens, values)
      BY <2>2 DEF LexPost
    <3> QED BY <1>1, <1>2, <1>4, <1>6, <3>1, PostedHolding
  <2> QED BY <2>1, <2>2
<1>8. Holders'
  BY <1>2, <1>6, <1>7 DEF Holders
<1>9. Reading'
  <2>1. Len(locs) < MaxTokens
    BY <1>1, <1>2 DEF Reading
  <2>2. Len(store') \in Nat /\ Len(store) <= Len(store')
    BY <1>1, <1>2, StoreLen
  <2> QED BY <1>1, <1>2, <2>1, <2>2, ReadingKept
<1>10. Finding'
  <2>1. found \in Seq(Terminals) /\ t \in Terminals
    BY <1>1, <1>2, LexReady DEF Finding
  <2>2. found' \in Seq(Terminals) /\ found' # << >>
    BY <1>2, <2>1
  <2> QED BY <1>2, <1>7, <2>2 DEF Finding
<1> QED BY <1>3, <1>5, <1>8, <1>9, <1>10 DEF EvalInv

\* ... match alternate,
LEMMA AlternateInv ==
    ASSUME EvalInv, NEW name \in Names, Alternate(name)
    PROVE  EvalInv'
<1>1. DecodeInv /\ Holders /\ Reading /\ Finding /\ Stepping
  BY DEF EvalInv
<1>2. /\ UNCHANGED << codeVars, mode, l0semantic, inputs, phase, tokens, values, es, result, locs, sv >>
      /\ phase = "event" /\ Room(1)
  BY DEF Alternate, callVars, listVars, parVars
<1>3. DecodeInv'
  BY <1>1, <1>2, CodeKept
<1>4. /\ found \in Seq(Terminals) /\ svids \in Seq(Numbers) /\ Len(found) = Len(svids)
      /\ mode = "parser"
  BY <1>1, <1>2 DEF Finding
<1>5. Stepping'
  BY <1>2 DEF Stepping
<1>6. Holding(heap, store, es, tokens, values, result) /\ es = << >>
  BY <1>1, <1>2 DEF Holders
<1>7. Len(locs) < MaxTokens
  BY <1>1, <1>2 DEF Reading
<1>8. CASE Symid(name) = -1
  <2>1. UNCHANGED << heap, store, found, svids >>
    BY <1>8 DEF Alternate
  <2>2. Holders'
    BY <1>1, <1>2, <2>1, HoldersKept DEF Holders
  <2>3. Len(store') \in Nat /\ Len(store) <= Len(store')
    BY <1>1, <2>1, StoreLen
  <2>4. Reading'
    BY <1>1, <1>2, <1>7, <2>3, ReadingKept
  <2>5. Finding'
    <3>1. Numbers' = Numbers
      BY <2>1 DEF Numbers
    <3> QED BY <1>2, <1>4, <2>1, <3>1 DEF Finding
  <2> QED BY <1>3, <1>5, <2>2, <2>4, <2>5 DEF EvalInv
<1>9. CASE Symid(name) # -1
  <2> DEFINE x == FreeSv(heap)
             t == Symid(name)
             f == IF clearfirst THEN << >> ELSE found
             ids == IF clearfirst THEN << >> ELSE svids
  <2>1. /\ heap' = Ref(New(heap, x, VALUE, Location), x) /\ store' = Append(store, x)
        /\ found' = Append(f, t) /\ svids' = Append(ids, Len(store))
    BY <1>9 DEF Alternate
  <2>2. Holding(heap', Append(store, x), es, tokens, values, result)
    <3>1. Cardinality(Unused(heap)) >= 1
      BY <1>2 DEF Room
    <3>2. VALUE \in Nat /\ Location \in Int
      BY <1>1, <1>2 DEF Reading, Location, VALUE
    <3> HIDE DEF x
    <3>3. x = FreeSv(heap)
      BY DEF x
    <3> QED BY <1>6, <2>1, <3>1, <3>2, <3>3, GivenStored
  <2> HIDE DEF x
  <2>3. Holders'
    BY <1>2, <1>6, <2>1, <2>2 DEF Holders
  <2>4. f \in Seq(Terminals) /\ ids \in Seq(Numbers) /\ Len(f) = Len(ids) /\ t \in Terminals
    BY <1>4 DEF Terminals
  <2> HIDE DEF f, ids, t
  <2>5. /\ Len(store') \in Nat /\ Len(store) <= Len(store')
        /\ svids' \in Seq(Numbers') /\ Len(svids') = Len(ids) + 1
    BY <1>1, <2>1, <2>4, EntryAdded
  <2>6. found' \in Seq(Terminals) /\ Len(found') = Len(f) + 1
    BY <2>1, <2>4
  <2>7. Reading'
    BY <1>1, <1>2, <1>7, <2>5, ReadingKept
  <2>8. Finding'
    BY <1>2, <1>4, <2>4, <2>5, <2>6 DEF Finding
  <2> QED BY <1>3, <1>5, <2>3, <2>7, <2>8 DEF EvalInv
<1> QED BY <1>8, <1>9

-----------------------------------------------------------------------------
(* Steps of the evaluation                                                 *)

\* What the steps leave alone.
LEMMA EvaluationFrame ==
    ASSUME EvalInv, StepToken \/ StepNulling \/ StepRule
    PROVE  /\ UNCHANGED << codeVars, mode, l0semantic, inputs, phase, tokens, values, result, locs, store >>
           /\ phase = "step" /\ steps # << >> /\ steps' = Tail(steps)
           /\ DecodeInv' /\ Reading' /\ Finding'
           /\ AtStep(Head(steps), Tail(steps), es)
           /\ Holding(heap, store, es, tokens, values, result)
<1>1. DecodeInv /\ Holders /\ Reading /\ Finding /\ Stepping
  BY DEF EvalInv
<1>2. /\ UNCHANGED << codeVars, mode, l0semantic, inputs, phase, tokens, values, result, locs, store >>
      /\ phase = "step" /\ steps # << >> /\ steps' = Tail(steps)
  BY DEF StepToken, StepNulling, StepRule, Step, callVars, listVars
<1>3. DecodeInv'
  BY <1>1, <1>2, CodeKept
<1>4. Len(store') \in Nat /\ Len(store) <= Len(store')
  BY <1>1, <1>2, StoreLen
<1>5. Reading'
  BY <1>1, <1>2, <1>4, ReadingKept
<1>6. Finding'
  BY <1>2 DEF Finding
<1>7. AtStep(Head(steps), Tail(steps), es)
  BY <1>1, <1>2, StepFacts
<1>8. Holding(heap, store, es, tokens, values, result)
  BY <1>1 DEF Holders
<1> QED BY <1>2, <1>3, <1>5, <1>6, <1>7, <1>8

\* The stack has the right height again.
LEMMA NextAwaited ==
    ASSUME UNCHANGED locs, steps' = Tail(steps), AtStep(Head(steps), Tail(steps), es),
           Len(es') = Head(steps).at + 1
    PROVE  Stepping'
<1>1. \E n \in 0 .. Len(locs) : \E prog \in Parses(n) : \E k \in 1 .. Len(prog) + 1 :
        Awaited(prog, k, Tail(steps), es')
  BY DEF AtStep
<1>2. \A n : Parses(n)' = Parses(n)
  BY DEF Parses, Fits
<1>3. \E n \in 0 .. Len(locs') : \E prog \in Parses(n)' : \E k \in 1 .. Len(prog) + 1 :
        Awaited(prog, k, steps', es')
  BY <1>1, <1>2
<1> QED BY <1>3 DEF Stepping

\* A value is put behind those on the stack.
LEMMA PushedOn ==
    ASSUME EvalInv, StepToken \/ StepNulling, NEW x \in Vals, IsLive(heap, x),
           Head(steps).at = Len(es), es' = Append(es, x), heap' = Unrefs(Ref(heap, x), << >>)
    PROVE  EvalInv'
<1>1. /\ UNCHANGED << codeVars, mode, l0semantic, inputs, phase, tokens, values, result, locs, store >>
      /\ phase = "step" /\ steps' = Tail(steps) /\ DecodeInv' /\ Reading' /\ Finding'
      /\ AtStep(Head(steps), Tail(steps), es)
      /\ Holding(heap, store, es, tokens, values, result)
  BY EvaluationFrame
<1>2. Holding(heap', store, Append(es, x), tokens, values, result)
  BY <1>1, ValuePushed
<1>3. Holders'
  BY <1>1, <1>2 DEF Holders
<1>4. Len(es') = Head(steps).at + 1
  <2>1. es \in Seq(Vals)
    BY <1>1 DEF Holding, Typed
  <2> QED BY <2>1
<1>5. Stepping'
  BY <1>1, <1>4, NextAwaited
<1> QED BY <1>1, <1>3, <1>5 DEF EvalInv

\* ... the step of a token,
LEMMA StepTokenInv ==
    ASSUME EvalInv, StepToken
    PROVE  EvalInv'
<1> DEFINE s == Head(steps)
           loc  == locs[s.loc]
           a    == CHOOSE a \in 1 .. Len(loc) : loc[a][1] = s.symbol
           svid == loc[a][2]
           x    == store[svid + 1]
<1>1. /\ AtStep(s, Tail(steps), es) /\ phase = "step"
      /\ Holding(heap, store, es, tokens, values, result)
  BY EvaluationFrame
<1>2. s.do = "token"
  BY DEF StepToken, Step
<1>3. s.at = Len(es) /\ es \in Seq(Vals) /\ store \in Seq(Vals)
  <2>1. es \in Seq(Vals) /\ store \in Seq(Vals)
    BY <1>1 DEF Holding, Typed
  <2>2. s.at \in Nat /\ s.at + Taken(s) = Len(es) /\ Taken(s) = 0
    BY <1>1, <1>2 DEF AtStep, Taken
  <2> HIDE DEF s
  <2> QED BY <2>1, <2>2
<1>4. s.loc \in 1 .. Len(locs) /\ \E i \in 1 .. Len(loc) : loc[i][1] = s.symbol
  BY <1>1, <1>2 DEF AtStep
<1>5. loc \in Seq(Terminals \X Numbers)
  <2> DEFINE A == Seq(Terminals \X Numbers)
  <2>1. locs \in Seq(A)
    BY <1>1 DEF Reading, EvalInv
  <2> HIDE DEF A, s
  <2>2. locs[s.loc] \in A
    BY <1>4, <2>1
  <2> QED BY <2>2 DEF A, s
<1>6. a \in 1 .. Len(loc)
  BY <1>4
<1>7. svid \in Numbers
  <2> DEFINE N == Numbers
             A == Terminals \X N
  <2>1. loc \in Seq(A)
    BY <1>5
  <2> HIDE DEF A, a, loc
  <2>2. loc[a] \in A
    BY <1>6, <2>1
  <2> HIDE DEF N
  <2> QED BY <2>2 DEF A, N
<1>8. svid + 1 \in 1 .. Len(store)
  <2>1. svid \in 0 .. Len(store) - 1
    BY <1>7 DEF Numbers
  <2> HIDE DEF svid
  <2> QED BY <1>3, <2>1
<1>9. x \in Vals /\ IsLive(heap, x)
  <2> HIDE DEF svid
  <2> QED BY <1>1, <1>8, HoldingLive
<1>10. /\ es' = Filled(es, s.at, x) /\ heap' = Unrefs(Ref(heap, x), Old(es, s.at))
  BY DEF StepToken
<1> HIDE DEF x
<1>11. Filled(es, Len(es), x) = Append(es, x) /\ Old(es, Len(es)) = << >>
  BY <1>3, <1>9, FilledBehind
<1>12. es' = Append(es, x) /\ heap' = Unrefs(Ref(heap, x), << >>) /\ s.at = Len(es)
  BY <1>3, <1>10, <1>11
<1> QED BY <1>9, <1>12, PushedOn

\* ... of a symbol without input,
LEMMA StepNullingInv ==
    ASSUME EvalInv, StepNulling
    PROVE  EvalInv'
<1> DEFINE s == Head(steps)
<1>1. /\ AtStep(s, Tail(steps), es) /\ phase = "step"
      /\ Holding(heap, store, es, tokens, values, result)
  BY EvaluationFrame
<1>2. s.do = "nulling"
  BY DEF StepNulling, Step
<1>3. s.at = Len(es) /\ es \in Seq(Vals)
  <2>1. es \in Seq(Vals)
    BY <1>1 DEF Holding, Typed
  <2>2. s.at \in Nat /\ s.at + Taken(s) = Len(es) /\ Taken(s) = 0
    BY <1>1, <1>2 DEF AtStep, Taken
  <2> HIDE DEF s
  <2> QED BY <2>1, <2>2
<1>4. Null \in Vals /\ IsLive(heap, Null) /\ Ref(heap, Null) = heap
  BY DEF Vals, IsLive, Ref
<1>5. /\ es' = Filled(es, s.at, Null) /\ heap' = Unrefs(heap, Old(es, s.at))
  BY DEF StepNulling
<1>6. Filled(es, Len(es), Null) = Append(es, Null) /\ Old(es, Len(es)) = << >>
  BY <1>3, <1>4, FilledBehind
<1>7. es' = Append(es, Null) /\ heap' = Unrefs(Ref(heap, Null), << >>) /\ s.at = Len(es)
  BY <1>3, <1>4, <1>5, <1>6
<1> QED BY <1>4, <1>7, PushedOn

\* ... of a rule,
LEMMA StepRuleInv ==
    ASSUME EvalInv, StepRule
    PROVE  EvalInv'
<1> DEFINE s    == Head(steps)
           rid  == s.rule
           from == s.at
           args == SubSeq(es, from + 1, from + s.args)
           mask == G1decode(code.mask, rid)
           keys == G1decode(code.semantic, rid)
           cut  == Filtered(args, mask)
           h1   == Unrefs(Refs(heap, args), cut.gone)
           made == RuleSv(h1, cut.kept, rid)
<1>1. /\ UNCHANGED << codeVars, mode, l0semantic, inputs, phase, tokens, values, result, locs, store >>
      /\ phase = "step" /\ steps' = Tail(steps) /\ DecodeInv' /\ Reading' /\ Finding'
      /\ AtStep(s, Tail(steps), es)
      /\ Holding(heap, store, es, tokens, values, result)
  BY EvaluationFrame
<1>2. s.do = "rule" /\ Room(1 + Len(keys))
  BY DEF StepRule, Step
<1>3. /\ es' = Append(SubSeq(es, 1, from), made.sv)
      /\ heap' = Unrefs(Unrefs(Ref(made.heap, made.sv), SubSeq(es, from + 1, Len(es))), cut.kept)
  BY DEF StepRule
<1>4. es \in Seq(Vals) /\ Len(es) \in Nat
  BY <1>1 DEF Holding, Typed
<1>5. /\ rid \in 0 .. Len(Parsed.rules) - 1 /\ s.args \in Nat \ {0}
      /\ LET r == Parsed.rules[rid + 1] IN r.sema = << A_FIRST >> => Len(r.mask) < s.args
  BY <1>1, <1>2 DEF AtStep
<1>6. from \in Nat /\ from + s.args = Len(es)
  BY <1>1, <1>2 DEF AtStep, Taken
<1>7. /\ rules[rid + 1].lhs \in Int /\ mask \in Seq(Nat) /\ mask = Parsed.rules[rid + 1].mask
      /\ keys = Parsed.rules[rid + 1].sema
      /\ keys = << A_FIRST >> \/ keys \in Seq(Keys)
  <2>1. DecodeInv /\ Decoded /\ grammar = Parsed
    BY <1>1 DEF EvalInv, Reading
  <2> HIDE DEF rid
  <2> QED BY <1>5, <2>1, ParsedRule
<1>8. from \in 0 .. Len(es) /\ args = SubSeq(es, from + 1, Len(es))
  <2> DEFINE n == s.args
             m == Len(es)
  <2>1. n \in Nat /\ m \in Nat /\ from + n = m /\ from \in Nat
    BY <1>4, <1>5, <1>6
  <2> HIDE DEF n, from
  <2>2. from \in 0 .. m
    BY <2>1
  <2> HIDE DEF m
  <2>3. SubSeq(es, from + 1, from + s.args) = SubSeq(es, from + 1, Len(es))
    <3> DEFINE i == from + 1
               k == from + s.args
    <3>1. k = Len(es)
      BY <1>6
    <3> HIDE DEF i, k
    <3>2. SubSeq(es, i, k) = SubSeq(es, i, Len(es))
      BY <3>1
    <3> QED BY <3>2 DEF i, k
  <2>4. args = SubSeq(es, from + 1, Len(es))
    BY <2>3, Zenon
  <2>5. from \in 0 .. Len(es)
    BY <2>2 DEF m
  <2> HIDE DEF args
  <2> QED BY <2>4, <2>5
<1>9. Len(args) = s.args
  <2>1. Len(args) = Len(es) - from
    <3> HIDE DEF args, from
    <3>1. from \in 0 .. Len(es) /\ es \in Seq(Vals)
      BY <1>4, <1>8
    <3>2. Len(SubSeq(es, from + 1, Len(es))) = Len(es) - from
      BY <3>1, PlacesParts
    <3> QED BY <1>8, <3>2
  <2> DEFINE n == s.args
             m == Len(es)
  <2>2. n \in Nat /\ m \in Nat /\ from + n = m /\ from \in Nat /\ Len(args) = m - from
    BY <1>4, <1>5, <1>6, <2>1
  <2> HIDE DEF n, m, from, args
  <2>3. Len(args) = n
    BY <2>2
  <2> QED BY <2>3 DEF n
<1>10. keys = << A_FIRST >> => Len(mask) < Len(args)
  BY <1>5, <1>7, <1>9
<1>11. /\ cut = Filtered(args, mask) /\ h1 = Unrefs(Refs(heap, args), cut.gone)
       /\ made = RuleSv(h1, cut.kept, rid) /\ keys = G1decode(code.semantic, rid)
       /\ rid \in Int
       /\ heap' = Unrefs(Unrefs(Ref(made.heap, made.sv), args), cut.kept)
       /\ Cardinality(Unused(heap)) >= 1 + Len(keys)
  <2>1. rid \in Int
    BY <1>5
  <2>2. heap' = Unrefs(Unrefs(Ref(made.heap, made.sv), args), cut.kept)
    <3> HIDE DEF made, cut
    <3> QED BY <1>3, <1>8
  <2>3. Cardinality(Unused(heap)) >= 1 + Len(keys)
    BY <1>2 DEF Room
  <2> HIDE DEF s, from, mask
  <2> QED BY <2>1, <2>2, <2>3
<1>12. /\ Holding(heap', store, Append(SubSeq(es, 1, from), made.sv), tokens, values, result)
       /\ RuleValue(h1, PlusAll(Rooted(store, es, tokens, values, result), cut.kept), made, cut.kept, rid, keys)
       /\ Live(h1) \subseteq Live(heap) /\ Same(heap, h1, Live(h1))
       /\ Live(heap') \subseteq Live(made.heap) /\ Same(made.heap, heap', Live(heap'))
  <2> DEFINE g == heap'
             h == heap
             st == store
             e == es
             t == tokens
             v == values
             r == result
  <2> HIDE DEF s, rid, from, args, mask, keys, cut, h1, made
  <2>1. g = Unrefs(Unrefs(Ref(made.heap, made.sv), args), cut.kept)
        /\ h1 = Unrefs(Refs(h, args), cut.gone) /\ Cardinality(Unused(h)) >= 1 + Len(keys)
        /\ args = SubSeq(e, from + 1, Len(e)) /\ from \in 0 .. Len(e)
        /\ Holding(h, st, e, t, v, r)
    BY <1>1, <1>8, <1>11
  <2> HIDE DEF g, h, st, e, t, v, r
  <2>2. /\ Holding(g, st, Append(SubSeq(e, 1, from), made.sv), t, v, r)
        /\ RuleValue(h1, PlusAll(Rooted(st, e, t, v, r), cut.kept), made, cut.kept, rid, keys)
        /\ Live(h1) \subseteq Live(h) /\ Same(h, h1, Live(h1))
        /\ Live(g) \subseteq Live(made.heap) /\ Same(made.heap, g, Live(g))
    <3>1. Reducing(h, st, e, t, v, r, from, args, mask, cut, h1, rid, keys, made, g)
      BY <1>7, <1>10, <1>11, <2>1 DEF Reducing
    <3> QED BY <3>1, RuleStepped
  <2> QED BY <2>2 DEF g, h, st, e, t, v, r
<1>13. Holders'
  <2>1. Holding(heap', store', es', tokens', values', result')
    BY <1>1, <1>3, <1>12
  <2> QED BY <1>1, <2>1 DEF Holders
<1>14. Len(es') = from + 1
  <2>1. es' \in Seq(Vals) /\ es' = Append(SubSeq(es, 1, from), made.sv)
    BY <1>3, <1>12 DEF Holding, Typed
  <2>2. SubSeq(es, 1, from) \in Seq(Vals) /\ Len(SubSeq(es, 1, from)) = from
    BY <1>4, <1>8, PlacesParts
  <2> DEFINE p == SubSeq(es, 1, from)
  <2>3. p \in Seq(Vals) /\ Len(p) = from /\ es' = Append(p, made.sv)
    BY <2>1, <2>2
  <2> HIDE DEF p, from, made
  <2> QED BY <2>3
<1>15. Stepping'
  BY <1>1, <1>14, NextAwaited
<1> QED BY <1>1, <1>13, <1>15 DEF EvalInv

\* ... and the end of a tree.
LEMMA TreeDoneInv ==
    ASSUME EvalInv, TreeDone
    PROVE  EvalInv'
<1>1. DecodeInv /\ Holders /\ Reading /\ Finding /\ Stepping
  BY DEF EvalInv
<1>2. /\ UNCHANGED << codeVars, mode, l0semantic, inputs, tokens, values, locs, store >>
      /\ phase = "step" /\ steps = << >> /\ phase' = "complete"
      /\ heap' = Unrefs(Ref(Unrefs(heap, << result >>), es[1]), es)
      /\ result' = es[1] /\ es' = << >>
  BY DEF TreeDone, callVars, listVars
<1>3. DecodeInv'
  BY <1>1, <1>2, CodeKept
<1>4. Len(store') \in Nat /\ Len(store) <= Len(store')
  BY <1>1, <1>2, StoreLen
<1>5. Reading'
  BY <1>1, <1>2, <1>4, ReadingKept
<1>6. Finding' /\ Stepping'
  BY <1>2 DEF Finding, Stepping
<1>7. es # << >>
  <2>1. Len(es) = 1
    BY <1>1, <1>2, StepFacts
  <2> QED BY <2>1
<1>8. Holders'
  <2> DEFINE h == Unrefs(heap, << result >>)
  <2>1. Holding(heap, store, es, tokens, values, result)
    BY <1>1 DEF Holders
  <2>2. Holding(h, store, es, tokens, values, Null)
    BY <2>1, ResultCleared DEF LeftWith
  <2>3. heap' = Unrefs(Ref(h, es[1]), es)
    BY <1>2
  <2> HIDE DEF h
  <2>4. Holding(heap', store, << >>, tokens, values, es[1])
    BY <1>7, <2>2, <2>3, ResultTaken
  <2> QED BY <1>2, <2>4 DEF Holders
<1> QED BY <1>3, <1>5, <1>6, <1>8 DEF EvalInv

-----------------------------------------------------------------------------
(* Steps of the instance                                                   *)

\* The next input preserves the invariant,
LEMMA ProcessInv ==
    ASSUME EvalInv, Process
    PROVE  EvalInv'
<1>1. DecodeInv /\ Holders /\ Reading /\ Finding /\ Stepping
  BY DEF EvalInv
<1>2. /\ UNCHANGED << codeVars, mode, l0semantic, tokens, values, es, result >>
      /\ phase = "idle" /\ Decoded /\ grammar = Parsed /\ phase' = "read"
      /\ inputs' = inputs + 1 /\ locs' = << >>
  BY DEF Process, listVars
<1>3. DecodeInv' /\ (Decoded => Decoded') /\ grammar' = grammar
  BY <1>1, <1>2, CodeKept
<1>4. Reading'
  <2> DEFINE A == Terminals \X Numbers'
  <2>1. << >> \in Seq(Seq(A)) /\ Len(<< >>) = 0 /\ 0 <= MaxTokens
    BY ProgramsAssumption
  <2> HIDE DEF A
  <2>2. locs' \in Seq(Seq(A)) /\ Len(locs') <= MaxTokens
    BY <1>2, <2>1
  <2>3. l0semantic' \in L0Semantics /\ inputs' \in Nat /\ inputs' > 0
    BY <1>1, <1>2 DEF Reading
  <2>4. Decoded' /\ grammar' = Parsed
    BY <1>2, <1>3
  <2> QED BY <1>2, <2>2, <2>3, <2>4 DEF Reading, A
<1>5. Finding' /\ Stepping'
  BY <1>2 DEF Finding, Stepping
<1>6. Holders'
  <2>1. Holding(heap, store, es, tokens, values, result) /\ es = << >>
    BY <1>1, <1>2 DEF Holders
  <2>2. CASE done
    <3>1. heap' = Unrefs(heap, store) /\ store' = << Null >>
      BY <2>2 DEF Process
    <3> DEFINE s1 == << Null >>
    <3>2. s1 \in {<< >>, << Null >>}
      OBVIOUS
    <3> HIDE DEF s1
    <3>3. LeftWith(heap, heap', s1, es, tokens, values, result)
      BY <2>1, <3>1, <3>2, StoreCleared
    <3>4. Holding(heap', store', es', tokens', values', result')
      BY <1>2, <3>1, <3>3 DEF LeftWith, s1
    <3> QED BY <1>2, <2>1, <3>4 DEF Holders
  <2>3. CASE ~done
    <3>1. UNCHANGED << heap, store >>
      BY <2>3 DEF Process
    <3> QED BY <1>1, <1>2, <2>1, <3>1, HoldersKept
  <2> QED BY <2>2, <2>3
<1> QED BY <1>3, <1>4, <1>5, <1>6 DEF EvalInv

\* ... as does the end of the instance,
LEMMA DestroyInv ==
    ASSUME EvalInv, Destroy
    PROVE  EvalInv'
<1>1. DecodeInv /\ Holders /\ Reading /\ Finding /\ Stepping
  BY DEF EvalInv
<1>2. /\ UNCHANGED << codeVars, mode, l0semantic, inputs, es >>
      /\ phase = "idle" /\ inputs > 0 /\ phase' = "gone"
      /\ heap' = Unrefs(Unrefs(Unrefs(heap, << result >>), tokens \o values), store)
      /\ result' = Null /\ tokens' = << >> /\ values' = << >> /\ store' = << >>
  BY DEF Destroy, callVars
<1>3. DecodeInv' /\ (Decoded => Decoded') /\ grammar' = grammar
  BY <1>1, <1>2, CodeKept
<1>4. Reading'
  BY <1>1, <1>2, <1>3 DEF Reading
<1>5. Finding' /\ Stepping'
  BY <1>2 DEF Finding, Stepping
<1>6. Holders'
  <2> DEFINE h == Unrefs(heap, << result >>)
             g == Unrefs(h, tokens \o values)
             z == << >>
             t == tokens
             v == values
  <2>1. Holding(heap, store, es, t, v, result) /\ es = << >>
    BY <1>1, <1>2 DEF Holders
  <2>2. Holding(h, store, es, t, v, Null)
    BY <2>1, ResultCleared DEF LeftWith
  <2>3. g = Unrefs(h, t \o v) /\ heap' = Unrefs(g, store) /\ z \in {<< >>, << Null >>}
    BY <1>2
  <2> HIDE DEF h, g, t, v
  <2>4. LeftWith(h, g, store, es, << >>, << >>, Null)
    BY <2>2, <2>3, ListsCleared
  <2>5. Holding(g, store, es, z, z, Null)
    BY <2>4 DEF LeftWith
  <2> HIDE DEF z
  <2>6. LeftWith(g, heap', z, es, z, z, Null)
    BY <2>3, <2>5, StoreCleared
  <2>7. Holding(heap', store', es', tokens', values', result')
    BY <1>2, <2>6 DEF LeftWith, z
  <2> QED BY <1>2, <2>1, <2>7 DEF Holders
<1> QED BY <1>3, <1>4, <1>5, <1>6 DEF EvalInv

\* ... an instruction of the grammar,
LEMMA DecodeStepInv ==
    ASSUME EvalInv, DecodeStep
    PROVE  EvalInv'
<1>1. DecodeInv /\ Holders /\ Reading /\ Finding /\ Stepping
  BY DEF EvalInv
<1>2. /\ UNCHANGED << mode, l0semantic, inputs, phase, heap, store, tokens, values, es, result, locs >>
      /\ Decode
  BY DEF DecodeStep, callVars, parVars, listVars, lexVars
<1>3. DecodeInv'
  BY <1>1, <1>2, DecodeInvNext
<1>4. ~Decoded
  BY <1>2 DEF Decoded, Decode, Setup, Prio, Pris, Quant, Bran, Done, Fetched
<1>5. inputs = 0 /\ phase = "idle"
  <2>1. inputs \in Nat /\ ~(inputs > 0) /\ (phase # "idle" => inputs > 0)
    BY <1>1, <1>4 DEF Reading
  <2> QED BY <2>1
<1>6. Holders'
  BY <1>1, <1>2, HoldersKept DEF Holders
<1>7. Numbers' = Numbers
  BY <1>2 DEF Numbers
<1>8. Reading'
  BY <1>1, <1>2, <1>5, <1>7 DEF Reading
<1>9. Finding' /\ Stepping'
  BY <1>2, <1>5 DEF Finding, Stepping
<1> QED BY <1>3, <1>6, <1>8, <1>9 DEF EvalInv

\* ... and nothing at all.
LEMMA StutterInv ==
    ASSUME EvalInv, UNCHANGED vars
    PROVE  EvalInv'
<1>1. DecodeInv /\ Holders /\ Reading /\ Finding /\ Stepping
  BY DEF EvalInv
<1>2. UNCHANGED << codeVars, mode, l0semantic, inputs, phase, heap, store, tokens, values, es,
                   result, locs, steps, found, svids, sv >>
  BY DEF vars
<1>3. DecodeInv' /\ (Decoded => Decoded') /\ grammar' = grammar
  BY <1>1, <1>2, CodeKept
<1>4. Holders'
  BY <1>1, <1>2, HoldersKept DEF Holders
<1>5. Numbers' = Numbers /\ \A n : Parses(n)' = Parses(n)
  BY <1>2 DEF Numbers, Parses, Fits
<1>6. Reading'
  BY <1>1, <1>2, <1>3, <1>5 DEF Reading
<1>7. Finding'
  BY <1>1, <1>2, <1>5 DEF Finding
<1>8. Stepping'
  BY <1>1, <1>2, <1>5 DEF Stepping
<1> QED BY <1>3, <1>4, <1>6, <1>7, <1>8 DEF EvalInv

\* Every step of the engine preserves the invariant.
LEMMA EvalInvNext ==
    ASSUME EvalInv, [Next]_vars
    PROVE  EvalInv'
<1>1. CASE UNCHANGED vars
  BY <1>1, StutterInv
<1>2. CASE DecodeStep
  BY <1>2, DecodeStepInv
<1>3. CASE Lex
  <2>1. CASE LexBegin \/ LexDiscard \/ LexEnd
    BY <2>1, QuietStep DEF Quietly
  <2>2. CASE PostDone
    BY <2>2, LocationRead
  <2>3. ASSUME NEW t \in Lexemes, LexParse(t) PROVE EvalInv'
    BY <2>3, LexParseInv
  <2>4. ASSUME NEW t \in Lexemes, LexPost(t) PROVE EvalInv'
    BY <2>4, LexPostInv
  <2> QED BY <1>3, <2>1, <2>2, <2>3, <2>4 DEF Lex
<1>4. CASE Handler
  <2>1. CASE Clear
    BY <2>1, QuietStep DEF Quietly
  <2>2. ASSUME NEW name \in Names, Alternate(name) PROVE EvalInv'
    BY <2>2, AlternateInv
  <2> QED BY <1>4, <2>1, <2>2 DEF Handler
<1>5. CASE Parse
  <2>1. CASE Reject \/ Eof \/ CompleteFail \/ CompleteDone
    BY <2>1, QuietStep DEF Quietly
  <2>2. CASE ParserEnter
    BY <2>2, LocationRead
  <2>3. CASE CompleteTree
    BY <2>3, TreeTaken
  <2>4. CASE StepToken
    BY <2>4, StepTokenInv
  <2>5. CASE StepNulling
    BY <2>5, StepNullingInv
  <2>6. CASE StepRule
    BY <2>6, StepRuleInv
  <2>7. CASE TreeDone
    BY <2>7, TreeDoneInv
  <2> QED BY <1>5, <2>1, <2>2, <2>3, <2>4, <2>5, <2>6, <2>7 DEF Parse
<1>6. CASE Process
  BY <1>6, ProcessInv
<1>7. CASE End
  BY <1>7, QuietStep DEF Quietly
<1>8. CASE Destroy
  BY <1>8, DestroyInv
<1> QED BY <1>1, <1>2, <1>3, <1>4, <1>5, <1>6, <1>7, <1>8 DEF Next

\* In every state of an engine the values count the references that there are, the
\* numbers of the store and the steps of the valuator fit to what they are used with,
\* and the instructions are decoded as they were written (lexer.c:788-863,
\* parser.c:253-382, 395-458, store.c, sem_sva.c).
THEOREM EvaluationInvariant == Spec => []EvalInv
<1>1. EvalInv /\ [Next]_vars => EvalInv'
  BY EvalInvNext
<1> QED BY <1>1, EvalInvInit, PTL DEF Spec

\* The invariant says of each value that its count is the number of its users.
LEMMA InvSvRefsExact == EvalInv => SvRefsExact
<1> SUFFICES ASSUME EvalInv PROVE SvRefsExact
  OBVIOUS
<1> DEFINE s == store
           e == es
           t == tokens
           v == values
           r == result
           outer == store \o es \o tokens \o values \o << result >>
<1>1. Typed(s, e, t, v, r) /\ Exact(heap, Rooted(s, e, t, v, r), {})
  BY DEF EvalInv, Holders, Holding
<1>2. SvRefsExact = \A x \in SvIds :
          LET users == Places(x, outer) + Users(heap, x)
          IN  /\ heap[x].refs = users
              /\ heap[x].key # Twice
              /\ (heap[x].key = Free) <=> (users = 0)
  BY DEF SvRefsExact, Users, UsersOf
<1>3. ASSUME NEW x \in SvIds
      PROVE  Places(x, outer) = Rooted(s, e, t, v, r)[x] /\ Places(x, outer) \in Nat
  <2> HIDE DEF s, e, t, v, r
  <2>1. s \in Seq(Vals) /\ e \in Seq(Vals) /\ t \in Seq(Vals) /\ v \in Seq(Vals) /\ << r >> \in Seq(Vals)
    BY <1>1 DEF Typed
  <2> DEFINE one == << r >>
             a == s \o e
             b == a \o t
             c == b \o v
             d == c \o one
  <2>2. one \in Seq(Vals)
    BY <2>1
  <2>3. Places(x, one) = IF x = r THEN 1 ELSE 0
    BY PlacesOne
  <2> HIDE DEF one
  <2>4. a \in Seq(Vals)
    BY <2>1
  <2>5. Places(x, a) = Places(x, s) + Places(x, e)
    BY <2>1, PlacesConcat
  <2> HIDE DEF a
  <2>6. b \in Seq(Vals)
    BY <2>1, <2>4
  <2>7. Places(x, b) = Places(x, a) + Places(x, t)
    BY <2>1, <2>4, PlacesConcat
  <2> HIDE DEF b
  <2>8. c \in Seq(Vals)
    BY <2>1, <2>6
  <2>9. Places(x, c) = Places(x, b) + Places(x, v)
    BY <2>1, <2>6, PlacesConcat
  <2> HIDE DEF c
  <2>10. Places(x, d) = Places(x, c) + Places(x, one)
    BY <2>2, <2>8, PlacesConcat
  <2>11. /\ Places(x, s) \in Nat /\ Places(x, e) \in Nat /\ Places(x, t) \in Nat /\ Places(x, v) \in Nat
         /\ Rooted(s, e, t, v, r)[x] = Places(x, s) + Places(x, e) + Places(x, t)
                                       + Places(x, v) + (IF x = r THEN 1 ELSE 0)
    BY <1>1, RootedAt
  <2>12. outer = d
    BY DEF s, e, t, v, r, a, b, c, d, one
  <2> HIDE DEF d, outer
  <2> QED BY <2>3, <2>5, <2>7, <2>9, <2>10, <2>11, <2>12
<1> HIDE DEF outer
<1>4. ASSUME NEW x \in SvIds
      PROVE  LET users == Places(x, outer) + Users(heap, x)
             IN  /\ heap[x].refs = users
                 /\ heap[x].key # Twice
                 /\ (heap[x].key = Free) <=> (users = 0)
  <2> HIDE DEF s, e, t, v, r
  <2> DEFINE c == Rooted(s, e, t, v, r)
             p == Places(x, outer)
             u == Users(heap, x)
  <2>1. heap \in Heap /\ c \in Counts
    BY <1>1 DEF Exact
  <2>2. /\ heap[x].refs = c[x] + u /\ heap[x].key \in Nat \cup {Free}
        /\ heap[x].key = Free => heap[x] = NoSv
        /\ heap[x].key # Free => heap[x].refs # 0
    BY <1>1 DEF Exact
  <2>3. p = c[x] /\ p \in Nat /\ u \in Nat
    BY <1>3, <2>1, UsersNat
  <2> HIDE DEF c, p, u
  <2>4. heap[x].refs = p + u
    BY <2>2, <2>3
  <2>5. heap[x].key # Twice
    BY <2>2 DEF Free, Twice
  <2>6. (heap[x].key = Free) <=> (p + u = 0)
    BY <2>2, <2>4, NoSvIs
  <2> QED BY <2>4, <2>5, <2>6 DEF p, u
<1> QED BY <1>2, <1>4

\* The count of a value is the number of its users, and a value lives exactly as long
\* as it has one: nothing leaks, and nothing is released twice (sem.c:310-338,
\* sem_sva.c).
THEOREM ReferencesExact == Spec => []SvRefsExact
BY EvaluationInvariant, InvSvRefsExact, PTL
=============================================================================
