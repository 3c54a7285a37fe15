----------------------------- MODULE GrammarCode -----------------------------
(***************************************************************************)
(* The form in which a grammar reaches the C engine.  The generator        *)
(* (gen-common/runtime-c.tcl) writes the rules of the G1 grammar as 16 bit *)
(* instructions, and the masks and semantics of the rules as vectors; the  *)
(* engine (runtime-c/spec.c) executes the instructions to build the        *)
(* libmarpa grammar, finds masks and semantics by rule number, and, for    *)
(* its reports (runtime-c/progress.c), the rule behind a number.           *)
(*                                                                         *)
(* A rule number is nothing but the count of the rules made before: that   *)
(* the two sides agree on it is what the properties are about.  A          *)
(* definition whose comment starts with "Mutant" is a wrong version of the *)
(* one it precedes, for the mutation runs.                                 *)
(***************************************************************************)
EXTENDS Integers, Sequences, FiniteSets, SequencesExt

CONSTANTS
    Grammars,  \* [start, rules]: what the generator is given.
    NoSep,     \* The separator of a list that has none.
    Lexemes,   \* The lexemes; as names, their ranks in the order of bytes,
    Dict       \* ... and their ranks in the order of a dictionary.

Priority(lhs, rhs, mask, sema) ==
    [type |-> "priority", lhs |-> lhs, rhs |-> rhs, mask |-> mask, sema |-> sema]
Quantified(lhs, rhs, pos, sep, proper, sema) ==
    [type |-> "quantified", lhs |-> lhs, rhs |-> << rhs >>, mask |-> << >>, sema |-> sema,
     pos |-> pos, sep |-> sep, proper |-> proper]
Brange(lhs, start, stop) ==
    [type |-> "brange", lhs |-> lhs, rhs |-> << start, stop >>, mask |-> << >>, sema |-> << >>]

VARIABLES
    grammar,  \* The grammar the parser was generated from.
    code,     \* What was made of it: .rcode, .g1mask and .g1semantic.
    pc,       \* The next of them; 0 when all are done.
    ssz,      \* The size of the scratch area.
    lastlhs,  \* The left hand side that short instructions reuse,
    lpc,      \* ... and the instruction it comes from.
    rules,    \* The rules of the libmarpa grammar.
    rd        \* rule_data: instruction and detail of each rule.

codeVars == << grammar, code, pc, ssz, lastlhs, lpc, rules, rd >>

-----------------------------------------------------------------------------
(* Words                                                                   *)

High == 4096   \* Four bits of instruction, twelve of detail.
Byte == 256

Symbols == 0 .. High - 1

\* What the generator is given, within the limits that it checks (Limit12).  A list
\* without separator cannot be proper.
IsRule(r) ==
    /\ r.type \in {"priority", "quantified", "brange"}
    /\ r.lhs \in Symbols
    /\ r.rhs \in Seq(Symbols) /\ r.mask \in Seq(Nat) /\ r.sema \in Seq(Nat)
    /\ r.type = "priority" => Len(r.rhs) < High
    /\ r.type = "quantified" =>
         /\ Len(r.rhs) = 1
         /\ r.pos \in {0, 1} /\ r.proper \in {0, 1} /\ r.sep \in Symbols \cup {NoSep}
         /\ r.sep = NoSep => r.proper = 0
    /\ r.type = "brange" =>
         /\ Len(r.rhs) = 2
         /\ r.rhs[1] < Byte /\ r.rhs[2] < Byte /\ r.rhs[1] <= r.rhs[2]

ASSUME GrammarsAssumption ==
    /\ NoSep \notin Symbols
    /\ \A g \in Grammars : /\ g.start \in Symbols
                           /\ g.rules \in Seq(Range(g.rules))
                           /\ \A r \in Range(g.rules) : IsRule(r)

Cmd(t, v) == ((t % 16) * High) + (v % High)
Command(x) == x \div High
Detail(x) == x % High
Boxr(a, b) == a * Byte + b

SETUP == 0
DONE == 1
PRIO == 2
PRIS == 3
QUANT == 4  \* QUN, +1: at least one, QUP; +2: with separator, QUNS and QUPS.
BRAN == 8

-----------------------------------------------------------------------------
(* The generator: oo::class Rules                                          *)

\* P_priority, P_quantified, P_brange: the instruction for a rule behind others,
\* of which the last one that was written in full has left hand side `last`.
Instruction(r, last) ==
    CASE r.type = "priority" /\ r.lhs = last -> << Cmd(PRIS, Len(r.rhs)) >> \o r.rhs
      [] r.type = "priority" /\ r.lhs # last -> << Cmd(PRIO, Len(r.rhs)), r.lhs >> \o r.rhs
      [] r.type = "quantified" /\ r.sep = NoSep -> << Cmd(QUANT + r.pos, r.lhs), r.rhs[1] >>
      [] r.type = "quantified" /\ r.sep # NoSep ->
           << Cmd(QUANT + 2 + r.pos, r.lhs), r.rhs[1], Cmd(r.proper, r.sep) >>
      [] r.type = "brange" -> << Cmd(BRAN, r.lhs), Boxr(r.rhs[1], r.rhs[2]) >>

Added(acc, r) ==
    [words |-> acc.words \o Instruction(r, acc.last),
     last  |-> IF r.type = "priority" THEN r.lhs ELSE acc.last,
     pad   |-> IF r.type = "priority" /\ Len(r.rhs) > acc.pad THEN Len(r.rhs) ELSE acc.pad]

\* ... for the first rules: for none, for one, and so on.
Adding(rs) ==
    LET acc[k \in 0 .. Len(rs)] ==
          IF k = 0 THEN [words |-> << >>, last |-> -1, pad |-> 0] ELSE Added(acc[k-1], rs[k])
    IN  acc

\* content, after start: the instructions of all rules.
Code(g) ==
    LET all == Adding(g.rules)[Len(g.rules)]
    IN  << Cmd(SETUP, all.pad) >> \o all.words \o << Cmd(DONE, g.start) >>

\* The first sequences one behind the other: none, one, and so on.
Joined(ss) ==
    LET joined[k \in 0 .. Len(ss)] == IF k = 0 THEN << >> ELSE joined[k-1] \o ss[k] IN joined

\* A vector with its length in front.
Counted(v) == << Len(v) >> \o v

\* Finalize: one vector for all rules, or a table of references and the distinct
\* vectors behind it, in some order.  Where `empty` allows it (oo::class Mask),
\* reference 0 stands for the empty vector.
PerRule(vectors, empty) ==
    LET stored == SetToSeq({Counted(v) : v \in Range(vectors)}
                           \ (IF empty THEN {<< 0 >>} ELSE {}))
        Place(v) == CHOOSE s \in 1 .. Len(stored) : stored[s] = Counted(v)
        Ref(v) == IF empty /\ v = << >> THEN 0
                  ELSE Len(vectors) + Len(Joined(stored)[Place(v) - 1])
    IN  IF Cardinality(Range(vectors)) = 1
        THEN << 0 >> \o Counted(vectors[1])
        ELSE << 1 >> \o [r \in 1 .. Len(vectors) |-> Ref(vectors[r])] \o Joined(stored)[Len(stored)]

Masks(g) == PerRule([r \in 1 .. Len(g.rules) |-> g.rules[r].mask], TRUE)
Semantics(g) == PerRule([r \in 1 .. Len(g.rules) |-> g.rules[r].sema], FALSE)

-----------------------------------------------------------------------------
(* marpatcl_rtc_spec_setup                                                 *)

Word(k) == code.rules[pc + k]
Fetched(cmd) == pc # 0 /\ Command(Word(0)) = cmd

\* marpa_g_rule_new and marpa_g_sequence_new.
Rule(lhs, rhs) == [lhs |-> lhs, rhs |-> rhs, min |-> -1, sep |-> NoSep, proper |-> 0]

\* PUSH
Push(detail) == << [pc |-> pc, arg |-> detail] >>

Setup ==
    /\ Fetched(SETUP)
    /\ ssz' = Detail(Word(0))
    /\ pc' = pc + 1
    /\ UNCHANGED << grammar, code, lastlhs, lpc, rules, rd >>

\* Mutant: the left hand side is not kept for the short instructions.
PrioForgetful ==
    /\ Fetched(PRIO)
    /\ LET n == Detail(Word(0))
       IN  /\ n <= ssz
           /\ rules' = Append(rules, Rule(Word(1), [k \in 1 .. n |-> Word(1 + k)]))
           /\ rd' = rd \o Push(0)
           /\ lpc' = pc
           /\ pc' = pc + 2 + n
    /\ UNCHANGED << grammar, code, ssz, lastlhs >>

Prio ==
    /\ Fetched(PRIO)
    /\ LET n == Detail(Word(0))
       IN  /\ n <= ssz
           /\ rules' = Append(rules, Rule(Word(1), [k \in 1 .. n |-> Word(1 + k)]))
           /\ rd' = rd \o Push(0)
           /\ lastlhs' = Word(1)
           /\ lpc' = pc
           /\ pc' = pc + 2 + n
    /\ UNCHANGED << grammar, code, ssz >>

\* The short form names no left hand side.
Pris ==
    /\ Fetched(PRIS)
    /\ LET n == Detail(Word(0))
       IN  /\ n <= ssz
           /\ rules' = Append(rules, Rule(lastlhs, [k \in 1 .. n |-> Word(k)]))
           /\ rd' = rd \o Push(lpc)
           /\ pc' = pc + 1 + n
    /\ UNCHANGED << grammar, code, ssz, lastlhs, lpc >>

Quant ==
    /\ \E q \in 0 .. 3 :
         /\ Fetched(QUANT + q)
         /\ rules' = Append(rules,
              [lhs |-> Detail(Word(0)), rhs |-> << Word(1) >>, min |-> q % 2,
               sep    |-> IF q < 2 THEN NoSep ELSE Detail(Word(2)),
               proper |-> IF q < 2 THEN 0 ELSE Command(Word(2))])
         /\ pc' = pc + (IF q < 2 THEN 2 ELSE 3)
    /\ rd' = rd \o Push(0)
    /\ UNCHANGED << grammar, code, ssz, lastlhs, lpc >>

\* Mutant: the instruction is recorded once for all of its rules.
BranOnce ==
    /\ Fetched(BRAN)
    /\ LET start == Word(1) \div Byte
           stop  == Word(1) % Byte
       IN  /\ rules' = rules \o [k \in 1 .. stop - start + 1 |->
                                    Rule(Detail(Word(0)), << start + k - 1 >>)]
           /\ rd' = rd \o Push(start)
    /\ pc' = pc + 2
    /\ UNCHANGED << grammar, code, ssz, lastlhs, lpc >>

\* A byte range is as many rules as it has bytes.
Bran ==
    /\ Fetched(BRAN)
    /\ LET start == Word(1) \div Byte
           stop  == Word(1) % Byte
       IN  /\ rules' = rules \o [k \in 1 .. stop - start + 1 |->
                                    Rule(Detail(Word(0)), << start + k - 1 >>)]
           /\ rd' = rd \o [k \in 1 .. stop - start + 1 |-> [pc |-> pc, arg |-> start + k - 1]]
    /\ pc' = pc + 2
    /\ UNCHANGED << grammar, code, ssz, lastlhs, lpc >>

Done ==
    /\ Fetched(DONE)
    /\ pc' = 0
    /\ UNCHANGED << grammar, code, ssz, lastlhs, lpc, rules, rd >>

DecodeInit ==
    /\ grammar \in Grammars
    /\ code = [rules |-> Code(grammar), mask |-> Masks(grammar), semantic |-> Semantics(grammar)]
    /\ pc = 1 /\ ssz = 0 /\ lastlhs = 0 /\ lpc = 0
    /\ rules = << >> /\ rd = << >>

Decode == Setup \/ Prio \/ Pris \/ Quant \/ Bran \/ Done

\* On its own; in Evaluation it is what the engine does first.
DecodeSpec == DecodeInit /\ [][Decode]_codeVars

Decoded == pc = 0

-----------------------------------------------------------------------------
(* Looking things up by rule number, from 0                                *)

\* marpatcl_rtc_spec_g1decode
G1decode(coding, rule) ==
    LET at == IF coding[1] = 0 THEN 1 ELSE 1 + coding[1 + rule + 1]
    IN  IF coding[1] # 0 /\ coding[1 + rule + 1] = 0 THEN << >>
        ELSE SubSeq(coding, at + 2, at + 1 + coding[at + 1])

\* decode_rule of progress.c: left and right hand side, from the instruction.
Behind(words, entry) ==
    LET at  == entry.pc
        cmd == Command(words[at])
        n   == Detail(words[at])
    IN  CASE cmd = PRIO -> [lhs |-> words[at + 1], rhs |-> SubSeq(words, at + 2, at + 1 + n)]
          [] cmd = PRIS -> [lhs |-> words[entry.arg + 1], rhs |-> SubSeq(words, at + 1, at + n)]
          [] cmd = BRAN -> [lhs |-> n, rhs |-> << entry.arg >>]
          [] OTHER      -> [lhs |-> n, rhs |-> << words[at + 1] >>]
DecodeRule(rule) == Behind(code.rules, rd[rule + 1])

-----------------------------------------------------------------------------
(* Looking up a lexeme by name                                             *)

\* LexemeMap: the table of the names, sorted with lsort -dict.
Lmap == SetToSortSeq(Lexemes, LAMBDA a, b : Dict[a] < Dict[b])

\* marpatcl_rtc_spec_symid: a binary search that compares with strcmp.  The result
\* is the symbol in the table, which here is the name itself.
Symid(name) ==
    LET search[low \in 1 .. Len(Lmap) + 1, high \in 0 .. Len(Lmap)] ==
          LET mid == (low + high) \div 2
          IN  IF low > high THEN -1
              ELSE IF Lmap[mid] = name THEN name
              ELSE IF Lmap[mid] > name THEN search[low, mid - 1]
              ELSE search[mid + 1, high]
    IN  search[1, Len(Lmap)]

-----------------------------------------------------------------------------
(* Properties                                                              *)

\* The rules that a rule of the grammar stands for.
Meant(r) ==
    CASE r.type = "priority"   -> << Rule(r.lhs, r.rhs) >>
      [] r.type = "quantified" -> << [lhs |-> r.lhs, rhs |-> r.rhs, min |-> r.pos, sep |-> r.sep,
                                    proper |-> r.proper] >>
      [] r.type = "brange"     -> [k \in 1 .. r.rhs[2] - r.rhs[1] + 1 |->
                                      Rule(r.lhs, << r.rhs[1] + k - 1 >>)]
Meanings(g) == [k \in 1 .. Len(g.rules) |-> Meant(g.rules[k])]
Written(g) == Joined(Meanings(g))[Len(g.rules)]

\* The instruction at hand is one that the engine knows, all of it is there, and its
\* right hand side fits into the scratch area (the assertions of spec.c:102-218).
Width(cmd, n) ==
    CASE cmd \in {SETUP, DONE}                      -> 1
      [] cmd = PRIO                                 -> 2 + n
      [] cmd = PRIS                                 -> 1 + n
      [] cmd \in {QUANT, QUANT + 1, BRAN}           -> 2
      [] cmd \in {QUANT + 2, QUANT + 3}             -> 3
Executable ==
    /\ pc \in 1 .. Len(code.rules)
    /\ LET cmd == Command(Word(0))
           n   == Detail(Word(0))
       IN  /\ cmd \in SETUP .. BRAN
           /\ pc + Width(cmd, n) <= Len(code.rules) + 1
           /\ cmd \in {PRIO, PRIS} => n <= ssz

\* The rules that the engine makes are the ones of the grammar, in their order, so
\* that libmarpa gives them the numbers under which masks, semantics and names were
\* written; and no instruction is left unexecuted (spec.c:63-226).
RulesAsWritten ==
    /\ IsPrefix(rules, Written(grammar))
    /\ Decoded => rules = Written(grammar)
    /\ ~Decoded => Executable

\* What is found under the number of a rule is what was written for that rule: its
\* mask, its semantics, and what the progress report shows of it (spec.c:268-331,
\* progress.c:38-79).
RuleFound ==
    Decoded =>
      /\ Len(rd) = Len(rules)
      /\ \A r \in 0 .. Len(rules) - 1 :
           DecodeRule(r) = [lhs |-> rules[r + 1].lhs, rhs |-> rules[r + 1].rhs]
      /\ (\A k \in 1 .. Len(grammar.rules) : grammar.rules[k].type # "brange") =>
           \A r \in 0 .. Len(rules) - 1 :
             /\ G1decode(code.mask, r) = grammar.rules[r + 1].mask
             /\ G1decode(code.semantic, r) = grammar.rules[r + 1].sema
=============================================================================
