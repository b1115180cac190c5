----------------------------- MODULE RTSettings -----------------------------
(***************************************************************************)
(* The RTSettings of a McKube CR as the program reads them: the validating *)
(* webhook's checks (internal/webhook/rt_validator.go), and the amount and *)
(* the cores Reconcile books for them                                      *)
(* (internal/controller/mckube_controller.go).                             *)
(*                                                                         *)
(* A Core string is the sequence of its parts between commas.  A part has  *)
(* the number of its dashes and the numbers around the first one, or       *)
(* NoNumber where Sscanf reads none.                                       *)
(***************************************************************************)
EXTENDS Integers, SequencesExt

NoNumber == -1

Parts == [dashes : Nat, first : Nat \cup {NoNumber}, last : Nat \cup {NoNumber}]

RTSettingsType == [period : Int, low : Int, hi : Int, core : Seq(Parts)]

ValidWithoutRatio(s) ==                          \* mutant: no 95 % check
    /\ s.period > 0
    /\ s.low > 0 /\ s.hi > 0
    /\ s.low <= s.hi /\ s.hi <= s.period

\* int(float64(Period) * 0.95) is the quotient for every period up to a second.
\* The check of the core's format cannot fail.
validateRTSettings(s) ==
    /\ s.period > 0
    /\ s.low > 0 /\ s.low <= s.period
    /\ s.hi > 0 /\ s.hi <= s.period
    /\ s.low <= s.hi
    /\ s.hi <= (95 * s.period) \div 100

DefaultMillis == 100

Truncated(a, b) == IF a >= 0 THEN a \div b ELSE -((-a) \div b)

cpuMillis(s, runtime) ==
    LET exact == IF s.period > 0 THEN Truncated(1000 * runtime, s.period) ELSE 0
    IN  IF exact = 0 THEN DefaultMillis ELSE exact

Number(n) == IF n = NoNumber THEN 0 ELSE n

CoresUpToLast(part) ==                           \* mutant: i < end
    [i \in 1 .. Number(part.last) - Number(part.first) |->
        Number(part.first) + i - 1]

\* A range of one dash counts what is no number as 0, a part of more dashes
\* is skipped, and so is a single core that is no number.
CoresOfRange(part) ==
    [i \in 1 .. Number(part.last) - Number(part.first) + 1 |->
        Number(part.first) + i - 1]

CoresOfPart(part) ==
    CASE part.dashes = 1 -> CoresOfRange(part)
      [] part.dashes = 0 /\ part.first # NoNumber -> <<part.first>>
      [] OTHER -> <<>>

parseCoreSet(core) == FlattenSeq([i \in DOMAIN core |-> CoresOfPart(core[i])])

-----------------------------------------------------------------------------
\* What the comment of parseCoreSet calls a core set: numbers and ranges.
WellFormed(core) ==
    \A i \in DOMAIN core :
        /\ core[i].dashes \in {0, 1} /\ core[i].first # NoNumber
        /\ core[i].dashes = 1 => core[i].first <= core[i].last

\* The cores such a string names.
Named(core) ==
    UNION {IF core[i].dashes = 1 THEN core[i].first .. core[i].last
                                 ELSE {core[i].first} : i \in DOMAIN core}
=============================================================================
