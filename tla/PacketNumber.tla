----------------------------- MODULE PacketNumber -----------------------------
(***************************************************************************)
(* The packet number generator of util/packet_number.c.  It hands out      *)
(* ascending numbers and, at a distance it draws with rand(), leaves one   *)
(* out, so that a peer which acknowledges a number it never saw can be     *)
(* told.  Numbers are unsigned and wrap at Modulus.                        *)
(***************************************************************************)
EXTENDS Integers, FiniteSets

CONSTANTS
  Modulus,      \* 2^32 in the code: packet_number_t is a uint32_t
  First,        \* init
  Period,       \* period
  Divisor,      \* 0xFFFF / 2
  Rands,        \* what rand() may return
  MallocFails,  \* whether the allocation of a history node may fail
  MaxConsumed   \* bound: numbers handed out or left out

Number == 0 .. Modulus - 1

ASSUME ModulusAssumption == Modulus \in Nat \ {0}
ASSUME FirstAssumption == First \in Number
ASSUME DrawAssumption == Period \in Nat \ {0} /\ Divisor \in Nat \ {0} /\ Rands \subseteq Nat
ASSUME MallocAssumption == MallocFails \in BOOLEAN
ASSUME BoundAssumption == MaxConsumed \in Nat

VARIABLES
  next,       \* next: the number handed out next
  skip,       \* skip: the number left out next
  history,    \* history: the numbers pnum_gener_existed finds
  issued,     \* history variable: numbers handed out
  skipped,    \* history variable: numbers left out
  consumed    \* history variable: how many numbers went either way

vars == <<next, skip, history, issued, skipped, consumed>>

Plus(a, b) == (a + b) % Modulus

Succ(p) == IF p = Modulus - 1 THEN 0 ELSE p + 1

(* Mutant of SkipFrom: the draw is not scaled down.                        *)
SkipFromUnscaled(from, num) == Plus(from, 2 + ((num * (Period - 1)) % Modulus))

(* __generate_skip: the product is computed in packet_number_t.            *)
SkipFrom(from, num) ==
  Plus(from, 2 + ((num * (Period - 1)) % Modulus) \div Divisor)

Init ==
  /\ next = First
  /\ \E num \in Rands : skip = SkipFrom(First, num)
  /\ history = {}
  /\ issued = {}
  /\ skipped = {}
  /\ consumed = 0

(* Mutant of AddHistory: the number that is left out is recorded.          *)
AddHistorySkipped(p) == history' = history \cup {Succ(p)}

(* __add_history.  Its result is not looked at.                            *)
AddHistory(p) ==
  \/ history' = history \cup {p}
  \/ MallocFails /\ UNCHANGED history

(* pnum_gener_pop where the successor is not, or is, the number to leave   *)
(* out.                                                                    *)
PopPlain ==
  /\ Succ(next) # skip
  /\ next' = Succ(next)
  /\ consumed' = consumed + 1
  /\ UNCHANGED <<skip, history, skipped>>

(* Mutants of PopSkipping: no new number is drawn; the number to leave out *)
(* is not stepped over.                                                    *)
PopSkippingOnce ==
  /\ Succ(next) = skip
  /\ AddHistory(next)
  /\ next' = Succ(skip)
  /\ skipped' = skipped \cup {skip}
  /\ consumed' = consumed + 2
  /\ UNCHANGED skip

PopSkippingNot ==
  /\ Succ(next) = skip
  /\ AddHistory(next)
  /\ next' = skip
  /\ skipped' = skipped \cup {skip}
  /\ consumed' = consumed + 2
  /\ \E num \in Rands : skip' = SkipFrom(next', num)

PopSkipping ==
  /\ Succ(next) = skip
  /\ AddHistory(next)
  /\ next' = Succ(skip)
  /\ skipped' = skipped \cup {skip}
  /\ consumed' = consumed + 2
  /\ \E num \in Rands : skip' = SkipFrom(next', num)

Pop ==
  /\ consumed < MaxConsumed
  /\ issued' = issued \cup {next}
  /\ PopPlain \/ PopSkipping

(* pnum_gener_existed                                                      *)
Existed(p) == p \in history

Next == Pop

Spec == Init /\ [][Next]_vars

-----------------------------------------------------------------------------
TypeOK ==
  /\ next \in Number
  /\ skip \in Number
  /\ history \subseteq Number
  /\ issued \subseteq Number
  /\ skipped \subseteq Number
  /\ consumed \in Nat

(* How far q is ahead of p.                                                *)
Ahead(p, q) == IF q >= p THEN q - p ELSE q + Modulus - p

(* The longest run of numbers that are handed out between two left out.    *)
LongestRun == 2 + (Modulus - 1) \div Divisor

(* Until the numbers have gone round once, each one is handed out at most  *)
(* once, and never one that was left out before.                           *)
NeverReused ==
  [][consumed' <= Modulus =>
       /\ (issued' \ issued) \cap skipped' = {}
       /\ issued' # issued]_vars

(* Until then what was handed out or left out is an unbroken run of        *)
(* numbers from First on: the generator loses no number.                   *)
Unbroken ==
  consumed <= Modulus =>
    issued \cup skipped = {p \in Number : Ahead(First, p) < consumed}

(* The number to leave out is always ahead and near: no increment jumps    *)
(* over it, so the generator never stops leaving numbers out.              *)
SkipAhead == Ahead(next, skip) \in 1 .. LongestRun

(* Among any LongestRun + 1 numbers in a row one is left out, and of two   *)
(* in a row never both.                                                    *)
LeftOutRegularly ==
  consumed <= Modulus =>
    \A p \in Number :
      /\ Ahead(First, p) + LongestRun < consumed =>
           \E q \in skipped : Ahead(p, q) <= LongestRun
      /\ p \in skipped /\ Ahead(First, p) + 1 < consumed => Succ(p) \notin skipped

(* What pnum_gener_existed finds was handed out, just before a number that *)
(* was left out.                                                           *)
ExistedBeforeGap ==
  \A p \in Number : Existed(p) => p \in issued /\ Succ(p) \in skipped
=============================================================================
