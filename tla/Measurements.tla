----------------------------- MODULE Measurements -----------------------------
(***************************************************************************)
(* The measurement catalogue that requirement review, normalization and    *)
(* scoring share (domain/measurements.py), and the rules on a criterion's  *)
(* bounds (domain/criteria.py).                                            *)
(*                                                                         *)
(* A text of a page is a number with a unit, or a word; spellings that     *)
(* fold to one text are one text.  Keys are strings, with a hyphen for a   *)
(* space in them, and units the declared ones; three of the six            *)
(* definitions stand for all.                                              *)
(***************************************************************************)
EXTENDS Integers, FiniteSets

CONSTANT None    \* an absent value
CONSTANT NaN     \* a bound of the request that is no number
ASSUME NoneAssumption == None \notin Int /\ NaN \notin Int \cup {None}

Measure(number, unit) == [number |-> number, unit |-> unit]
Word(word) == [number |-> None, unit |-> word]

(***************************************************************************)
(* Evidence.observed_value is a decimal, else a boolean, else a string:    *)
(* the words a boolean is written with do not survive the conversion.      *)
(***************************************************************************)
Stored(text) == IF text = Word("yes") THEN Word("true") ELSE text

Catalogue ==
    { [key |-> "battery_capacity", aliases |-> {"battery", "battery-capacity"},
       unit |-> "mAh", factors |-> [mAh |-> 1, Ah |-> 1000]],
      [key |-> "memory_capacity", aliases |-> {"memory", "ram"},
       unit |-> "GB", factors |-> [GB |-> 1, TB |-> 1024]],
      [key |-> "chip_performance", aliases |-> {"chip-performance"},
       unit |-> "SOCPK", factors |-> [SOCPK |-> 1]] }

\* Case, underscores and white space are folded away.
KeyToken(key) ==
    CASE key = "battery_capacity" -> "battery-capacity"
      [] key = "memory_capacity"  -> "memory-capacity"
      [] key = "chip_performance" -> "chip-performance"
      [] OTHER -> key

\* The definition a page's key names: by a declared alias only, so that
\* "memory-capacity" on a page names none.
DefinitionOf(key) == {d \in Catalogue : KeyToken(key) \in d.aliases}

\* The definition a criterion's key names: by the canonical key only.
CanonicalDefinition(key) == {d \in Catalogue : KeyToken(d.key) = KeyToken(key)}

\* What a text measures in the definition's unit; nothing when it does not parse.
Reading(text, definition) ==
    IF text.number # None /\ text.unit \in DOMAIN definition.factors
    THEN {text.number * definition.factors[text.unit]} ELSE {}
-------------------------------------------------------------------------------
Given(bound) == bound # None

(***************************************************************************)
(* numeric_criterion_bounds: the codes of what is wrong, the first of      *)
(* which is raised.                                                        *)
(***************************************************************************)
Bounds(criterion) == {criterion.minimum, criterion.preferred, criterion.maximum} \ {None}

BoundsAreSound(criterion) ==
    LET low == criterion.minimum
        high == criterion.maximum
        best == criterion.preferred
    IN  /\ \A bound \in Bounds(criterion) : bound # NaN /\ bound >= 0
        /\ Given(low) /\ Given(high) => low <= high
        /\ Given(best) /\ Given(low) => best >= low
        /\ Given(best) /\ Given(high) => best <= high
        /\ Given(low) \/ Given(high)
===============================================================================
