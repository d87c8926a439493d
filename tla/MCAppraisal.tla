------------------------------ MODULE MCAppraisal ------------------------------
EXTENDS Appraisal

\* A page of a flagship store that has its phone in stock; EXCEPT for the rest.
Page(id, product, url, price, specs) ==
    [id |-> id, product |-> product, url |-> url, store |-> "flagship",
     list |-> None, displayed |-> price, conditional |-> None, terms |-> FALSE,
     stock |-> "available", currency |-> "CNY", complete |-> TRUE, captured |-> 0,
     specs |-> specs]

Battery(n) == <<"battery", Measure(n, "mAh")>>
Memory(n) == <<"ram", Measure(n, "GB")>>
Chip(name) == <<"chip", Word(name)>>

a1 == Page(11, 1, "shop/a", 20, {Battery(5000), Memory(8)})
a2 == [Page(12, 1, "other/a", 18, {<<"battery_capacity", Measure(5, "Ah")>>})
          EXCEPT !.store = "third_party", !.captured = -300]
a3 == [Page(13, 1, "shop/a", None, {Battery(4000)})
          EXCEPT !.conditional = 16, !.list = 21, !.terms = TRUE]
b1 == [Page(21, 2, "shop/b", 26, {Battery(4000), Memory(12), Chip("x1")})
          EXCEPT !.store = "self_operated"]
b2 == [Page(22, 2, "shop/b", None, {Battery(4000), <<"memory-capacity", Measure(12, "GB")>>})
          EXCEPT !.list = 24, !.stock = "unknown"]
b3 == [Page(23, 2, "other/b", 15, {Battery(4000), <<"color", Word("yes")>>})
          EXCEPT !.stock = "sold_out", !.store = "unknown"]
c1 == [Page(31, 3, "shop/c", 18, {Battery(4600), Memory(12), Chip("x2")})
          EXCEPT !.store = "authorized"]
c2 == Page(32, 3, "shop/c", 28, {Battery(6000), <<"memory", Word("large")>>})
c3 == [Page(33, 3, "abroad/c", 9, {Battery(4600)}) EXCEPT !.currency = "USD"]
d1 == Page(41, 4, "shop/d", 29, {Battery(4000), Memory(8)})
d2 == Page(42, 4, "shop/d", 0, {Memory(6)})
e1 == [Page(51, 4, "shop/e", 20, {Battery(5000)}) EXCEPT !.complete = FALSE]
e2 == [Page(52, 4, "shop/e", None, {Battery(5000)}) EXCEPT !.conditional = 20]
e3 == Page(53, 4, "shop/e", None, {})

\* Saved with times that are yet to come: one comes, one does not.
f1 == [a1 EXCEPT !.id = 61, !.captured = 100]
f2 == [Page(62, 1, "other/a", 18, {Battery(4000), Memory(8)}) EXCEPT !.captured = 900]
f3 == [b1 EXCEPT !.id = 63, !.captured = 100]

MCPageSets ==
    ({a \cup b \cup c \cup d :
        a \in {{}, {a1}, {a1, a2}, {a1, a3}, {a2}}, b \in {{}, {b1}, {b1, b2}, {b3}, {b1, b3}},
        c \in {{}, {c1}, {c2}, {c1, c2, c3}}, d \in {{}, {d1}, {d2}}}
     \ {{}})
    \cup {{a1, e1}, {b1, e2}, {e3}}
    \cup {{f1}, {f1, b1}, {a1, f2}, {a1, f3, c1}, {f1, f3, d1}}

Criterion(key, weight, hard, minimum, preferred, maximum, unit) ==
    [key |-> key, weight |-> weight, hard |-> hard, minimum |-> minimum,
     preferred |-> preferred, maximum |-> maximum, unit |-> unit]

Want(criteria, maximum, stretch) ==
    [criteria |-> criteria, maximum |-> maximum, stretch |-> stretch, currency |-> "CNY",
     query |-> "short"]

HardBattery == Criterion("battery_capacity", 2, TRUE, 4500, 5000, None, "mAh")
SoftMemory == Criterion("memory_capacity", 1, FALSE, 10, None, 12, "GB")
SoftBattery == Criterion("battery_capacity", 1, FALSE, 4500, 5000, 5500, "mAh")
SoftChip == Criterion("chip_performance", 3, FALSE, 100, 200, None, "SOCPK")

MCRequests ==
    { Want(<<HardBattery, SoftMemory>>, 20, 28),
      Want(<<SoftBattery, SoftMemory>>, 30, None),
      [Want(<<SoftBattery, SoftChip>>, 22, 30) EXCEPT !.query = "padded"],
      [Want(<<SoftBattery, SoftChip>>, 22, 30) EXCEPT !.query = "long"],
      Want(<<>>, 30, None),
      Want(<<HardBattery, [SoftBattery EXCEPT !.key = "battery-capacity"]>>, 20, None),
      Want(<<[HardBattery EXCEPT !.key = "battery"]>>, 20, None),
      Want(<<[HardBattery EXCEPT !.unit = "Ah"]>>, 20, None),
      Want(<<[SoftMemory EXCEPT !.minimum = 16]>>, 20, None),
      Want(<<[SoftMemory EXCEPT !.minimum = NaN]>>, 20, None),
      Want(<<[HardBattery EXCEPT !.minimum = None]>>, 20, None) }

Official(id, product, names, url, specs) ==
    [id |-> id, product |-> product, names |-> names, url |-> url, specs |-> specs]

MCOfficialSets ==
    { {},
      {Official(1, 1, 1, "maker/a", {Battery(5000)}), Official(2, 3, 3, "maker/c", {Battery(4500)}),
       Official(3, 2, 2, "shop/b", {Battery(4000), <<"color", Word("yes")>>})},
      {Official(4, 1, 2, "maker/b", {Battery(4000)})} }

Entry(name, tokens, score) == [name |-> name, tokens |-> tokens, score |-> score]

\* Two chips share a token with different scores in the first reference.
MCReferences ==
    { [captured |-> -400, entries |-> {Entry(1, {Word("x1")}, 150), Entry(2, {Word("x2"), Word("x2+")}, 90),
                                       Entry(3, {Word("x2+")}, 95)}],
      [captured |-> 200, entries |-> {Entry(1, {Word("x1")}, 120), Entry(2, {Word("x1")}, 130)}],
      [captured |-> 200, entries |-> {Entry(1, {Word("x1")}, 120)}] }
===============================================================================
