------------------------------ MODULE MCPresets ------------------------------
(***************************************************************************)
(* An instance of Presets for TLC: a model of two parts, a model of one    *)
(* file and its adapter, which the Hub reports without a digest.           *)
(***************************************************************************)
EXTENDS Presets, TLC

Part1 == File("a", "big", 1, 2)
Part2 == File("a", "big", 2, 2)
Single == File("b", "small", 0, 0)
Adapter == File("b", "adapter", 0, 0)

OneHub == {Part1, Part2, Single, Adapter}
OnePin == [file \in OneHub |-> IF file = Adapter THEN NoPin ELSE 1]
OneBase == [file \in OneHub |-> IF file = Single THEN "other" ELSE "repository"]

Split == <<Row("weights", Part1), Row("split", Part2)>>
Plain(rows) == [rows |-> rows, upstream |-> "none", mtp |-> FALSE, template |-> "own", build |-> 0]
Repinned == [Row("weights", Single) EXCEPT !.pin = 2]

TwoSets == [s \in {"large", "little"} |-> IF s = "large" THEN Plain(Split) ELSE Plain(<<Row("weights", Single)>>)]

SomeManifests == {
    [Plain(Split) EXCEPT !.mtp = TRUE],
    [Plain(Split) EXCEPT !.build = 2],
    Plain(<<Row("weights", Part1)>>),
    Plain(<<Row("weights", Part1), Row("split", Part2), Row("split", Part2)>>),
    Plain(<<Repinned>>),
    [Plain(<<Repinned>>) EXCEPT !.template = "lost"],
    [Plain(<<Row("weights", Single)>>) EXCEPT !.build = Unreleased]}

Doc(s, efforts, effort) ==
    [set |-> s, ctx |-> 4, parallel |-> 2, spec |-> "none", bounded |-> FALSE, quantized |-> FALSE, flash |-> TRUE,
     efforts |-> efforts, effort |-> effort, reasoning |-> TRUE, toggle |-> TRUE, clean |-> TRUE]

TwoDocs == [name \in {"p1", "p2"} |-> IF name = "p1" THEN Doc("large", {}, Off) ELSE Doc("little", {2, 5}, 5)]

SomeDocuments == {
    Doc("large", {3}, 3),
    [Doc("large", {1, 3, 6}, 1) EXCEPT !.toggle = FALSE, !.ctx = 8, !.parallel = 1],
    [Doc("large", {}, Off) EXCEPT !.spec = "draft-mtp", !.bounded = TRUE, !.parallel = 1],
    Doc("little", {2}, 5),
    [Doc("little", {}, Off) EXCEPT !.clean = FALSE],
    [Doc("little", {}, Off) EXCEPT !.parallel = 3],
    [Doc("little", {}, Off) EXCEPT !.quantized = TRUE, !.flash = FALSE],
    Doc("lost", {}, Off)}

=============================================================================
