-------------------------- MODULE MCFormValidation --------------------------
(***************************************************************************)
(* A small instance of FormValidation: values below, at and above the      *)
(* bounds of the attributes, and the texts that the script and the server  *)
(* read differently.                                                       *)
(***************************************************************************)
EXTENDS FormValidation

\* Digits, 1e3, a word, and blanks.
Whole(n, length) == [Digit(n) EXCEPT !.length = length]
Thousand  == [Whole(1000, 3) EXCEPT !.number = FALSE, !.int = NaN]
Word(n)   == [length |-> n, blank |-> FALSE, number |-> FALSE,
              script |-> NaN, int |-> NaN, decimal |-> NaN]
Blanks(n) == [Word(n) EXCEPT !.blank = TRUE, !.script = 0]

\* 0.999... with more nines than a double holds.
ManyNines == [Whole(1, 22) EXCEPT !.int = NaN, !.decimal = 3]

MCTextsOf ==
    [i \in Inputs |->
        CASE i[1] = "newOrder"  -> {Whole(1, 1), Whole(10001, 5), Thousand}
          [] i[1] = "newSupply" -> {Whole(1, 1)}
          [] i[2] = "ProductName" -> {Word(5), Word(6), Blanks(6)}
          [] i[2] = "Price" -> {Whole(1, 1), ManyNines}
          [] i[2] = "InitialQuantity" -> {Whole(0, 1), Thousand}]

=============================================================================
