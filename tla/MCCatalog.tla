------------------------------ MODULE MCCatalog ------------------------------
(* An instance of Catalog for TLC. *)
EXTENDS Catalog, TLC

CONSTANTS soup, tea, first, again, other, large, small

Offer(price, available) == [price |-> price, available |-> available]

\* Version 1 sells soup; a second payload of version 1 has it sold out;
\* version 2 makes soup dearer and adds tea; version 3 drops soup.
MCSnapshots == {
    [version |-> 1, offers |-> (soup :> Offer(2, TRUE) @@ tea :> Absent)],
    [version |-> 1, offers |-> (soup :> Offer(2, FALSE) @@ tea :> Absent)],
    [version |-> 2, offers |-> (soup :> Offer(3, TRUE) @@ tea :> Offer(2, TRUE))],
    [version |-> 3, offers |-> (soup :> Absent @@ tea :> Offer(2, TRUE))]}

Line(item, quantity) == [item |-> item, quantity |-> quantity]

\* A request, the same request again with its lines in another order and a
\* different one under its key; under a second key one whose lines fit and whose
\* sum does not, and one below the minimum.
MCKey == first :> "k" @@ again :> "k" @@ other :> "k" @@ large :> "l"
            @@ small :> "l"
MCVersion == first :> 2 @@ again :> 2 @@ other :> 1 @@ large :> 2 @@ small :> 3
MCCart == first :> <<Line(soup, 1), Line(tea, 2)>>
            @@ again :> <<Line(tea, 2), Line(soup, 1)>>
            @@ other :> <<Line(soup, 2)>>
            @@ large :> <<Line(soup, 2), Line(tea, 3)>>
            @@ small :> <<Line(tea, 1)>>
=============================================================================
