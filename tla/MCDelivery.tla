----------------------------- MODULE MCDelivery -----------------------------
(***************************************************************************)
(* A banner with a general and a sales-targeted schedule, and an offers    *)
(* placement with one rule of two variations; customers 1 and 2.           *)
(***************************************************************************)
EXTENDS Delivery

CONSTANTS r1, r2, r3

All == {"rich", "poor"}

MCInventory ==
  [banner |-> <<[id |-> "sales", type |-> "SALES_TARGET", score |-> 3,
                 bare |-> All, variations |-> <<All>>],
                [id |-> "mass", type |-> "MASS", score |-> 5,
                 bare |-> All, variations |-> <<>>]>>,
   offers |-> <<[id |-> "tiers", type |-> "TARGET", score |-> 4,
                 bare |-> {}, variations |-> <<{"rich"}, All>>]>>]

MCLosses == {{}, {"mass"}}

Lead(content, score, placements) ==
  [content |-> content, score |-> score, placements |-> placements]

MCAnswers ==
  {<<[ip |-> 2, leads |-> <<Lead("theirs", 9, {"banner"})>>],
     [ip |-> 1, leads |-> <<Lead("loan", Blank, {"banner"}), Lead("fund", 8, {"banner"}),
                            Lead("card", 6, {"offers"})>>]>>,
   <<[ip |-> 1, leads |-> <<Lead("odd", NaN, {"banner"}), Lead("fund", 8, {"banner"})>>]>>}

Ask(names, idType, digits, page, attrs) ==
  [names |-> names, idType |-> idType, customer |-> 1, digits |-> digits,
   page |-> page, attrs |-> attrs]

MCQueries ==
  {Ask(<<"offers", "banner", "offers">>, "CIS_ID", TRUE, 0, "poor"),
   Ask(<<"banner", "offers">>, "CIS_ID", TRUE, 3, "rich"),
   Ask(<<"banner">>, "LINE_UUID", FALSE, 20, "rich"),
   Ask(<<"banner">>, "IP_ID", FALSE, 1, "poor"),
   Ask(<<"banner">>, "CIS_ID", TRUE, 21, "poor"),
   Ask(<<"banner">>, "CIS_ID", TRUE, Blank, "poor")}
=============================================================================
