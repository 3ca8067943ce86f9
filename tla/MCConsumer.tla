------------------------------- MODULE MCConsumer -------------------------------
(* TLC instances of Consumer: the frames differ from the empty activity in a   *)
(* field or two, one of every kind that the parser and Equals tell apart.      *)
EXTENDS Consumer

B(l, u) == [label |-> l, url |-> u]

MCRaw ==
  {Nil, ZeroActivity,
   [ZeroActivity EXCEPT !.details = "x"],
   [ZeroActivity EXCEPT !.type = 2],
   [ZeroActivity EXCEPT !.type = 6],
   [ZeroActivity EXCEPT !.timestamps = "v", !.party = Zero],
   [ZeroActivity EXCEPT !.assets = Zero, !.timestamps = Zero],
   [ZeroActivity EXCEPT !.party = "v"],
   [ZeroActivity EXCEPT !.buttons = <<B("x", "x")>>],
   [ZeroActivity EXCEPT !.buttons = <<B("x", "y")>>],
   [ZeroActivity EXCEPT !.buttons = <<B("x", Blank)>>],
   [ZeroActivity EXCEPT !.buttons = <<B("x", "x"), B("x", "y"), B("y", "y")>>]}
================================================================================
