--------------------------- MODULE MCFieldEntry ----------------------------
(* An instance of FieldEntry small enough for TLC: texts at every edge of  *)
(* the ruler, and one session saved before.                                *)
EXTENDS FieldEntry

MCTyped == {Blank, [Blank EXCEPT !.kind = "words"], [kind |-> "unsupported", n |-> 3012, places |-> 2],
            Number(3028, 2), Number(4496, 2), Number(4508, 2), Number(1000, 0), Number(4, 2)}

MCTypedClicks == {[Blank EXCEPT !.kind = "words"], Number(250, 1), Number(4000, 0), Number(-4500, 0)}

Saved(bike, tires, pre, post, clicks_, unit_) ==
    [setup |-> [bike |-> bike, tires |-> tires], text |-> [f \in Fields |-> IF f = "pre" THEN pre ELSE post],
     clicks |-> clicks_, unit |-> unit_]

MCBefore == <<Saved("r6", "slick", Number(3128, 2), [Blank EXCEPT !.kind = "words"], Number(1200, 0), "clicks")>>

MCElsewhere == {Saved("r6", "slick", Number(2500, 0), Blank, Number(900, 0), "turns")}

MCNotches == {-1, 200}
===========================================================================
