---------------------------- MODULE MCProcessor ----------------------------
(* A game that may hold every instruction: a main program at 0, a routine  *)
(* at 8, which also calls itself, and the handlers at 14 and 19.           *)
EXTENDS Processor

Plain(op) == [op |-> op, args |-> 0, conditional |-> FALSE]
To(op, where) == [Plain(op) EXCEPT !.args = where]
If(i) == [i EXCEPT !.conditional = TRUE]

mcCode ==
      0 :> {If(To("CALL", 8)), To("load", 3), If(To("JP", 0))}
   @@ 3 :> {Plain("EI"), Plain("DI"), Plain("storeMask")}
   @@ 4 :> {Plain("HALT"), Plain("storeFlags")}
   @@ 5 :> {Plain("JPhl")}
   @@ 6 :> {To("JP", 0)}
   @@ 8 :> {Plain("PUSH"), To("RST", 8), Plain("other")}
   @@ 9 :> {Plain("POP"), If(Plain("RET")), Plain("modifyFlags")}
   @@ 10 :> {Plain("POP"), Plain("RET")}
   @@ 11 :> {Plain("POP"), Plain("RET"), To("JR", 3)}
   @@ 12 :> {Plain("RET")}
   @@ 14 :> {Plain("RETI"), Plain("PUSH")}
   @@ 15 :> {Plain("RETI"), Plain("RET"), Plain("POP")}
   @@ 16 :> {Plain("RETI"), Plain("modifyFlags")}
   @@ 18 :> {Plain("RETI")}
   @@ 19 :> {Plain("RETI"), Plain("EI")}
   @@ 20 :> {Plain("RETI"), Plain("RET")}

mcVector == 0 :> 14 @@ 1 :> 19
mcRam == 26..33
=============================================================================
