------------------------------ MODULE Marcador ------------------------------
(* The rules of one match, as MultPlayerActivity computes them: what a tap    *)
(* does to the two counters of the client that taps, the order its label      *)
(* shows, and who wins.  Everything here is a function of its arguments.      *)
(* The two pictures on the screen are that of player one (IvjUno) and that    *)
(* of player two (IvjDos); n is the order the rule goes by (0, 1 or 2).       *)
EXTENDS Integers

Imagenes == {"IvjUno", "IvjDos"}
TodasLasOrdenes == 0..2

-----------------------------------------------------------------------------
(* A client is player one when it is the document's jugadorUnoID; soyDos says *)
(* whether it is jugadorDosID, which a client displaced from its seat is not. *)
(* k holds the activity's counters cont1 and cont2, j the match it last saw.  *)

SumaUno(k, j)  == [c1 |-> k.c1 + 1, c2 |-> j.p2]
RestaUno(k, j) == [c1 |-> k.c1 - 1, c2 |-> j.p2]
SumaDos(k, j)  == [c1 |-> j.p1, c2 |-> k.c2 + 1]
RestaDos(k, j) == [c1 |-> j.p1, c2 |-> k.c2 - 1]

(* mutant of TanteoUno: the test of the second order is the wrong way round *)
TanteoUnoAlReves(n, soyUno, soyDos, j, k) ==
    CASE n = 0 -> IF soyUno THEN SumaUno(k, j) ELSE k
      [] n = 1 -> IF ~soyDos THEN SumaDos(k, j) ELSE RestaUno(k, j)
      [] n = 2 -> IF soyUno THEN SumaUno(k, j) ELSE RestaDos(k, j)

(* eventoClic, the listener of player one's picture *)
TanteoUno(n, soyUno, soyDos, j, k) ==
    CASE n = 0 -> IF soyUno THEN SumaUno(k, j) ELSE k
      [] n = 1 -> IF soyDos THEN SumaDos(k, j) ELSE RestaUno(k, j)
      [] n = 2 -> IF soyUno THEN SumaUno(k, j) ELSE RestaDos(k, j)

(* eventoClic, the listener of player two's picture: here the penalties stop  *)
(* at zero                                                                    *)
TanteoDos(n, soyUno, soyDos, j, k) ==
    CASE n = 0 -> IF soyDos THEN SumaDos(k, j) ELSE k
      [] n = 1 -> IF soyUno THEN SumaUno(k, j)
                  ELSE IF k.c2 > 0 THEN RestaDos(k, j) ELSE [k EXCEPT !.c1 = j.p1]
      [] n = 2 -> IF soyDos THEN SumaDos(k, j)
                  ELSE IF k.c1 > 0 THEN RestaUno(k, j) ELSE [k EXCEPT !.c2 = j.p2]

Tanteo(img, n, soyUno, soyDos, j, k) ==
    IF img = "IvjUno" THEN TanteoUno(n, soyUno, soyDos, j, k)
                      ELSE TanteoDos(n, soyUno, soyDos, j, k)

-----------------------------------------------------------------------------
(* EtTocate: the order on the label. *)
Rotulo(tocate, soyUno, soyDos) ==
    CASE tocate = 0 -> "SetTocate"
      [] tocate = 1 -> IF soyUno THEN "TocaJdos" ELSE "SetTocateAti"
      [] tocate = 2 -> IF soyDos THEN "TocaJuno" ELSE "SetTocateAti"
=============================================================================
