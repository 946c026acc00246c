----------------------------- MODULE MCPantalla -----------------------------
(* The screens TLC checks, measured in pictures: two that are just Amplia,    *)
(* one of a match of two and one of a single game, whose pictures have        *)
(* different sizes; the first of them on its side, and a strip of it lower    *)
(* than two pictures.                                                         *)
EXTENDS Pantalla

Iguales == [juego |-> "mult", ancho |-> 3, alto |-> 4, desfase |-> 1, pie |-> 0,
            lado |-> [i \in Imagenes |-> 1]]
Desiguales == [juego |-> "solo", ancho |-> 5, alto |-> 7, desfase |-> 1, pie |-> 0,
               lado |-> [i \in Imagenes |-> IF i = "IvjUno" THEN 2 ELSE 1]]
Tumbada == [Iguales EXCEPT !.ancho = 4, !.alto = 3]
Franja == [Iguales EXCEPT !.alto = 1]
LasPantallas == {Iguales, Desiguales, Tumbada, Franja}
=============================================================================
