----------------------------- MODULE MCPartida ------------------------------
(* The matches TLC checks, and what the texts on the screen promise of them.  *)
(* The two players are not symmetric (one created the document), so there is  *)
(* no symmetry set.                                                           *)
EXTENDS Partida

-----------------------------------------------------------------------------
(* The texts of res/values/strings.xml. *)

(* "Perdiste por rechazar la jugada." (line 49), shown to the guest that      *)
(* declines an invitation: it is not recorded as the winner.                  *)
QuienRechazaPierde ==
    \A c \in Clientes : fase[c] = "ausente" => doc.ganador # c

(* The picture a player who obeys the label touches: its own for "TócaTe" and *)
(* "TócaTe tu mismo", the named player's for "Toca a ...".                    *)
Obedece(rotulo, soyUno) ==
    CASE rotulo = "TocaJdos" -> "IvjDos"
      [] rotulo = "TocaJuno" -> "IvjUno"
      [] OTHER -> IF soyUno THEN "IvjUno" ELSE "IvjDos"

(* The order a player reads is that of the match it last saw (EtTocate).      *)
RotuloDe(c) == Rotulo(jug[c].tocate, c = Uno, SoyDos(c, jug[c]))
ConRotulo(c, r) == jug[c] # SinJugada /\ RotuloDe(c) = r
Obediente(c) ==
    \E orden \in Ordenes : Toque(c, Obedece(RotuloDe(c), c = Uno), orden)
MiContador(c) == MiCuenta(c, cont[c])

(* "TócaTe tu mismo" (line 85): a player who reads it and touches itself,     *)
(* while the rule goes by that same order, does not lose a point.             *)
TocarteNoQuita ==
    [][\A c \in Clientes :
          /\ ConRotulo(c, "SetTocateAti") /\ n[c] = jug[c].tocate
          /\ Obediente(c)
          => MiContador(c)' >= MiContador(c)]_vars
=============================================================================
