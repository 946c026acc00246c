-------------------------- MODULE MCEmparejamiento --------------------------
(* The searches TLC checks.  The players are interchangeable: nothing in the  *)
(* model tells one from another.                                              *)
EXTENDS Emparejamiento, TLC

Simetria == Permutations(Clientes)

(* "Comienza la partida" (line 56 of res/values/strings.xml): a match that is *)
(* opened has a second player.                                                *)
ComienzaConDos ==
    [][\A b \in Busquedas : \A j \in act'[b].abiertas \ act[b].abiertas :
          jugadas'[j] # Nada /\ jugadas'[j].dos # Nada]_vars
=============================================================================
