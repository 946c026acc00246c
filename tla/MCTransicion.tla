---------------------------- MODULE MCTransicion ----------------------------
(* What the menus TLC checks are also asked.                                  *)
EXTENDS Transicion

(* "hay que ponerlo afuera del else" (a comment of line 590 of                *)
(* TransisionActivity, on the cancelling of the clock in aceptar): whoever    *)
(* has accepted an invitation, and opened its match, declines it no more.     *)
AceptadaNoSeRechaza ==
    [][\A c \in Siguen : \A b \in De(c) : \A j \in act[b].abiertas :
          Len(pend'[c]) > Len(pend[c]) =>
              LET w == pend'[c][Len(pend'[c])] IN w.tipo = "rechazo" => w.j # j]_varsTransicion
=============================================================================
