-------------------------------- MODULE Sala --------------------------------
(* What matchmaking promises of a match of the collection "jugadas": whoever  *)
(* created it is its first player for ever; once its second seat has been     *)
(* taken it is never free again, although it may change hands, even after the *)
(* match was deleted; and nobody plays against itself but in a match whose    *)
(* invitation is its own.                                                     *)
CONSTANTS Clientes, Nada

VARIABLE sala      \* what has become of the match

Estados == {"porCrear", "libre", "ocupada", "borrada"}
Salas == [estado : Estados, uno : Clientes \cup {Nada}, dos : Clientes \cup {Nada},
          inv : Clientes \cup {Nada}]

PorCrear == [estado |-> "porCrear", uno |-> Nada, dos |-> Nada, inv |-> Nada]

Init == sala = PorCrear

Crear(u, i) ==
    /\ sala = PorCrear
    /\ sala' = [estado |-> "libre", uno |-> u, dos |-> Nada, inv |-> i]

Ocupar(u) ==
    /\ sala.estado \in {"libre", "ocupada", "borrada"}
    /\ sala.uno = u => sala.inv = u
    /\ sala' = [estado |-> "ocupada", uno |-> sala.uno, dos |-> u, inv |-> sala.inv]

Borrar ==
    /\ sala.estado \in {"libre", "ocupada"}
    /\ sala' = [estado |-> "borrada", uno |-> sala.uno, dos |-> Nada, inv |-> sala.inv]

Next == \/ \E u \in Clientes, i \in Clientes \cup {Nada} : Crear(u, i)
        \/ \E u \in Clientes : Ocupar(u)
        \/ Borrar

Spec == Init /\ [][Next]_sala
=============================================================================
