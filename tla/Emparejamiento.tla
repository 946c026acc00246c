--------------------------- MODULE Emparejamiento ---------------------------
(* FindGameActivity: how the clients find, create, accept, leave and start    *)
(* matches.  Every opening of the activity is a search of its own: it goes on *)
(* hearing of its calls and of its listeners after the player has left it.    *)
(* Firestore is modelled from how the activity uses it: a phone queues its    *)
(* writes, the server applies them one at a time and then answers, and a      *)
(* listener is called with the document as it is, some time after a change.   *)
EXTENDS Naturals, Sequences, FiniteSets

CONSTANTS
    Clientes,       \* the signed-in players
    Nada,           \* the empty id, and the null of a document or a listener
    MaxBusquedas,   \* bound: openings of the activity, numbered as they happen
    MaxPartidas,    \* bound: matches, numbered as they are created
    MaxExtras       \* bound: returns to a search, writes of a match played and
                    \* invitations declined, together

Busquedas == 1..MaxBusquedas
Partidas == 1..MaxPartidas

ASSUME CotasBusquedaAssumption == /\ MaxBusquedas \in Nat /\ MaxPartidas \in Nat
                                  /\ MaxExtras \in Nat
ASSUME NadaAssumption == Nada \notin Clientes \cup Nat

-----------------------------------------------------------------------------
(* A match (model/Jugada): its two seats and invitacionID. *)
Docs == [uno : Clientes, dos : Clientes \cup {Nada}, inv : Clientes \cup {Nada}]
ASSUME NuloDocAssumption == Nada \notin Docs

(* The queued writes.  "juega" and "rechazo" are those of MultPlayerActivity  *)
(* and TransisionActivity; de is the search whose callback waits for one.     *)
Tipos == {"add", "set", "update", "delete", "juega", "rechazo"}
Escrituras == [tipo : Tipos, j : Partidas, doc : Docs \cup {Nada},
               de : Busquedas \cup {Nada}]

FasesBusqueda == {"fuera", "activa", "saliendo", "detenida", "fin", "caida"}

(* One search: consulta and enlace are a query and a link not yet answered,   *)
(* oye the match listenerRegistration listens to, sueltas those of listeners  *)
(* that field no longer refers to, puestos the starts posted for a second     *)
(* later; abiertas are the matches it has opened, and volvio tells a search   *)
(* that has been returned to (both only for the properties).                  *)
Actividades ==
    [fase : FasesBusqueda, quien : Clientes \cup {Nada}, consulta : BOOLEAN,
     enlace : Partidas \cup {Nada}, jugadaId : Partidas \cup {Nada},
     crearInv : BOOLEAN, oye : Partidas \cup {Nada}, sueltas : SUBSET Partidas,
     puestos : Nat, abiertas : SUBSET Partidas, volvio : BOOLEAN]

VARIABLES
    jugadas,    \* jugadas[j]: the document on the server, or Nada
    pend,       \* pend[c]: writes of phone c the server has not applied
    act,        \* act[b]: search b
    debe,       \* debe[b]: matches b hears of with an event due
    creadas,    \* creadas[j]: the document given to add() when j was created
    sentados,   \* sentados[j]: who has had a seat of j on the server
    extras      \* returns, writes and refusals used up (bound)

vars == <<jugadas, pend, act, debe, creadas, sentados, extras>>

-----------------------------------------------------------------------------
Nueva(c, inv) == [uno |-> c, dos |-> Nada, inv |-> inv]
Cerrada == [fase |-> "fuera", quien |-> Nada, consulta |-> FALSE, enlace |-> Nada,
            jugadaId |-> Nada, crearInv |-> FALSE, oye |-> Nada, sueltas |-> {},
            puestos |-> 0, abiertas |-> {}, volvio |-> FALSE]
Abierta(c) == [Cerrada EXCEPT !.fase = "activa", !.quien = c]

Init ==
    /\ jugadas = [j \in Partidas |-> Nada]
    /\ pend = [c \in Clientes |-> <<>>]
    /\ act = [b \in Busquedas |-> Cerrada]
    /\ debe = [b \in Busquedas |-> {}]
    /\ creadas = [j \in Partidas |-> Nada]
    /\ sentados = [j \in Partidas |-> {}]
    /\ extras = 0

De(c) == {b \in Busquedas : act[b].quien = c}
Viva(b) == act[b].fase \notin {"fuera", "caida"}
Oye(b) == act[b].sueltas \cup ({act[b].oye} \ {Nada})

(* A listener that has been removed has no event to come. *)
Avisos(nuevos) == debe' = [b \in Busquedas |-> nuevos[b] \cap Oye(b)']

(* Search b becomes a. *)
Pasa(b, a) == act' = [act EXCEPT ![b] = a]

(* An exception ends the application of the client of b. *)
Caida(b) ==
    act' = [x \in Busquedas |->
               IF act[x].quien # act[b].quien THEN act[x]
               ELSE [Cerrada EXCEPT !.fase = "caida", !.quien = act[b].quien,
                                    !.abiertas = act[x].abiertas]]

Abre(a) == [a EXCEPT !.oye = Nada, !.jugadaId = Nada, !.abiertas = @ \cup {a.jugadaId}]
StarGameVacia(b, a) == Pasa(b, Abre(a))                      \* mutant of StarGame
(* starGame of a search that has become a: the match opens, and one with the  *)
(* empty id cannot be listened to, which ends the application.                *)
StarGame(b, a) ==
    \/ a.jugadaId = Nada /\ Caida(b)
    \/ a.jugadaId # Nada /\ Pasa(b, Abre(a))

Encola(c, ops) == pend' = [pend EXCEPT ![c] = @ \o ops]

-----------------------------------------------------------------------------
(* crearNuevaJugada and crearNuevaJugadaRef: add() of documents with new ids. *)
SinUsar == {j \in Partidas : creadas[j] = Nada}
PorCrear(k) == {ids \in [1..k -> SinUsar] :
    \A m \in 1..k : \A j \in SinUsar : j < ids[m] <=> \E o \in 1..(m - 1) : ids[o] = j}
Adds(b, ids, doc) ==
    [i \in DOMAIN ids |-> [tipo |-> "add", j |-> ids[i], doc |-> doc, de |-> b]]
Crea(ids, doc) ==
    creadas' = [j \in Partidas |-> IF \E i \in DOMAIN ids : ids[i] = j THEN doc
                                                                  ELSE creadas[j]]

(* The screen is opened only from another one of an application that runs.    *)
PuedeAbrir(b, c) ==
    /\ act[b].fase = "fuera"
    /\ \A x \in 1..(b - 1) : act[x].fase # "fuera"
    /\ \A x \in De(c) : act[x].fase \in {"detenida", "fin"}

(* optenerTipoJugada, "pLibre": the free matches are asked for. *)
AbrirLibre(b, c) ==
    /\ PuedeAbrir(b, c)
    /\ Pasa(b, [Abierta(c) EXCEPT !.consulta = TRUE])
    /\ UNCHANGED <<jugadas, pend, debe, creadas, sentados, extras>>

(* "Invita?" and "cearDynamickLink": a match is created for one player, or    *)
(* for whoever follows the link, which is an invitation to oneself.           *)
AbrirInvitando(b, c, inv) ==
    /\ PuedeAbrir(b, c)
    /\ \E ids \in PorCrear(1) :
          /\ Encola(c, Adds(b, ids, Nueva(c, inv)))
          /\ Crea(ids, Nueva(c, inv))
    /\ Pasa(b, [Abierta(c) EXCEPT !.crearInv = (inv = c)])
    /\ UNCHANGED <<jugadas, debe, sentados, extras>>

Acepta(b, c, j) == Encola(c, <<[tipo |-> "update", j |-> j, doc |-> Nada, de |-> b]>>)

(* "pinvDirecta": an invitation that has been accepted in the menu. *)
AbrirInvitado(b, c, j) ==
    /\ PuedeAbrir(b, c)
    /\ sentados[j] # {} /\ creadas[j].inv = c /\ creadas[j].uno # c
    /\ Pasa(b, [Abierta(c) EXCEPT !.jugadaId = j])
    /\ Acepta(b, c, j)
    /\ UNCHANGED <<jugadas, debe, creadas, sentados, extras>>

(* linkReception: the link is asked for, and answered to a started activity.  *)
AbrirEnlace(b, c, j) ==
    /\ PuedeAbrir(b, c)
    /\ sentados[j] # {} /\ creadas[j].inv = creadas[j].uno
    /\ Pasa(b, [Abierta(c) EXCEPT !.enlace = j])
    /\ UNCHANGED <<jugadas, pend, debe, creadas, sentados, extras>>
Enlace(b) ==
    /\ act[b].enlace # Nada
    /\ act[b].fase \in {"activa", "saliendo"}
    /\ Pasa(b, [act[b] EXCEPT !.enlace = Nada, !.jugadaId = act[b].enlace])
    /\ Acepta(b, act[b].quien, act[b].enlace)
    /\ UNCHANGED <<jugadas, debe, creadas, sentados, extras>>

-----------------------------------------------------------------------------
(* The matches with an empty second seat a phone finds: those of the server   *)
(* it has no writes of its own on, and its own new ones.                      *)
UltimaSobre(c, i) == \A k \in 1..Len(pend[c]) : pend[c][k].j = pend[c][i].j => k <= i
LibresPropias(c) ==
    {pend[c][i].j : i \in {k \in 1..Len(pend[c]) : pend[c][k].tipo = "add" /\ UltimaSobre(c, k)}}
LibresServidor(c) ==
    {j \in Partidas : /\ jugadas[j] # Nada /\ jugadas[j].dos = Nada
                      /\ \A i \in 1..Len(pend[c]) : pend[c][i].j # j}
Libres(c) == LibresServidor(c) \cup LibresPropias(c)
Elegible(c, j) == jugadas[j].inv = Nada /\ jugadas[j].uno # c
Elegibles(c) == {j \in LibresServidor(c) : Elegible(c, j)}

Consultada(b) == Viva(b) /\ act[b].consulta

(* buscarJugadaLibre, none will do: a match is created, or one for every      *)
(* match found, the loop creating them as it goes.                            *)
NingunaSirve(b) ==
    /\ Consultada(b)
    /\ LET c == act[b].quien
           k == IF Libres(c) = {} THEN 1 ELSE Cardinality(Libres(c))
       IN /\ Elegibles(c) = {}
          /\ \E ids \in PorCrear(k) : /\ Encola(c, Adds(b, ids, Nueva(c, Nada)))
                                      /\ Crea(ids, Nueva(c, Nada))
    /\ Pasa(b, [act[b] EXCEPT !.consulta = FALSE])
    /\ UNCHANGED <<jugadas, debe, sentados, extras>>

ConPrimero(doc, c) == [doc EXCEPT !.uno = c]                \* mutant of ConSegundo
ConSegundo(doc, c) == [doc EXCEPT !.dos = c]

(* One will do: a match is created for every one found before it, and the     *)
(* whole document, as the query returned it, is set with the second seat.     *)
Encuentra(b, j, antes) ==
    /\ Consultada(b)
    /\ LET c == act[b].quien
           k == Cardinality(antes)
       IN /\ j \in Elegibles(c)
          /\ antes \subseteq Libres(c) \ Elegibles(c)
          /\ \E ids \in PorCrear(k) :
                /\ Encola(c, Append(Adds(b, ids, Nueva(c, Nada)),
                                    [tipo |-> "set", j |-> j,
                                     doc |-> ConSegundo(jugadas[j], c), de |-> b]))
                /\ Crea(ids, Nueva(c, Nada))
    /\ Pasa(b, [act[b] EXCEPT !.consulta = FALSE, !.jugadaId = j])
    /\ UNCHANGED <<jugadas, debe, sentados, extras>>

-----------------------------------------------------------------------------
(* The document a write of c leaves where d was: an update needs one.         *)
Tras(c, w, d) ==
    CASE w.tipo \in {"add", "set", "juega"} -> w.doc
      [] w.tipo = "delete" -> Nada
      [] w.tipo \in {"update", "rechazo"} -> IF d = Nada THEN Nada ELSE ConSegundo(d, c)

SeHizoSiempre(w, d) == TRUE                                  \* mutant of SeHizo
SeHizo(w, d) == w.tipo = "update" => d # Nada

(* Who has a seat in the document that a write leaves. *)
Asientos(d) == IF d = Nada THEN {} ELSE {d.uno, d.dos} \ {Nada}

(* onSuccess of add(): esperarJugador registers a listener, over the one the  *)
(* field referred to.                                                         *)
Creada(w) ==
    /\ w.tipo = "add"
    /\ Pasa(w.de, [act[w.de] EXCEPT !.jugadaId = w.j, !.oye = w.j,
                                    !.sueltas = Oye(w.de)])

(* onSuccess of the set or the update that takes the second seat. *)
Unida(w) ==
    /\ w.tipo \in {"set", "update"} /\ SeHizo(w, jugadas[w.j])
    /\ StarGame(w.de, act[w.de])

(* onFailure of the update: "La partida ya no existe", and the activity is    *)
(* finished.                                                                  *)
YaNoExiste(w) ==
    /\ w.tipo \in {"set", "update"} /\ ~SeHizo(w, jugadas[w.j])
    /\ Pasa(w.de, [act[w.de] EXCEPT !.fase = CASE @ = "activa" -> "saliendo"
                                                [] @ = "detenida" -> "fin"
                                                [] OTHER -> @])

(* onComplete of the delete of onStop. *)
Borrada(w) ==
    /\ w.tipo = "delete"
    /\ Pasa(w.de, [act[w.de] EXCEPT !.jugadaId = Nada])

SinRespuesta(w) ==
    /\ w.de # Nada => ~Viva(w.de)
    /\ UNCHANGED act

(* The server applies the oldest write of a phone, its listeners have an      *)
(* event due, and the search that made it has its answer.                     *)
Aplica(c) ==
    /\ pend[c] # <<>>
    /\ LET w == Head(pend[c])
           d == Tras(c, w, jugadas[w.j])
       IN /\ jugadas' = [jugadas EXCEPT ![w.j] = d]
          /\ sentados' = [sentados EXCEPT ![w.j] = @ \cup Asientos(d)]
          /\ \/ SinRespuesta(w)
             \/ w.de # Nada /\ Viva(w.de)
                /\ (Creada(w) \/ Unida(w) \/ YaNoExiste(w) \/ Borrada(w))
          /\ Avisos([b \in Busquedas |-> debe[b] \cup {w.j}])
    /\ pend' = [pend EXCEPT ![c] = Tail(@)]
    /\ UNCHANGED <<creadas, extras>>

-----------------------------------------------------------------------------
(* The listener of esperarJugador, wherever the activity is: a document that  *)
(* is gone has no field to compare; one with both players posts the start.    *)
Evento(b, j) ==
    /\ Viva(b)
    /\ j \in debe[b]
    /\ \/ jugadas[j] = Nada /\ Caida(b)
       \/ jugadas[j] # Nada /\ jugadas[j].dos = Nada /\ UNCHANGED act
       \/ /\ jugadas[j] # Nada /\ jugadas[j].dos # Nada
          /\ Pasa(b, [act[b] EXCEPT !.puestos = @ + 1])
    /\ Avisos([debe EXCEPT ![b] = @ \ {j}])
    /\ UNCHANGED <<jugadas, pend, creadas, sentados, extras>>

(* handler.postDelayed: nothing cancels the start. *)
Empieza(b) ==
    /\ Viva(b)
    /\ act[b].puestos > 0
    /\ StarGame(b, [act[b] EXCEPT !.puestos = @ - 1])
    /\ Avisos(debe)
    /\ UNCHANGED <<jugadas, pend, creadas, sentados, extras>>

-----------------------------------------------------------------------------
NoBorra(b, j) == <<>>                                        \* mutant of Borra
Borra(b, j) == <<[tipo |-> "delete", j |-> j, doc |-> Nada, de |-> b]>>

(* onStop: but for a match to be shared that the player does not leave with   *)
(* the back key (onBackPressed, just before), the listener the field refers   *)
(* to is removed and the match the field refers to, whoever created it,       *)
(* deleted.                                                                   *)
Parar(b, atras) ==
    /\ act[b].fase \in (IF atras THEN {"activa"} ELSE {"activa", "saliendo"})
    /\ LET compartida == act[b].crearInv /\ ~atras
       IN /\ Pasa(b, [act[b] EXCEPT
                !.fase = IF @ = "activa" /\ ~atras THEN "detenida" ELSE "fin",
                !.crearInv = compartida,
                !.oye = IF compartida THEN @ ELSE Nada,
                !.enlace = Nada])
          /\ IF compartida \/ act[b].jugadaId = Nada
             THEN UNCHANGED pend
             ELSE Encola(act[b].quien, Borra(b, act[b].jugadaId))
    /\ Avisos(debe)
    /\ UNCHANGED <<jugadas, creadas, sentados, extras>>

Extra == extras < MaxExtras /\ extras' = extras + 1

(* The activity is on the screen again; no callback of its own says so.  One  *)
(* that was destroyed meanwhile, by a rotation too, is one that never is.     *)
Volver(b) ==
    /\ act[b].fase = "detenida"
    /\ Extra
    /\ \A x \in De(act[b].quien) : act[x].fase \in {"detenida", "fin"}
    /\ Pasa(b, [act[b] EXCEPT !.fase = "activa", !.volvio = TRUE])
    /\ UNCHANGED <<jugadas, pend, debe, creadas, sentados>>

-----------------------------------------------------------------------------
(* A write that no search waits for. *)
Ajena(c, tipo, j, doc) ==
    /\ Encola(c, <<[tipo |-> tipo, j |-> j, doc |-> doc, de |-> Nada]>>)
    /\ UNCHANGED <<jugadas, act, debe, creadas, sentados>>

(* MultPlayerActivity: a match that has been opened sets the whole document,  *)
(* as it has seen it with both its players.                                   *)
Juega(c, j) ==
    /\ \E b \in De(c) : Viva(b) /\ j \in act[b].abiertas
    /\ jugadas[j] # Nada /\ jugadas[j].dos # Nada
    /\ Extra
    /\ Ajena(c, "juega", j, jugadas[j])

(* TransisionActivity.cancelarJugada: an invitation is declined, and so taken *)
(* with the guest as the one that abandons it.                                *)
Declina(c, j) ==
    /\ \A b \in De(c) : Viva(b)
    /\ sentados[j] # {} /\ creadas[j].inv = c /\ creadas[j].uno # c
    /\ Ajena(c, "rechazo", j, Nada)
Rechaza(c, j) == Extra /\ Declina(c, j)

-----------------------------------------------------------------------------
(* The openings of the screen, and what goes on in a search. *)
Abrir(b, c) ==
    \/ AbrirLibre(b, c)
    \/ \E inv \in Clientes : AbrirInvitando(b, c, inv)
    \/ \E j \in Partidas : AbrirInvitado(b, c, j) \/ AbrirEnlace(b, c, j)

Avanza(b) ==
    \/ Enlace(b) \/ NingunaSirve(b)
    \/ \E j \in Partidas, antes \in SUBSET Partidas : Encuentra(b, j, antes)
    \/ \E j \in Partidas : Evento(b, j)
    \/ Empieza(b) \/ \E atras \in BOOLEAN : Parar(b, atras)

Paso(b) == (\E c \in Clientes : Abrir(b, c)) \/ Avanza(b) \/ Volver(b)

Next ==
    \/ \E b \in Busquedas : Paso(b)
    \/ \E c \in Clientes : Aplica(c) \/ \E j \in Partidas : Juega(c, j) \/ Rechaza(c, j)

Spec == Init /\ [][Next]_vars

-----------------------------------------------------------------------------
(* Every variable holds a value of its kind: in particular nothing but a match *)
(* is ever open (starGame, FindGameActivity:160-169).                          *)
TypeOK ==
    /\ jugadas \in [Partidas -> Docs \cup {Nada}]
    /\ pend \in [Clientes -> Seq(Escrituras)]
    /\ act \in [Busquedas -> Actividades]
    /\ debe \in [Busquedas -> SUBSET Partidas]
    /\ creadas \in [Partidas -> Docs \cup {Nada}]
    /\ sentados \in [Partidas -> SUBSET Clientes]
    /\ extras \in Nat

-----------------------------------------------------------------------------
(* A free match on the server is one that somebody will answer for: a search  *)
(* of the player that created it listens to it, or has opened it, or its      *)
(* deletion is on its way; who joins it is not left with nobody to know       *)
(* (esperarJugador and onStop, FindGameActivity:137-158, 187-205).  Not when  *)
(* the application of that player has ended by an exception, nor when one of  *)
(* its searches was stopped and came back.                                    *)
Responde(b, j) == j \in Oye(b) \/ j \in act[b].abiertas
SeBorrara(j) == \E i \in 1..Len(pend[jugadas[j].uno]) :
    pend[jugadas[j].uno][i].tipo = "delete" /\ pend[jugadas[j].uno][i].j = j
LibreAtendida ==
    \A j \in Partidas : jugadas[j] # Nada /\ jugadas[j].dos = Nada =>
        \/ SeBorrara(j)
        \/ \E b \in De(jugadas[j].uno) : ~Viva(b) \/ act[b].volvio \/ Responde(b, j)

(* Whatever happens to jugadaId between a call and its answer, a search opens *)
(* only matches its client has had a seat in (starGame, FindGameActivity      *)
(* :160-169).                                                                 *)
AbreLoSuyo ==
    \A b \in Busquedas : \A j \in act[b].abiertas : act[b].quien \in sentados[j]

(* Matchmaking keeps the promises of Sala, over joins that overwrite one      *)
(* another, matches deleted while somebody joins them and documents set again *)
(* from old copies.                                                           *)
SalaDe(j) ==
    [estado |-> IF jugadas[j] # Nada
                THEN IF jugadas[j].dos = Nada THEN "libre" ELSE "ocupada"
                ELSE IF sentados[j] = {} THEN "porCrear" ELSE "borrada",
     uno |-> IF jugadas[j] # Nada THEN jugadas[j].uno
             ELSE IF sentados[j] = {} THEN Nada ELSE creadas[j].uno,
     dos |-> IF jugadas[j] # Nada THEN jugadas[j].dos ELSE Nada,
     inv |-> IF jugadas[j] # Nada THEN jugadas[j].inv
             ELSE IF sentados[j] = {} THEN Nada ELSE creadas[j].inv]
S(j) == INSTANCE Sala WITH sala <- SalaDe(j)
EmpiezaComoSala == \A j \in Partidas : S(j)!Init
PasoDeSala == \A j \in Partidas : UNCHANGED SalaDe(j) \/ S(j)!Next
EsSala == EmpiezaComoSala /\ [][PasoDeSala]_vars
=============================================================================
