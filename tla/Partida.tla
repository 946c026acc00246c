------------------------------ MODULE Partida -------------------------------
(* A match of MultPlayerActivity: the activities of the players' phones, the  *)
(* document of "jugadas" they all write whole, and their accounts in "users". *)
(* The Firestore client and server are modelled from how the activity uses    *)
(* them: every phone queues its writes and shows them to itself at once, the  *)
(* server applies the queues one write at a time, and the listener hears of   *)
(* the server's document only when its own phone has nothing pending.         *)
EXTENDS Marcador, Sequences

CONSTANTS
    Clientes,       \* the phones that open the match
    Uno,            \* jugadorUnoID, who created the document
    Dos,            \* the last client that took the second seat
    Nadie,          \* the empty string of an id field
    SinJugada,      \* the null of field jugada
    SinCuenta,      \* the null of the account the activity pays into
    Ordenes,        \* the orders Random().nextInt(3) may draw
    Inicios,        \* the initial situations, among Situaciones
    Abren,          \* bound: the clients that get as far as the match
    MaxToques,      \* bound: taps of one client
    MaxPend,        \* bound: writes a phone may have queued when it taps
    MaxPerdidos,    \* bound: clocks an activity may have lost the reference to
    MaxVueltas,     \* bound: times a client leaves the app and comes back
    MaxGiros        \* bound: times a client rotates its phone

Situaciones == {"aceptada", "desplazada", "rechazada"}

ASSUME JugadoresAssumption == Uno \in Clientes /\ Dos \in Clientes /\ Uno # Dos
ASSUME NadieAssumption == Nadie \notin Clientes
ASSUME OrdenesAssumption == Ordenes \subseteq TodasLasOrdenes
ASSUME IniciosAssumption == Inicios \subseteq Situaciones
ASSUME CotasAssumption == /\ Abren \subseteq Clientes
                          /\ MaxToques \in Nat /\ MaxPend \in Nat
                          /\ MaxPerdidos \in Nat /\ MaxVueltas \in Nat
                          /\ MaxGiros \in Nat

-----------------------------------------------------------------------------
(* The documents: a match (model/Jugada) and an account (model/User), and the *)
(* places of an activity in its life cycle.                                   *)
Jugadas == [dos : Clientes, p1 : Int, p2 : Int, tocate : TodasLasOrdenes,
            ganador : Clientes \cup {Nadie}, abandono : Clientes \cup {Nadie}]
Cuentas == [quien : Clientes, puntos : Int, gameDone : Nat]
Fases == {"fuera", "ausente", "jugando", "saliendo", "detenida", "fin", "caida"}

ASSUME NulosAssumption == SinJugada \notin Jugadas /\ SinCuenta \notin Cuentas

VARIABLES
    doc,       \* the document of "jugadas" on the server
    pend,      \* pend[c]: whole documents phone c has set and the server not yet
    alDia,     \* alDia[c]: the listener has no event coming while pend[c] is empty
    users,     \* users[c]: the document of "users" of client c
    fase,      \* fase[c]: where the activity is in its life cycle
    jug,       \* jug[c]: field jugada
    n,         \* n[c]: field n, the order the taps go by
    cont,      \* cont[c]: fields cont1 and cont2
    pedidos,   \* pedidos[c]: reads of "users" on their way
    nombres,   \* nombres[c]: sides whose name is known (nombreJuno, nombreJdos)
    copia,     \* copia[c]: userjUno or userjDos, the one of c's own side
    reloj,     \* reloj[c]: the clock countDownTimer refers to is running
    perdidos,  \* perdidos[c]: running clocks no field refers to any more
    dialogo,   \* dialogo[c]: the game-over dialog is on the screen
    hist,      \* hist[c]: values c's own counter has had (properties only)
    gasto      \* gasto[c]: taps, returns and rotations used up (bounds only)

firestore == <<doc, pend, alDia, users>>
actividad == <<fase, jug, n, cont, pedidos, nombres, copia, reloj, perdidos, dialogo>>
vars == <<firestore, actividad, hist, gasto>>

-----------------------------------------------------------------------------
Cuenta(c) == [quien |-> c, puntos |-> 0, gameDone |-> 0]
NuevaJugada(segundo) == [dos |-> segundo, p1 |-> 0, p2 |-> 0, tocate |-> 0,
                         ganador |-> Nadie, abandono |-> Nadie]

Lados == {"uno", "dos"}
LadoDelSegundo(c) == IF c = Dos THEN "dos" ELSE "uno"         \* mutant of Lado
Lado(c) == IF c = Uno THEN "uno" ELSE "dos"
PuntosDelOtro(c, j) == IF c = Uno THEN j.p2 ELSE j.p1         \* mutant of MisPuntos
MisPuntos(c, j) == IF c = Uno THEN j.p1 ELSE j.p2
MiCuenta(c, k) == IF c = Uno THEN k.c1 ELSE k.c2
SoyDos(c, j) == j.dos = c
SinNombres(c) == nombres[c] # Lados
PuedePagar(c) == copia[c] # SinCuenta
EnPantalla(c) == fase[c] \in {"jugando", "saliendo"}

-----------------------------------------------------------------------------
(* The document as FindGameActivity leaves it: the second seat is taken.  A   *)
(* third client that took the seat at the same time is in it until the set of *)
(* the second one arrives.  An invitation that was declined has its guest in  *)
(* jugadorDosID and abandonoID, and the guest never opens the match.          *)
Aceptada ==
    /\ doc = NuevaJugada(Dos)
    /\ pend = [c \in Clientes |-> <<>>]
    /\ fase = [c \in Clientes |-> "fuera"]

Desplazada(tercero) ==
    /\ doc = NuevaJugada(tercero)
    /\ pend = [c \in Clientes |-> IF c = Dos THEN <<NuevaJugada(Dos)>> ELSE <<>>]
    /\ fase = [c \in Clientes |-> "fuera"]

Rechazada ==
    /\ doc = [NuevaJugada(Dos) EXCEPT !.abandono = Dos]
    /\ pend = [c \in Clientes |-> <<>>]
    /\ fase = [c \in Clientes |-> IF c = Uno THEN "fuera" ELSE "ausente"]

Init ==
    /\ \/ "aceptada" \in Inicios /\ Aceptada
       \/ "desplazada" \in Inicios /\ \E t \in Clientes \ {Uno, Dos} : Desplazada(t)
       \/ "rechazada" \in Inicios /\ Rechazada
    /\ alDia = [c \in Clientes |-> FALSE]
    /\ users = [c \in Clientes |-> Cuenta(c)]
    /\ jug = [c \in Clientes |-> SinJugada]
    /\ n = [c \in Clientes |-> 0]
    /\ cont = [c \in Clientes |-> [c1 |-> 0, c2 |-> 0]]
    /\ pedidos = [c \in Clientes |-> {}]
    /\ nombres = [c \in Clientes |-> {}]
    /\ copia = [c \in Clientes |-> SinCuenta]
    /\ reloj = [c \in Clientes |-> FALSE]
    /\ perdidos = [c \in Clientes |-> 0]
    /\ dialogo = [c \in Clientes |-> FALSE]
    /\ hist = [c \in Clientes |-> {0}]
    /\ gasto = [c \in Clientes |-> [toques |-> 0, vueltas |-> 0, giros |-> 0]]

-----------------------------------------------------------------------------
(* onCreate and onStart: the listener is registered with nothing pending, so  *)
(* its first event is due.                                                    *)
Abrir(c) ==
    /\ fase[c] = "fuera"
    /\ c \in Abren
    /\ pend[c] = <<>>
    /\ fase' = [fase EXCEPT ![c] = "jugando"]
    /\ alDia' = [alDia EXCEPT ![c] = FALSE]
    /\ UNCHANGED <<doc, pend, users, jug, n, cont, pedidos, nombres, copia, reloj,
                   perdidos, dialogo, hist, gasto>>

(* recibirDBjugada: the match goes on unless somebody has abandoned it. *)
Sigue(j) == j.abandono = Nadie

(* jugadaListener.onEvent with a "Server" snapshot.  While a name is missing  *)
(* every event asks for both players again and starts another clock; the one  *)
(* that was running goes on with no reference to it.  An abandoned match      *)
(* cancels the clock and shows the dialog.                                    *)
Evento(c) ==
    /\ EnPantalla(c)
    /\ pend[c] = <<>>
    /\ ~alDia[c]
    /\ SinNombres(c) /\ reloj[c] => perdidos[c] < MaxPerdidos
    /\ alDia' = [alDia EXCEPT ![c] = TRUE]
    /\ jug' = [jug EXCEPT ![c] = doc]
    /\ IF SinNombres(c)
       THEN /\ pedidos' = [pedidos EXCEPT ![c] = @ \cup
                              {[lado |-> "uno", de |-> Uno],
                               [lado |-> "dos", de |-> doc.dos]}]
            /\ n' = [n EXCEPT ![c] = doc.tocate]
            /\ perdidos' = [perdidos EXCEPT ![c] = IF reloj[c] THEN @ + 1 ELSE @]
       ELSE UNCHANGED <<pedidos, n, perdidos>>
    /\ reloj' = [reloj EXCEPT ![c] = Sigue(doc) /\ (@ \/ SinNombres(c))]
    /\ dialogo' = [dialogo EXCEPT ![c] = @ \/ ~Sigue(doc)]
    /\ UNCHANGED <<doc, pend, users, fase, cont, nombres, copia, hist, gasto>>

(* getnombresJugadores: one of the reads of "users" is answered. *)
Nombres(c, q) ==
    /\ EnPantalla(c)
    /\ q \in pedidos[c]
    /\ pedidos' = [pedidos EXCEPT ![c] = @ \ {q}]
    /\ nombres' = [nombres EXCEPT ![c] = @ \cup {q.lado}]
    /\ copia' = [copia EXCEPT ![c] = IF q.lado = Lado(c) THEN users[q.de] ELSE @]
    /\ UNCHANGED <<firestore, fase, jug, n, cont, reloj, perdidos, dialogo,
                   hist, gasto>>

-----------------------------------------------------------------------------
(* The phone sets the whole document and shows it to itself. *)
EscribeCopia(c, j) == UNCHANGED jug /\ pend' = [pend EXCEPT ![c] = Append(@, j)]  \* mutant of Escribe
Escribe(c, j) ==
    /\ jug' = [jug EXCEPT ![c] = j]
    /\ pend' = [pend EXCEPT ![c] = Append(@, j)]

(* eventoClic and actualizarDBjugada: the counters the order touches, then    *)
(* both of them and a new order into the document.                            *)
Toque(c, img, orden) ==
    /\ fase[c] = "jugando"
    /\ ~dialogo[c]
    /\ jug[c] # SinJugada
    /\ gasto[c].toques < MaxToques
    /\ Len(pend[c]) < MaxPend
    /\ LET k == Tanteo(img, n[c], c = Uno, SoyDos(c, jug[c]), jug[c], cont[c])
       IN /\ cont' = [cont EXCEPT ![c] = k]
          /\ Escribe(c, [jug[c] EXCEPT !.p1 = k.c1, !.p2 = k.c2, !.tocate = orden])
          /\ hist' = [hist EXCEPT ![c] = @ \cup {MiCuenta(c, k)}]
    /\ n' = [n EXCEPT ![c] = orden]
    /\ gasto' = [gasto EXCEPT ![c].toques = @ + 1]
    /\ UNCHANGED <<doc, alDia, users, fase, pedidos, nombres, copia, reloj, perdidos,
                   dialogo>>

(* A tap or the back key before the first event: jugada is null, and the      *)
(* exception ends the application.                                            *)
SinPartida(c) ==
    /\ fase[c] = "jugando"
    /\ ~dialogo[c]
    /\ jug[c] = SinJugada
    /\ fase' = [fase EXCEPT ![c] = "caida"]
    /\ UNCHANGED <<firestore, jug, n, cont, pedidos, nombres, copia, reloj, perdidos,
                   dialogo, hist, gasto>>

-----------------------------------------------------------------------------
GanadorPorLado(j) == IF j.p1 > j.p2 THEN "uno" ELSE "dos"       \* mutant of Ganador
Ganador(j) == IF j.p1 > j.p2 THEN Uno ELSE j.dos
ConGanadorPrimero(j) == IF j.ganador = Nadie THEN [j EXCEPT !.ganador = Ganador(j)]
                        ELSE j                                \* mutant of ConGanador
ConGanador(j) == [j EXCEPT !.ganador = Ganador(j)]

(* actualizarDBuser: the copy of the account with the points of the copy of   *)
(* the match, which then overwrites the account.                              *)
Pagada(c, j) == [copia[c] EXCEPT !.puntos = @ + MisPuntos(c, j),
                                !.gameDone = @ + 1]
PagaSinCopia(c, j) == users' = [users EXCEPT ![c] = Pagada(c, j)] /\ UNCHANGED copia  \* mutant of Paga
Paga(c, j) ==
    /\ copia' = [copia EXCEPT ![c] = Pagada(c, j)]
    /\ users' = [users EXCEPT ![c] = Pagada(c, j)]

(* funcionGameover: the winner goes to the document, then the player is paid; *)
(* if its account was never read that is a null and the application ends with *)
(* the document already set, in the phase "caida" instead of the next one.    *)
FuncionGameover(c, j, siguiente) ==
    /\ Escribe(c, ConGanador(j))
    /\ IF PuedePagar(c)
       THEN /\ Paga(c, j)
            /\ fase' = [fase EXCEPT ![c] = siguiente]
       ELSE /\ UNCHANGED <<copia, users>>
            /\ fase' = [fase EXCEPT ![c] = "caida"]

(* mutant of Expira: the end of the clock shows no dialog *)
ExpiraSinDialogo(c) ==
    /\ EnPantalla(c)
    /\ reloj[c]
    /\ perdidos[c] = 0
    /\ FuncionGameover(c, jug[c], fase[c])
    /\ reloj' = [reloj EXCEPT ![c] = FALSE]
    /\ UNCHANGED <<doc, alDia, n, cont, pedidos, nombres, perdidos, dialogo, hist, gasto>>

(* countDownTimer.onFinish: the lost clocks are older and end before it. *)
Expira(c) ==
    /\ EnPantalla(c)
    /\ reloj[c]
    /\ perdidos[c] = 0
    /\ FuncionGameover(c, jug[c], fase[c])
    /\ reloj' = [reloj EXCEPT ![c] = FALSE]
    /\ dialogo' = [dialogo EXCEPT ![c] = TRUE]
    /\ UNCHANGED <<doc, alDia, n, cont, pedidos, nombres, perdidos, hist, gasto>>

(* onFinish of a clock nobody could cancel: the activity may be stopped, or   *)
(* destroyed, and then showing the dialog ends the application.               *)
ExpiraPerdido(c) ==
    /\ fase[c] \in {"jugando", "saliendo", "detenida", "fin"}
    /\ perdidos[c] > 0
    /\ FuncionGameover(c, jug[c], IF fase[c] = "fin" THEN "caida" ELSE fase[c])
    /\ perdidos' = [perdidos EXCEPT ![c] = @ - 1]
    /\ dialogo' = [dialogo EXCEPT ![c] = TRUE]
    /\ UNCHANGED <<doc, alDia, n, cont, pedidos, nombres, reloj, hist, gasto>>

(* onBackPressed *)
Atras(c) ==
    /\ fase[c] = "jugando"
    /\ ~dialogo[c]
    /\ jug[c] # SinJugada
    /\ FuncionGameover(c, [jug[c] EXCEPT !.abandono = c], "saliendo")
    /\ reloj' = [reloj EXCEPT ![c] = FALSE]
    /\ UNCHANGED <<doc, alDia, n, cont, pedidos, nombres, perdidos, dialogo, hist, gasto>>

(* The dialog's buttons and its own clock, all of which finish the activity.  *)
SalirDialogo(c) ==
    /\ dialogo[c]
    /\ \/ fase[c] = "jugando" /\ fase' = [fase EXCEPT ![c] = "saliendo"]
       \/ fase[c] = "detenida" /\ fase' = [fase EXCEPT ![c] = "fin"]
    /\ UNCHANGED <<firestore, jug, n, cont, pedidos, nombres, copia, reloj, perdidos,
                   dialogo, hist, gasto>>

-----------------------------------------------------------------------------
(* onStop: the listener goes, the match is closed and paid as at its end, and *)
(* the answers still on their way are dropped (their listeners belong to the  *)
(* activity).                                                                 *)
Parar(c) ==
    /\ EnPantalla(c)
    /\ jug[c] # SinJugada
    /\ FuncionGameover(c, jug[c], IF fase[c] = "saliendo" THEN "fin" ELSE "detenida")
    /\ reloj' = [reloj EXCEPT ![c] = FALSE]
    /\ pedidos' = [pedidos EXCEPT ![c] = {}]
    /\ UNCHANGED <<doc, alDia, n, cont, nombres, perdidos, dialogo, hist, gasto>>

(* onStop before the first event: jugada is null. *)
PararSinPartida(c) ==
    /\ EnPantalla(c)
    /\ jug[c] = SinJugada
    /\ fase' = [fase EXCEPT ![c] = "caida"]
    /\ UNCHANGED <<firestore, jug, n, cont, pedidos, nombres, copia, reloj, perdidos,
                   dialogo, hist, gasto>>

(* onStart again: the listener is registered anew; its first event is "Local" *)
(* and ignored when writes are pending, and their acknowledgement is no event.*)
Volver(c) ==
    /\ fase[c] = "detenida"
    /\ gasto[c].vueltas < MaxVueltas
    /\ fase' = [fase EXCEPT ![c] = "jugando"]
    /\ alDia' = [alDia EXCEPT ![c] = pend[c] # <<>>]
    /\ gasto' = [gasto EXCEPT ![c].vueltas = @ + 1]
    /\ UNCHANGED <<doc, pend, users, jug, n, cont, pedidos, nombres, copia, reloj,
                   perdidos, dialogo, hist>>

(* A rotation: onStop of this activity, then onCreate and onStart of another  *)
(* one, which starts with every field empty.  Taken only with no dialog up    *)
(* and no lost clock running, which would go on in the old activity.          *)
Girar(c) ==
    /\ fase[c] = "jugando"
    /\ jug[c] # SinJugada
    /\ PuedePagar(c)
    /\ ~dialogo[c] /\ perdidos[c] = 0
    /\ gasto[c].giros < MaxGiros
    /\ pend' = [pend EXCEPT ![c] = Append(@, ConGanador(jug[c]))]
    /\ users' = [users EXCEPT ![c] = Pagada(c, jug[c])]
    /\ alDia' = [alDia EXCEPT ![c] = TRUE]
    /\ jug' = [jug EXCEPT ![c] = SinJugada]
    /\ n' = [n EXCEPT ![c] = 0]
    /\ cont' = [cont EXCEPT ![c] = [c1 |-> 0, c2 |-> 0]]
    /\ pedidos' = [pedidos EXCEPT ![c] = {}]
    /\ nombres' = [nombres EXCEPT ![c] = {}]
    /\ copia' = [copia EXCEPT ![c] = SinCuenta]
    /\ reloj' = [reloj EXCEPT ![c] = FALSE]
    /\ gasto' = [gasto EXCEPT ![c].giros = @ + 1]
    /\ UNCHANGED <<doc, fase, perdidos, dialogo, hist>>

-----------------------------------------------------------------------------
(* The server applies the oldest write of a phone.  Its phone, once nothing   *)
(* is pending, holds what the server holds; the others hear of a change.      *)
Aplica(c) ==
    /\ pend[c] # <<>>
    /\ doc' = Head(pend[c])
    /\ pend' = [pend EXCEPT ![c] = Tail(@)]
    /\ alDia' = [d \in Clientes |-> d = c \/ (alDia[d] /\ doc' = doc)]
    /\ UNCHANGED <<users, actividad, hist, gasto>>

-----------------------------------------------------------------------------
Paso(c) ==
    \/ Abrir(c) \/ Evento(c) \/ Aplica(c)
    \/ \E q \in pedidos[c] : Nombres(c, q)
    \/ \E img \in Imagenes, orden \in Ordenes : Toque(c, img, orden)
    \/ SinPartida(c) \/ Expira(c) \/ ExpiraPerdido(c) \/ Atras(c)
    \/ SalirDialogo(c) \/ Parar(c) \/ PararSinPartida(c) \/ Volver(c) \/ Girar(c)

Next == \E c \in Clientes : Paso(c)

Spec == Init /\ [][Next]_vars

(* Clocks run out, the dialog leaves by its own clock, and an activity that   *)
(* finishes is stopped.  Nothing else is promised: no tap, no network.        *)
Equidad(c) ==
    /\ WF_vars(Expira(c))
    /\ WF_vars(ExpiraPerdido(c))
    /\ WF_vars(SalirDialogo(c))
    /\ WF_vars(fase[c] = "saliendo" /\ (Parar(c) \/ PararSinPartida(c)))

SpecJusta == Spec /\ \A c \in Clientes : Equidad(c)

-----------------------------------------------------------------------------
(* Every variable holds a value of its kind. *)
TypeOK ==
    /\ doc \in Jugadas
    /\ pend \in [Clientes -> Seq(Jugadas)]
    /\ alDia \in [Clientes -> BOOLEAN]
    /\ users \in [Clientes -> Cuentas]
    /\ fase \in [Clientes -> Fases]
    /\ jug \in [Clientes -> Jugadas \cup {SinJugada}]
    /\ n \in [Clientes -> TodasLasOrdenes]
    /\ cont \in [Clientes -> [c1 : Int, c2 : Int]]
    /\ pedidos \in [Clientes -> SUBSET [lado : Lados, de : Clientes]]
    /\ nombres \in [Clientes -> SUBSET Lados]
    /\ copia \in [Clientes -> Cuentas \cup {SinCuenta}]
    /\ reloj \in [Clientes -> BOOLEAN]
    /\ perdidos \in [Clientes -> Nat]
    /\ dialogo \in [Clientes -> BOOLEAN]
    /\ hist \in [Clientes -> SUBSET Int]
    /\ gasto \in [Clientes -> [toques : Nat, vueltas : Nat, giros : Nat]]

-----------------------------------------------------------------------------
(* What a phone shows of the match is either its own last write, while the    *)
(* server has not applied it, or, when no event is due, exactly the server's  *)
(* document: two players who have nothing in flight look at the same score,   *)
(* although acknowledgements bring no event (jugadaListener,                  *)
(* MultPlayerActivity:201-205).                                               *)
VistaFielDe(c) ==
    EnPantalla(c) /\ jug[c] # SinJugada =>
        IF pend[c] # <<>> THEN jug[c] = pend[c][Len(pend[c])]
                          ELSE alDia[c] => jug[c] = doc
VistaFiel == \A c \in Clientes : VistaFielDe(c)

Cerrada(c) == fase[c] \in {"detenida", "fin", "ausente"}
GanaElMarcador(j) == j.ganador = IF j.p1 > j.p2 THEN Uno ELSE j.dos

(* Once every player has left the match and every phone has been heard, the   *)
(* winner in the document is the one its own score gives, however the writes  *)
(* of the two phones were interleaved: every phone's last whole-document set  *)
(* is the one of funcionGameover (MultPlayerActivity:447-457, 556-564).       *)
GanadorDelMarcador ==
    (\A c \in Clientes : Cerrada(c) /\ pend[c] = <<>>) => GanaElMarcador(doc)

(* The writes of the two phones overwrite one another, scores go back to old  *)
(* values and a rotation starts from zero, but no score that is not a value   *)
(* its player's own counter once had is ever shown, sent or stored            *)
(* (eventoClic, MultPlayerActivity:114-188).  For matches of two clients.     *)
SinPuntosInventados ==
    LET Real(j) == j.p1 \in hist[Uno] /\ j.p2 \in hist[Dos]
    IN /\ Real(doc)
       /\ \A c \in Clientes : /\ jug[c] # SinJugada => Real(jug[c])
                              /\ \A i \in 1..Len(pend[c]) : Real(pend[c][i])

(* The copy of its own account that an activity adds points to is the account *)
(* as it is: no payment is ever overwritten by an older copy, over returns,   *)
(* rotations and late answers (actualizarDBuser, MultPlayerActivity:230-257). *)
(* For matches of two clients.                                                *)
CopiaAlDia ==
    \A c \in Clientes : PuedePagar(c) => copia[c] = users[c]

(* A client displaced from the second seat overwrites its own account with    *)
(* another client's record, but never with the host's, and the host's account *)
(* is never overwritten with another's (actualizarDBuser and                  *)
(* getnombresJugadores, MultPlayerActivity:230-242, 287-361).                 *)
CuentaDelAnfitrion == \A c \in Clientes : users[c].quien = Uno <=> c = Uno

(* An account changes only by a score its own player's counter really had     *)
(* (actualizarDBuser).  For matches of two clients.                           *)
PagoDeSusPuntos ==
    \A c \in Clientes : users'[c] # users[c] =>
        users'[c].puntos - users[c].puntos \in hist[c]
PagoRespaldado == [][PagoDeSusPuntos]_vars

(* A match with its clock running is left: the clock, or another player's     *)
(* abandonment, brings the dialog, which leaves by itself (MultPlayerActivity *)
(* :211-222, 280-282, 533-546).  Rotations excluded: they lose the clock.     *)
Termina ==
    \A c \in Clientes : (fase[c] = "jugando" /\ reloj[c]) ~>
                        fase[c] \in {"detenida", "fin", "caida"}
=============================================================================
