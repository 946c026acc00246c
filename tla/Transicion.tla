----------------------------- MODULE Transicion -----------------------------
(* TransisionActivity, composed with the matchmaking it opens: how a player   *)
(* hears of an invitation and accepts it, declines it, or lets it run out.    *)
(* Every opening of the activity is a menu of its own, whose listeners and    *)
(* clocks outlive it.  The invitations of the other players, the server and   *)
(* the searches are those of Emparejamiento.                                  *)
EXTENDS Emparejamiento
Sec == INSTANCE SequencesExt

CONSTANTS
    Siguen,         \* the players whose menus are followed
    Invitados,      \* bound: the players that are invited
    MaxRechazos,    \* bound: declined invitations a phone has queued
    MaxMenus,       \* bound: openings of the activity, numbered as they happen
    MaxOyentes,     \* bound: listeners of one menu, those beyond it do as these
    MaxDialogos     \* bound: dialogs of one menu that are up or have a clock

Menus == 1..MaxMenus

ASSUME SiguenAssumption == Siguen \subseteq Clientes /\ Invitados \subseteq Clientes
ASSUME CotasMenuAssumption == /\ MaxRechazos \in Nat /\ MaxMenus \in Nat
                              /\ MaxOyentes \in Nat \ {0} /\ MaxDialogos \in Nat

-----------------------------------------------------------------------------
FasesMenu == {"fuera", "activa", "pausada", "detenida", "fin", "caida"}

(* One menu: oyentes are the listeners DetectarJugada has registered and      *)
(* porOir those with an event due; dialogos are the dialogs in the order they *)
(* came up, each with a clock of its own, countDownTimerDial that of the last;*)
(* jPausado is true but while the menu is on the screen.                      *)
Dialogos == [visible : BOOLEAN, corre : BOOLEAN]
RegistrosMenu ==
    [fase : FasesMenu, quien : Clientes \cup {Nada}, oyentes : Nat, porOir : Nat,
     jugadaId : Partidas \cup {Nada}, dialogos : Seq(Dialogos)]

VARIABLES
    menu,       \* menu[p]: the menu p
    aviso,      \* aviso[c]: the match of the notification on phone c, or Nada
    antiguos    \* the phones with an Android before 8, of those followed

varsMenu == <<menu, aviso>>
varsTransicion == <<vars, menu, aviso, antiguos>>

SinAbrir == [fase |-> "fuera", quien |-> Nada, oyentes |-> 0, porOir |-> 0,
             jugadaId |-> Nada, dialogos |-> <<>>]

InitTransicion ==
    /\ Init
    /\ menu = [p \in Menus |-> SinAbrir]
    /\ aviso = [c \in Clientes |-> Nada]
    /\ antiguos \in SUBSET Siguen

MenusDe(c) == {p \in Menus : menu[p].quien = c}
Corre(m) == m.fase \notin {"fuera", "caida"}
Visibles(m) == {i \in DOMAIN m.dialogos : m.dialogos[i].visible}
ConReloj(m) == {i \in DOMAIN m.dialogos : m.dialogos[i].corre}
SinDialogo(c) == \A p \in MenusDe(c) : Visibles(menu[p]) = {}

-----------------------------------------------------------------------------
(* A match as phone c sees it: the last document that its own queued writes  *)
(* leave, or else the server's, with the second seat that its updates after   *)
(* that one take.                                                             *)
Propias(c, j) == {i \in 1..Len(pend[c]) : pend[c][i].j = j}
Enteras(c, j) == {i \in Propias(c, j) : pend[c][i].tipo \notin {"update", "rechazo"}}
Base(c, j) ==
    LET enteras == Enteras(c, j)
        ultima == CHOOSE i \in enteras : \A k \in enteras : k <= i
    IN IF enteras = {} THEN jugadas[j] ELSE Tras(c, pend[c][ultima], Nada)
Ve(c, j) ==
    LET base == Base(c, j)
        enteras == Enteras(c, j)
    IN IF base # Nada /\ \E i \in Propias(c, j) : \A k \in enteras : k < i
       THEN ConSegundo(base, c) ELSE base

(* The matches the listener of DetectarJugada would find pending (a match     *)
(* with an empty seat has neither abandonoID nor ganadorID).                  *)
PendientesConPropias(c) ==                                  \* mutant of Pendientes
    {j \in Partidas : Ve(c, j) # Nada /\ Ve(c, j).inv = c /\ Ve(c, j).dos = Nada}
Pendientes(c) ==
    {j \in Partidas : LET d == Ve(c, j) IN
        d # Nada /\ d.inv = c /\ d.uno # c /\ d.dos = Nada}

(* The players whose query finds something else than before: all its          *)
(* listeners have an event due.                                               *)
CambianConsulta ==
    {c \in Siguen : \E j \in Partidas :
        /\ creadas'[j] # Nada /\ creadas'[j].inv = c
        /\ Ve(c, j) # Ve(c, j)'}

Cota(k) == IF k > MaxOyentes THEN MaxOyentes ELSE k

(* DetectarJugada, k times; the first event of a listener is due at once. *)
DetectarJugada(m, k) == [m EXCEPT !.oyentes = Cota(@ + k), !.porOir = Cota(@ + k)]

(* onPause and onStop, of those that have not run. *)
Parado(m, fase) ==
    [DetectarJugada(m, CASE m.fase = "activa" -> 2 [] m.fase = "pausada" -> 1
                         [] OTHER -> 0)
     EXCEPT !.fase = fase]
Tapado(m) == IF m.fase \in {"activa", "pausada"} THEN Parado(m, "detenida") ELSE m

Caen == {c \in Siguen : \E b \in De(c) : act'[b].fase = "caida"}
AbrenPartida == {c \in Siguen : \E b \in De(c) : act'[b].abiertas # act[b].abiertas}

(* The menus become those of nuevos, and then: an application that ended has  *)
(* none, a match that opens covers them, and a change of what a query finds   *)
(* is an event to come for all its listeners.                                 *)
Quedan(nuevos) ==
    menu' = [p \in Menus |->
        LET c == nuevos[p].quien
            m == IF c \in AbrenPartida THEN Tapado(nuevos[p]) ELSE nuevos[p]
        IN CASE c \in Caen -> [SinAbrir EXCEPT !.fase = "caida", !.quien = c]
             [] c \in CambianConsulta \ Caen -> [m EXCEPT !.porOir = m.oyentes]
             [] OTHER -> m]
Queda(p, m) == Quedan([menu EXCEPT ![p] = m])

-----------------------------------------------------------------------------
(* onCreate, onStart and onResume: from the session, a match or the ranking.  *)
AbrirMenu(p, c) ==
    /\ menu[p].fase = "fuera"
    /\ \A q \in 1..(p - 1) : menu[q].fase # "fuera"
    /\ \A q \in MenusDe(c) : menu[q].fase \in {"detenida", "fin"}
    /\ \A b \in De(c) : act[b].fase \in {"detenida", "fin"}
    /\ UNCHANGED <<vars, aviso>>
    /\ Queda(p, DetectarJugada([SinAbrir EXCEPT !.fase = "activa", !.quien = c], 2))

(* onPause alone: a permission is asked for over the menu. *)
Pausar(p) ==
    /\ menu[p].fase = "activa"
    /\ UNCHANGED <<vars, aviso>>
    /\ Queda(p, [DetectarJugada(menu[p], 1) EXCEPT !.fase = "pausada"])

(* onResume alone registers nothing. *)
Reanudar(p) ==
    /\ menu[p].fase = "pausada"
    /\ UNCHANGED <<vars, aviso>>
    /\ Queda(p, [menu[p] EXCEPT !.fase = "activa"])

(* Another screen, of this application or not, covers the menu: onStop. *)
Cubrir(p) ==
    /\ menu[p].fase \in {"activa", "pausada"}
    /\ UNCHANGED <<vars, aviso>>
    /\ Queda(p, Tapado(menu[p]))

(* onRestart, onStart and onResume of the menu that is next on the stack.     *)
Regresar(p) ==
    /\ menu[p].fase = "detenida"
    /\ \A q \in MenusDe(menu[p].quien) : q > p => menu[q].fase = "fin"
    /\ \A b \in De(menu[p].quien) : act[b].fase \in {"detenida", "fin"}
    /\ UNCHANGED <<vars, aviso>>
    /\ Queda(p, [DetectarJugada(menu[p], 2) EXCEPT !.fase = "activa"])

(* The back key twice, signing out, a rotation or the system destroy the menu *)
(* (bound: with no dialog up); nothing cancels its listeners nor its clocks.  *)
Destruir(p) ==
    /\ menu[p].fase \in {"activa", "pausada", "detenida"}
    /\ Visibles(menu[p]) = {}
    /\ UNCHANGED <<vars, aviso>>
    /\ Queda(p, Parado(menu[p], "fin"))

-----------------------------------------------------------------------------
RefierePausado(m, j) ==                                     \* mutant of Refiere
    IF m.fase = "activa" THEN m ELSE [m EXCEPT !.jugadaId = j]
Refiere(m, j) == [m EXCEPT !.jugadaId = j]

(* A dialog that is closed and has no clock is forgotten, but for the last,   *)
(* which countDownTimerDial refers to, until there is no other.               *)
Muerto(d) == ~d.visible /\ ~d.corre
Olvida(ds, i) ==
    IF \A k \in DOMAIN ds : Muerto(ds[k]) THEN <<>>
    ELSE IF i < Len(ds) /\ Muerto(ds[i]) THEN Sec!RemoveAt(ds, i) ELSE ds

(* dialogo_NotificacionJugada: a dialog and its clock; the field refers to it.*)
Encima(ds) ==
    Append(IF ds # <<>> /\ Muerto(Sec!Last(ds)) THEN Sec!Front(ds) ELSE ds,
           [visible |-> TRUE, corre |-> TRUE])
DialogoSolo(m) ==                                           \* mutant of Dialogo
    [m EXCEPT !.dialogos = Encima([i \in DOMAIN @ |-> [@[i] EXCEPT !.corre = FALSE]])]
Dialogo(m) == [m EXCEPT !.dialogos = Encima(@)]

NotificaNada(c, j) == UNCHANGED aviso                       \* mutant of CrearNotificacion
(* crearNotificacionInterna: one notification, that of the last invitation.   *)
(* It names no channel and none is created anywhere; for an application whose *)
(* target is 29, Android 8 and later show nothing then.                       *)
CrearNotificacion(c, j) ==
    aviso' = IF c \in antiguos THEN [aviso EXCEPT ![c] = j] ELSE aviso

(* The listener finds no invitation pending, as will the others. *)
OirNada(p) ==
    /\ Corre(menu[p]) /\ menu[p].porOir > 0
    /\ Pendientes(menu[p].quien) = {}
    /\ UNCHANGED <<vars, aviso>>
    /\ Queda(p, [menu[p] EXCEPT !.porOir = 0])

(* The listener finds one first (documents come in the order of their ids,    *)
(* which are drawn at random): a dialog, or a notification when jPausado.     *)
Oir(p, j) ==
    /\ Corre(menu[p]) /\ menu[p].porOir > 0
    /\ j \in Pendientes(menu[p].quien)
    /\ UNCHANGED vars
    /\ LET m == Refiere([menu[p] EXCEPT !.porOir = @ - 1], j)
       IN \/ /\ menu[p].fase = "activa"
             /\ Cardinality(Visibles(menu[p]) \cup ConReloj(menu[p])) < MaxDialogos
             /\ Queda(p, Dialogo(m))
             /\ UNCHANGED aviso
          \/ /\ menu[p].fase # "activa"
             /\ Queda(p, m)
             /\ CrearNotificacion(menu[p].quien, j)

-----------------------------------------------------------------------------
(* The dialog on top is closed, and the clock the field refers to cancelled.  *)
Cierra(m) ==
    LET arriba == CHOOSE i \in Visibles(m) : \A k \in Visibles(m) : k <= i
    IN [m EXCEPT !.dialogos =
            Olvida([i \in DOMAIN @ |-> [visible |-> @[i].visible /\ i # arriba,
                                        corre |-> @[i].corre /\ i # Len(@)]], arriba)]

(* The oldest clock runs out and its dialog, if it is up, is closed. *)
Expirado(m) ==
    LET viejo == CHOOSE i \in ConReloj(m) : \A k \in ConReloj(m) : i <= k
    IN [m EXCEPT !.dialogos =
            Olvida([@ EXCEPT ![viejo] = [visible |-> FALSE, corre |-> FALSE]], viejo)]

TocaDialogo(p) == menu[p].fase = "activa" /\ Visibles(menu[p]) # {}
Siguiente(b) == act[b].fase = "fuera" /\ \A x \in 1..(b - 1) : act[x].fase # "fuera"

(* optenerTipoJugada, "pinvDirecta", for the match an intent names. *)
AbreInvitado(b, c, j) ==
    /\ Siguiente(b)
    /\ Pasa(b, [Abierta(c) EXCEPT !.jugadaId = j])
    /\ Acepta(b, c, j)
    /\ aviso' = [aviso EXCEPT ![c] = Nada]
    /\ UNCHANGED <<jugadas, debe, creadas, sentados, extras>>

(* aceptar: the match the field refers to by now is accepted, in a search     *)
(* that covers the menu.                                                      *)
Aceptar(p, b) ==
    /\ TocaDialogo(p)
    /\ AbreInvitado(b, menu[p].quien, menu[p].jugadaId)
    /\ Queda(p, Tapado(Cierra(menu[p])))

(* The notification: the task is cleared of its screens (bound: with no       *)
(* dialog up and no search on the screen), and the search opened.             *)
AbrirAviso(b, c) ==
    /\ aviso[c] # Nada
    /\ \A x \in De(c) : act[x].fase \in {"detenida", "fin"}
    /\ SinDialogo(c)
    /\ AbreInvitado(b, c, aviso[c])
    /\ Quedan([p \in Menus |-> IF p \in MenusDe(c) THEN Parado(menu[p], "fin")
                                                   ELSE menu[p]])

(* cancelarJugada: an update that asks neither whose the match is nor how it  *)
(* stands.                                                                    *)
CancelarJugada(m) ==
    /\ Cardinality({i \in 1..Len(pend[m.quien]) :
            pend[m.quien][i].tipo = "rechazo"}) < MaxRechazos
    /\ Ajena(m.quien, "rechazo", m.jugadaId, Nada)
    /\ UNCHANGED extras

(* cancelar *)
Cancelar(p) ==
    /\ TocaDialogo(p)
    /\ CancelarJugada(menu[p])
    /\ Queda(p, Cierra(menu[p]))
    /\ UNCHANGED aviso

(* onFinish of the clock of a dialog, wherever the menu is. *)
Expira(p) ==
    /\ Corre(menu[p]) /\ ConReloj(menu[p]) # {}
    /\ CancelarJugada(menu[p])
    /\ Queda(p, Expirado(menu[p]))
    /\ UNCHANGED aviso

-----------------------------------------------------------------------------
(* The openings of a search by the buttons of the menu and of the players     *)
(* online (bound: no link is followed).  It covers the menu.                  *)
DesdeMenu(c) ==
    c \in Siguen => \E p \in MenusDe(c) : menu[p].fase = "activa" /\ Visibles(menu[p]) = {}
Buscar(b, c) ==
    /\ DesdeMenu(c)
    /\ AbrirLibre(b, c) \/ \E inv \in Invitados : AbrirInvitando(b, c, inv)
    /\ Quedan([p \in Menus |-> IF p \in MenusDe(c) THEN Tapado(menu[p]) ELSE menu[p]])
    /\ UNCHANGED aviso

(* The rest of matchmaking, as it is (bound: of players that do not decline). *)
Sala1 ==
    /\ \/ \E b \in Busquedas : Avanza(b)
       \/ \E c \in Clientes : Aplica(c)
    /\ Quedan(menu)
    /\ UNCHANGED aviso

PasoMenu(p) ==
    \/ \E c \in Siguen : AbrirMenu(p, c)
    \/ Pausar(p) \/ Reanudar(p) \/ Cubrir(p) \/ Regresar(p) \/ Destruir(p)
    \/ OirNada(p) \/ \E j \in Partidas : Oir(p, j)
    \/ \E b \in Busquedas : Aceptar(p, b)
    \/ Cancelar(p) \/ Expira(p)

PasoTransicion ==
    \/ \E p \in Menus : PasoMenu(p)
    \/ \E b \in Busquedas, c \in Siguen : AbrirAviso(b, c)
    \/ \E b \in Busquedas, c \in Clientes : Buscar(b, c)
    \/ Sala1

NextTransicion == PasoTransicion /\ UNCHANGED antiguos

SpecTransicion == InitTransicion /\ [][NextTransicion]_varsTransicion

-----------------------------------------------------------------------------
(* Every variable holds a value of its kind, and a dialog or a clock finds a  *)
(* match to answer for (jugadaId, TransisionActivity:520, 585, 623).          *)
TipoTransicion ==
    /\ menu \in [Menus -> RegistrosMenu]
    /\ \A p \in Menus : menu[p].dialogos # <<>> => menu[p].jugadaId # Nada
    /\ aviso \in [Clientes -> Partidas \cup {Nada}]
    /\ antiguos \subseteq Siguen

(* Whatever the menus of a player do is what matchmaking expects of them:     *)
(* they accept and decline nothing but invitations of others, that have       *)
(* reached the server, to this player, and open no search over another        *)
(* (DetectarJugada and its dialog, TransisionActivity:504-635).               *)
PasoDeEmparejamiento ==
    UNCHANGED vars \/ Next \/ \E c \in Clientes, j \in Partidas : Declina(c, j) /\ UNCHANGED extras
EsEmparejamiento == [][PasoDeEmparejamiento]_vars

(* A player at the menu p who has heard all there is to hear has an          *)
(* invitation pending and sees none announced: no dialog is up whose buttons  *)
(* answer a pending invitation, nor is there a notification of one.           *)
SinAnunciar(p) ==
    LET pendientes == Pendientes(menu[p].quien) IN
    /\ menu[p].fase = "activa" /\ menu[p].porOir = 0 /\ pendientes # {}
    /\ ~(Visibles(menu[p]) # {} /\ menu[p].jugadaId \in pendientes)
    /\ aviso[menu[p].quien] \notin pendientes

(* No step leaves an invitation unannounced, over pauses, stops and returns,  *)
(* and other invitations that come and go, but for one: a menu that was only  *)
(* paused comes back by onResume alone, which listens to nothing new, on a    *)
(* phone that showed no notification of what was heard meanwhile (onPause to  *)
(* onRestart and DetectarJugada, TransisionActivity:409-455, 504-561).        *)
InvitacionAnunciada ==
    [][\A p \in Menus : SinAnunciar(p)' =>
          \/ SinAnunciar(p)
          \/ menu[p].fase = "pausada" /\ menu[p].quien \notin antiguos]_varsTransicion

(* A dialog cannot be dismissed, and covers the menu: each that is up has a   *)
(* clock of its own that will close it, however many came up over it, which   *)
(* were answered first and whichever clock the field refers to                *)
(* (dialogo_NotificacionJugada, TransisionActivity:562-620).                  *)
DialogoConReloj ==
    \A p \in Menus : Visibles(menu[p]) \subseteq ConReloj(menu[p])
=============================================================================
