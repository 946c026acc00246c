----------------------------- MODULE JuegoSolo ------------------------------
(* The single game of GameActivity: rounds of 62 seconds on one account.  The *)
(* menu opens an activity every time, the back key leaves it below the new    *)
(* menu and a rotation replaces it, so several activities of one player may   *)
(* exist; one is on the screen.  An activity refers to one clock of the round *)
(* (countDownTimer), one of a return (countDownTimeronResume) and one of a    *)
(* dialog (countDownTimerDial); a clock it no longer refers to goes on.       *)
EXTENDS Integers

CONSTANTS
    Pantallas,      \* the activities
    SinCuenta,      \* the null of userjUno
    MaxToques,      \* bound: taps, there are none once an activity has had as many
    MaxRondas,      \* bound: rounds of one activity
    MaxVueltas      \* bound: returns, as the taps

ASSUME CotasSoloAssumption ==
    MaxToques \in Nat /\ MaxRondas \in Nat /\ MaxVueltas \in Nat

Cuentas == [puntos : Int, gameDone : Nat]
ASSUME NuloAssumption == SinCuenta \notin Cuentas

FasesSolo == {"fuera", "activa", "pausada", "tapada", "fin", "caida"}
OrdenesSolo == 0..1

(* One activity: its place in the life cycle and its fields.  dialogos are    *)
(* the game-over dialogs up, each with its clock; refDial says that the field *)
(* refers to the clock of the top one; sueltos are clocks of closed dialogs.  *)
(* pagos counts its payments (properties only); toques, rondas and vueltas    *)
(* what it has used of the bounds.                                            *)
Actividades ==
    [fase : FasesSolo, listo : BOOLEAN, n : OrdenesSolo, puntosUid : Int,
     isPause : BOOLEAN, principal : BOOLEAN, reanuda : BOOLEAN, huerfanos : Nat,
     dialogos : Nat, refDial : BOOLEAN, sueltos : Nat,
     pedido : BOOLEAN, userjUno : Cuentas \cup {SinCuenta},
     pagos : Nat, toques : Nat, rondas : Nat, vueltas : Nat]

VARIABLES
    act,       \* act[p]: activity p
    cuenta     \* the document of "users" of the player

vars == <<act, cuenta>>

-----------------------------------------------------------------------------
Nueva(fase) ==
    [fase |-> fase, listo |-> FALSE, n |-> 0, puntosUid |-> 0,
     isPause |-> FALSE, principal |-> FALSE, reanuda |-> FALSE, huerfanos |-> 0,
     dialogos |-> 0, refDial |-> FALSE, sueltos |-> 0,
     pedido |-> FALSE, userjUno |-> SinCuenta,
     pagos |-> 0, toques |-> 0, rondas |-> 0, vueltas |-> 0]

Init == /\ act = [p \in Pantallas |-> Nueva("fuera")]
        /\ cuenta = [puntos |-> 0, gameDone |-> 0]

Pasa(p, a) == act' = [act EXCEPT ![p] = a]
Jugable(a) == a.fase = "activa" /\ a.listo /\ a.dialogos = 0

(* onResume starts a clock; the one the field referred to is not cancelled.   *)
Empieza(a) == [a EXCEPT !.huerfanos = IF a.principal THEN @ + 1 ELSE @,
                        !.principal = TRUE]
OnResumeAmbos(a) == [Empieza(a) EXCEPT !.reanuda = a.isPause]   \* mutant of OnResume
OnResumeNueva(a) == IF a.isPause THEN a ELSE Empieza(a)         \* mutant of OnResume
OnResume(a) == IF a.isPause THEN [a EXCEPT !.reanuda = TRUE] ELSE Empieza(a)

(* onPause cancels the two clocks the fields refer to. *)
OnPause(a) == [a EXCEPT !.principal = FALSE, !.reanuda = FALSE, !.isPause = TRUE]

-----------------------------------------------------------------------------
(* onCreate and onResume: the account is asked for and the first round starts.*)
Abrir(p) ==
    /\ act[p].fase = "fuera"
    /\ \A q \in Pantallas : act[q].fase \notin {"activa", "pausada", "caida"}
    /\ Pasa(p, [OnResume(Nueva("activa")) EXCEPT !.pedido = TRUE, !.rondas = 1])
    /\ UNCHANGED cuenta

(* getnombrePuntos is answered. *)
Leer(p) ==
    /\ act[p].pedido
    /\ act[p].fase \in {"activa", "pausada"}
    /\ Pasa(p, [act[p] EXCEPT !.pedido = FALSE, !.userjUno = cuenta])
    /\ UNCHANGED cuenta

(* The points are set and actualizarAciertos draws another order. *)
Acierta(a, puntos, orden) == [a EXCEPT !.puntosUid = puntos, !.n = orden]

(* The 2 seconds before the pictures are shown and listen to taps. *)
Preparar(p, orden) ==
    /\ act[p].fase \in {"activa", "pausada", "tapada"}
    /\ ~act[p].listo
    /\ Pasa(p, [Acierta(act[p], 0, orden) EXCEPT !.listo = TRUE])
    /\ UNCHANGED cuenta

(* eventoClic, the player's own picture and the other one. *)
PuntosFoto(a) == IF a.n = 0 THEN a.puntosUid + 1
                 ELSE IF a.puntosUid >= 0 THEN a.puntosUid - 1 ELSE a.puntosUid
PuntosIvjDosDesdeCero(a) == IF a.n = 1 THEN a.puntosUid + 1     \* mutant of PuntosIvjDos
                            ELSE IF a.puntosUid >= 0 THEN a.puntosUid - 2 ELSE a.puntosUid
PuntosIvjDos(a) == IF a.n = 1 THEN a.puntosUid + 1
                   ELSE IF a.puntosUid >= 1 THEN a.puntosUid - 2 ELSE a.puntosUid

Toca(p, puntos, orden) ==
    /\ Jugable(act[p])
    /\ \A q \in Pantallas : act[q].toques < MaxToques
    /\ Pasa(p, [Acierta(act[p], puntos, orden) EXCEPT !.toques = @ + 1])
    /\ UNCHANGED cuenta
TocarFoto(p, orden) == Toca(p, PuntosFoto(act[p]), orden)
TocarIvjDos(p, orden) == Toca(p, PuntosIvjDos(act[p]), orden)

-----------------------------------------------------------------------------
(* An exception ends the application, with activity p as a. *)
Caida(p, a) ==
    act' = [q \in Pantallas |-> [(IF q = p THEN a ELSE act[q]) EXCEPT !.fase = "caida"]]

Pagada(a) == [puntos |-> a.userjUno.puntos + a.puntosUid,
              gameDone |-> a.userjUno.gameDone + 1]
Dialogo(a) == [a EXCEPT !.dialogos = @ + 1, !.refDial = TRUE]

(* funcionGameover of an activity whose clock has just ended (a): the account *)
(* is overwritten with the copy read at the start plus the points, and the    *)
(* dialog comes up, which a destroyed activity cannot show.                   *)
FuncionGameover(p, a) ==
    IF a.userjUno = SinCuenta
    THEN Caida(p, a) /\ UNCHANGED cuenta
    ELSE LET pagada == [a EXCEPT !.userjUno = Pagada(a), !.isPause = TRUE,
                                 !.pagos = @ + 1]
         IN /\ cuenta' = Pagada(a)
            /\ IF a.fase = "fin" THEN Caida(p, pagada) ELSE Pasa(p, Dialogo(pagada))

(* The clock of the round ends; those it has lost are older and end before.   *)
ExpiraEnSilencio(p) ==                                     \* mutant of ExpiraPrincipal
    /\ act[p].principal /\ act[p].huerfanos = 0 /\ act[p].listo
    /\ Pasa(p, [act[p] EXCEPT !.principal = FALSE])
    /\ UNCHANGED cuenta
ExpiraPrincipal(p) ==
    /\ act[p].fase = "activa"
    /\ act[p].principal /\ act[p].huerfanos = 0 /\ act[p].listo
    /\ FuncionGameover(p, [act[p] EXCEPT !.principal = FALSE])

(* The clock of a return, of what was left of the last clock, ends. *)
ExpiraReanuda(p) ==
    /\ act[p].fase = "activa"
    /\ act[p].reanuda /\ act[p].listo
    /\ FuncionGameover(p, [act[p] EXCEPT !.reanuda = FALSE])

(* A lost clock ends, wherever the activity is. *)
ExpiraHuerfano(p) ==
    /\ act[p].fase \in {"activa", "pausada", "tapada", "fin"}
    /\ act[p].huerfanos > 0
    /\ FuncionGameover(p, [act[p] EXCEPT !.huerfanos = @ - 1])

-----------------------------------------------------------------------------
(* The top dialog goes; its clock is cancelled when it is the one referred to.*)
Cierra(a) == [a EXCEPT !.dialogos = @ - 1, !.refDial = FALSE,
                       !.sueltos = IF a.refDial THEN @ ELSE @ + 1]

(* The button that starts another round. *)
Reiniciar(p, orden) ==
    /\ act[p].fase = "activa" /\ act[p].dialogos > 0
    /\ act[p].rondas < MaxRondas
    /\ Pasa(p, OnResume([Acierta(Cierra(act[p]), 0, orden) EXCEPT !.isPause = FALSE,
                                                                  !.rondas = @ + 1]))
    /\ UNCHANGED cuenta

(* The button of the ranking finishes the activity. *)
VerRanking(p) ==
    /\ act[p].fase = "activa" /\ act[p].dialogos > 0
    /\ Pasa(p, [OnPause(Cierra(act[p])) EXCEPT !.fase = "fin", !.pedido = FALSE])
    /\ UNCHANGED cuenta

DialExpiraSinDialogo(p) ==                                 \* mutant of DialExpira
    /\ act[p].fase = "activa"
    /\ Pasa(p, [OnPause(act[p]) EXCEPT !.fase = "fin", !.dialogos = @ - 1])
    /\ UNCHANGED cuenta

(* The clock of a dialog that is up finishes the activity, and closing the    *)
(* dialog of one that is already destroyed ends the application.              *)
DialExpira(p) ==
    /\ act[p].dialogos > 0
    /\ UNCHANGED cuenta
    /\ \/ /\ act[p].fase \in {"activa", "pausada", "tapada"}
          /\ Pasa(p, [OnPause(act[p]) EXCEPT !.fase = "fin", !.pedido = FALSE,
                                             !.dialogos = @ - 1])
       \/ act[p].fase = "fin" /\ Caida(p, act[p])

(* The clock of a dialog that was closed finishes the activity all the same.  *)
SueltoExpira(p) ==
    /\ act[p].sueltos > 0
    /\ act[p].fase \in {"activa", "pausada", "tapada"}
    /\ Pasa(p, [OnPause(act[p]) EXCEPT !.fase = "fin", !.pedido = FALSE,
                                       !.sueltos = @ - 1])
    /\ UNCHANGED cuenta

-----------------------------------------------------------------------------
(* onPause; when the activity is also stopped, the answer to come is lost.    *)
Pausar(p) ==
    /\ act[p].fase = "activa"
    /\ \E parada \in BOOLEAN :
          Pasa(p, [OnPause(act[p]) EXCEPT !.fase = "pausada", !.pedido = @ /\ ~parada])
    /\ UNCHANGED cuenta

(* onResume *)
Volver(p) ==
    /\ act[p].fase = "pausada"
    /\ \A q \in Pantallas : act[q].vueltas < MaxVueltas
    /\ Pasa(p, [OnResume(act[p]) EXCEPT !.fase = "activa", !.vueltas = @ + 1])
    /\ UNCHANGED cuenta

(* onBackPressed opens the menu over the activity, which stays below it.      *)
Atras(p) ==
    /\ act[p].fase = "activa" /\ act[p].dialogos = 0
    /\ Pasa(p, [OnPause(act[p]) EXCEPT !.fase = "tapada", !.pedido = FALSE])
    /\ UNCHANGED cuenta

(* A rotation, the system or the "Cancel" of SelectProfilePic destroys it.    *)
Destruir(p) ==
    /\ act[p].fase \in {"activa", "pausada", "tapada"}
    /\ Pasa(p, [OnPause(act[p]) EXCEPT !.fase = "fin", !.pedido = FALSE])
    /\ UNCHANGED cuenta

-----------------------------------------------------------------------------
Paso(p) ==
    \/ Abrir(p) \/ Leer(p)
    \/ \E orden \in OrdenesSolo : \/ Preparar(p, orden) \/ TocarFoto(p, orden)
                                  \/ TocarIvjDos(p, orden) \/ Reiniciar(p, orden)
    \/ ExpiraPrincipal(p) \/ ExpiraReanuda(p) \/ ExpiraHuerfano(p)
    \/ VerRanking(p) \/ DialExpira(p) \/ SueltoExpira(p)
    \/ Pausar(p) \/ Volver(p) \/ Atras(p) \/ Destruir(p)

Next == \E p \in Pantallas : Paso(p)

Spec == Init /\ [][Next]_vars

(* The clocks of the round and of a return run out, and the 2 seconds pass.   *)
Equidad(p) ==
    /\ WF_vars(\E orden \in OrdenesSolo : Preparar(p, orden))
    /\ WF_vars(ExpiraPrincipal(p)) /\ WF_vars(ExpiraReanuda(p))
    /\ WF_vars(ExpiraHuerfano(p))

SpecJusta == Spec /\ \A p \in Pantallas : Equidad(p)

-----------------------------------------------------------------------------
(* Every variable holds a value of its kind. *)
TypeOK == act \in [Pantallas -> Actividades] /\ cuenta \in Cuentas

(* A player loses at most a point per game: the penalties of eventoClic       *)
(* (GameActivity:137-160) stop at -1, and no payment of an outdated copy of   *)
(* the account, by any activity, breaks the bound (GameActivity:176-180).     *)
SaldoPorPartida == cuenta.puntos >= -cuenta.gameDone

(* A round on the screen has a clock that will end it: whatever the order of  *)
(* pauses, returns, restarts and lost clocks, the screen is never left with   *)
(* pictures to touch and nothing running (onResume, GameActivity:467-500).    *)
RondaConReloj ==
    \A p \in Pantallas : act[p].fase = "activa" /\ act[p].dialogos = 0 =>
        act[p].principal \/ act[p].reanuda \/ act[p].huerfanos > 0

UnoSi(b) == IF b THEN 1 ELSE 0
PagosPorRelojDe(a) ==
    a.pagos + UnoSi(a.principal) + UnoSi(a.reanuda) + a.huerfanos <= a.rondas + a.vueltas

(* An activity pays at most once for every round and once for every return:   *)
(* no clock pays twice, and restarts that overlap lose the reference to a     *)
(* clock but make none (GameActivity:172-195, 214-226, 467-511).              *)
PagosPorReloj == \A p \in Pantallas : PagosPorRelojDe(act[p])

(* A round on the screen ends, in the dialog or by the player leaving it.     *)
RondaTermina ==
    \A p \in Pantallas : (act[p].fase = "activa" /\ act[p].dialogos = 0) ~>
                         (act[p].fase # "activa" \/ act[p].dialogos > 0)
=============================================================================
