-------------------------- MODULE JuegoSoloProofs ---------------------------
(* The theorems of the single game, for any set of activities and any bounds. *)
(* One invariant proves them: it is a property of every activity by itself,   *)
(* so a step has to be examined only for the activity that takes it.          *)
EXTENDS JuegoSolo, TLAPS

Saldo(u) == u.puntos >= -u.gameDone
RondaDe(a) == a.fase = "activa" /\ a.dialogos = 0 =>
                  a.principal \/ a.reanuda \/ a.huerfanos > 0

(* An activity that can be paid without breaking the bound. *)
Solvente(a) == /\ a.puntosUid >= -1
               /\ a.userjUno # SinCuenta => Saldo(a.userjUno)
Buena(a) == /\ a \in Actividades
            /\ Solvente(a)
            /\ RondaDe(a)
            /\ PagosPorRelojDe(a)
Inv == /\ act \in [Pantallas -> Actividades]
       /\ \A p \in Pantallas : Buena(act[p])
       /\ cuenta \in Cuentas
       /\ Saldo(cuenta)

-----------------------------------------------------------------------------
(* A step of one activity that leaves it good keeps the invariant. *)
LEMMA PasaInv ==
  ASSUME Inv, NEW p \in Pantallas, NEW a, Buena(a), Pasa(p, a),
         cuenta' \in Cuentas, Saldo(cuenta')
  PROVE  Inv'
<1>1. act' \in [Pantallas -> Actividades]
  BY DEF Inv, Pasa, Buena
<1>2. ASSUME NEW q \in Pantallas PROVE Buena(act'[q])
  BY <1>2 DEF Inv, Pasa
<1> QED BY <1>1, <1>2 DEF Inv

(* The same when the account is left alone. *)
LEMMA PasaSinPago ==
  ASSUME Inv, NEW p \in Pantallas, NEW a, Buena(a), Pasa(p, a), UNCHANGED cuenta
  PROVE  Inv'
<1>1. cuenta' \in Cuentas /\ Saldo(cuenta')
  BY DEF Inv
<1> QED BY <1>1, PasaInv

(* The end of the application keeps the invariant, if the activity that       *)
(* causes it kept its own part.                                               *)
LEMMA CaidaInv ==
  ASSUME Inv, NEW p \in Pantallas, NEW a \in Actividades,
         Solvente(a), PagosPorRelojDe(a), Caida(p, a),
         cuenta' \in Cuentas, Saldo(cuenta')
  PROVE  Inv'
<1>1. ASSUME NEW q \in Pantallas PROVE Buena(act'[q]) /\ act'[q] \in Actividades
  <2> DEFINE b == IF q = p THEN a ELSE act[q]
  <2>1. b \in Actividades /\ Solvente(b) /\ PagosPorRelojDe(b)
    BY <1>1 DEF Inv, Buena
  <2>2. act'[q] = [b EXCEPT !.fase = "caida"]
    BY <1>1 DEF Caida
  <2> HIDE DEF b
  <2>3. act'[q] \in Actividades
    BY <2>1, <2>2 DEF Actividades, FasesSolo
  <2>4. Solvente(act'[q]) /\ RondaDe(act'[q]) /\ PagosPorRelojDe(act'[q])
    BY <2>1, <2>2 DEF Actividades, Solvente, RondaDe, PagosPorRelojDe
  <2> QED BY <2>3, <2>4 DEF Buena
<1>2. act' \in [Pantallas -> Actividades]
  BY <1>1 DEF Caida
<1> QED BY <1>1, <1>2 DEF Inv

-----------------------------------------------------------------------------
(* onPause gives clocks back. *)
LEMMA OnPauseBuena ==
  ASSUME NEW a \in Actividades, Solvente(a), PagosPorRelojDe(a)
  PROVE  /\ OnPause(a) \in Actividades
         /\ Solvente(OnPause(a))
         /\ PagosPorRelojDe(OnPause(a))
<1>1. OnPause(a) \in Actividades
  BY DEF OnPause, Actividades
<1>2. Solvente(OnPause(a))
  BY DEF OnPause, Actividades, Solvente
<1>3. PagosPorRelojDe(OnPause(a))
  BY DEF OnPause, Actividades, PagosPorRelojDe, UnoSi
<1> QED BY <1>1, <1>2, <1>3

(* onPause and then a phase in which the activity is not on the screen. *)
LEMMA FueraDePantalla ==
  ASSUME NEW a \in Actividades, Solvente(a), PagosPorRelojDe(a),
         NEW fase \in FasesSolo \ {"activa"}, NEW pedido \in BOOLEAN
  PROVE  Buena([OnPause(a) EXCEPT !.fase = fase, !.pedido = pedido])
<1> DEFINE b == OnPause(a)
<1>1. b \in Actividades /\ Solvente(b) /\ PagosPorRelojDe(b)
  BY OnPauseBuena
<1> HIDE DEF b
<1> DEFINE c == [b EXCEPT !.fase = fase, !.pedido = pedido]
<1>2. c \in Actividades
  BY <1>1 DEF Actividades
<1>3. Solvente(c) /\ RondaDe(c) /\ PagosPorRelojDe(c)
  BY <1>1 DEF Actividades, Solvente, RondaDe, PagosPorRelojDe
<1>4. Buena(c)
  BY <1>2, <1>3 DEF Buena
<1> QED BY <1>4 DEF b

(* onResume starts one clock more, at most. *)
LEMMA OnResumeReloj ==
  ASSUME NEW a \in Actividades
  PROVE  /\ OnResume(a) \in Actividades
         /\ OnResume(a).principal \/ OnResume(a).reanuda
         /\ OnResume(a).puntosUid = a.puntosUid
         /\ OnResume(a).userjUno = a.userjUno
         /\ OnResume(a).pagos = a.pagos
         /\ OnResume(a).rondas = a.rondas /\ OnResume(a).vueltas = a.vueltas
         /\ UnoSi(OnResume(a).principal) + UnoSi(OnResume(a).reanuda)
               + OnResume(a).huerfanos
            <= UnoSi(a.principal) + UnoSi(a.reanuda) + a.huerfanos + 1
<1>1. CASE a.isPause
  <2> DEFINE e == [a EXCEPT !.reanuda = TRUE]
  <2>1. OnResume(a) = e
    BY <1>1 DEF OnResume
  <2>2. e \in Actividades
    BY DEF Actividades
  <2>3. /\ e.reanuda /\ e.principal = a.principal /\ e.huerfanos = a.huerfanos
        /\ e.puntosUid = a.puntosUid /\ e.userjUno = a.userjUno /\ e.pagos = a.pagos
        /\ e.rondas = a.rondas /\ e.vueltas = a.vueltas
    BY DEF Actividades
  <2> HIDE DEF e
  <2>4. UnoSi(e.principal) + UnoSi(e.reanuda) + e.huerfanos
           <= UnoSi(a.principal) + UnoSi(a.reanuda) + a.huerfanos + 1
    BY <2>2, <2>3 DEF Actividades, UnoSi
  <2> QED BY <2>1, <2>2, <2>3, <2>4
<1>2. CASE ~a.isPause
  <2> DEFINE h == IF a.principal THEN a.huerfanos + 1 ELSE a.huerfanos
             e == [a EXCEPT !.huerfanos = h, !.principal = TRUE]
  <2>1. OnResume(a) = e
    BY <1>2 DEF OnResume, Empieza, Actividades
  <2>2. h \in Nat
    BY DEF Actividades
  <2>3. h + 1 <= a.huerfanos + UnoSi(a.principal) + 1
    BY DEF Actividades, UnoSi
  <2> HIDE DEF h
  <2>4. e \in Actividades
    BY <2>2 DEF Actividades
  <2>5. /\ e.principal /\ e.reanuda = a.reanuda /\ e.huerfanos = h
        /\ e.puntosUid = a.puntosUid /\ e.userjUno = a.userjUno /\ e.pagos = a.pagos
        /\ e.rondas = a.rondas /\ e.vueltas = a.vueltas
    BY DEF Actividades
  <2> HIDE DEF e
  <2>6. UnoSi(e.principal) + UnoSi(e.reanuda) + e.huerfanos
           <= UnoSi(a.principal) + UnoSi(a.reanuda) + a.huerfanos + 1
    BY <2>2, <2>3, <2>4, <2>5 DEF Actividades, UnoSi
  <2> QED BY <2>1, <2>4, <2>5, <2>6
<1> QED BY <1>1, <1>2

(* New points of at least -1 and a new order. *)
LEMMA AciertaBuena ==
  ASSUME NEW a \in Actividades, a.userjUno # SinCuenta => Saldo(a.userjUno),
         NEW puntos \in Int, puntos >= -1, NEW orden \in OrdenesSolo
  PROVE  LET e == Acierta(a, puntos, orden)
         IN /\ e \in Actividades /\ Solvente(e)
            /\ e.fase = a.fase /\ e.dialogos = a.dialogos
            /\ e.principal = a.principal /\ e.reanuda = a.reanuda
            /\ e.huerfanos = a.huerfanos /\ e.pagos = a.pagos /\ e.toques = a.toques
            /\ e.rondas = a.rondas /\ e.vueltas = a.vueltas
<1> DEFINE e == Acierta(a, puntos, orden)
<1>1. e \in Actividades
  BY DEF Acierta, Actividades
<1>2. /\ e.puntosUid = puntos /\ e.userjUno = a.userjUno
      /\ e.fase = a.fase /\ e.dialogos = a.dialogos
      /\ e.principal = a.principal /\ e.reanuda = a.reanuda
      /\ e.huerfanos = a.huerfanos /\ e.pagos = a.pagos /\ e.toques = a.toques
      /\ e.rondas = a.rondas /\ e.vueltas = a.vueltas
  BY DEF Acierta, Actividades
<1> QED BY <1>1, <1>2 DEF Solvente

(* The top dialog goes. *)
LEMMA CierraBuena ==
  ASSUME NEW a \in Actividades, Solvente(a), PagosPorRelojDe(a), a.dialogos > 0
  PROVE  /\ Cierra(a) \in Actividades
         /\ Solvente(Cierra(a))
         /\ PagosPorRelojDe(Cierra(a))
         /\ Cierra(a).pagos = a.pagos /\ Cierra(a).rondas = a.rondas
<1> DEFINE k == IF a.refDial THEN a.sueltos ELSE a.sueltos + 1
           e == [a EXCEPT !.dialogos = a.dialogos - 1, !.refDial = FALSE, !.sueltos = k]
<1>1. Cierra(a) = e
  BY DEF Cierra, Actividades
<1>2. k \in Nat /\ a.dialogos - 1 \in Nat
  BY DEF Actividades
<1> HIDE DEF k
<1>3. e \in Actividades
  BY <1>2 DEF Actividades
<1>4. /\ e.principal = a.principal /\ e.reanuda = a.reanuda /\ e.huerfanos = a.huerfanos
      /\ e.puntosUid = a.puntosUid /\ e.userjUno = a.userjUno /\ e.pagos = a.pagos
      /\ e.rondas = a.rondas /\ e.vueltas = a.vueltas
  BY DEF Actividades
<1> HIDE DEF e
<1> QED BY <1>1, <1>3, <1>4 DEF Solvente, PagosPorRelojDe

-----------------------------------------------------------------------------
(* funcionGameover of an activity that has given up the clock that ended. *)
LEMMA GameoverInv ==
  ASSUME Inv, NEW p \in Pantallas, NEW a \in Actividades, Solvente(a),
         a.pagos + UnoSi(a.principal) + UnoSi(a.reanuda) + a.huerfanos + 1
            <= a.rondas + a.vueltas,
         FuncionGameover(p, a)
  PROVE  Inv'
<1>1. CASE a.userjUno = SinCuenta
  <2>1. PagosPorRelojDe(a)
    BY DEF PagosPorRelojDe, Actividades, UnoSi
  <2>2. Caida(p, a) /\ UNCHANGED cuenta
    BY <1>1 DEF FuncionGameover
  <2>3. cuenta' \in Cuentas /\ Saldo(cuenta')
    BY <2>2 DEF Inv
  <2> QED BY <2>1, <2>2, <2>3, CaidaInv
<1>2. CASE a.userjUno # SinCuenta
  <2> DEFINE u == Pagada(a)
             k == a.pagos + 1
             b == [a EXCEPT !.userjUno = u, !.isPause = TRUE, !.pagos = k]
             d == Dialogo(b)
  <2>1. a.userjUno \in Cuentas /\ Saldo(a.userjUno)
    BY <1>2 DEF Actividades, Solvente
  <2>2. u \in Cuentas /\ Saldo(u)
    BY <2>1 DEF Pagada, Cuentas, Saldo, Solvente, Actividades
  <2>3. /\ cuenta' = u
        /\ IF a.fase = "fin" THEN Caida(p, b) ELSE Pasa(p, d)
    BY <1>2 DEF FuncionGameover, Actividades
  <2>4. k \in Nat /\ k = a.pagos + 1
    BY DEF Actividades
  <2> HIDE DEF u, k
  <2>5. b \in Actividades
    BY <2>2, <2>4 DEF Actividades
  <2>6. /\ b.userjUno = u /\ b.pagos = k /\ b.puntosUid = a.puntosUid
        /\ b.principal = a.principal /\ b.reanuda = a.reanuda
        /\ b.huerfanos = a.huerfanos /\ b.rondas = a.rondas /\ b.vueltas = a.vueltas
    BY DEF Actividades
  <2> HIDE DEF b
  <2>7. Solvente(b) /\ PagosPorRelojDe(b)
    BY <2>2, <2>4, <2>5, <2>6 DEF Actividades, Solvente, PagosPorRelojDe, UnoSi
  <2>8. CASE a.fase = "fin"
    BY <2>2, <2>3, <2>5, <2>7, <2>8, CaidaInv
  <2>9. CASE a.fase # "fin"
    <3> DEFINE g == b.dialogos + 1
               e == [b EXCEPT !.dialogos = g, !.refDial = TRUE]
    <3>0. g \in Nat /\ g > 0
      BY <2>5 DEF Actividades
    <3>1. d = e
      BY <2>5 DEF Dialogo, Actividades
    <3> HIDE DEF d, g
    <3>2. d \in Actividades
      BY <2>5, <3>0, <3>1 DEF Actividades
    <3>3. Solvente(d) /\ PagosPorRelojDe(d) /\ RondaDe(d)
      BY <2>5, <2>7, <3>0, <3>1 DEF Actividades, Solvente, PagosPorRelojDe, RondaDe
    <3>4. Buena(d)
      BY <3>2, <3>3 DEF Buena
    <3> QED BY <2>2, <2>3, <2>9, <3>4, PasaInv
  <2> QED BY <2>8, <2>9
<1> QED BY <1>1, <1>2

-----------------------------------------------------------------------------
(* Nothing is open, and the account is at zero. *)
LEMMA InitInv == Init => Inv
<1> SUFFICES ASSUME Init PROVE Inv
  OBVIOUS
<1> DEFINE a == Nueva("fuera")
<1>1. a \in Actividades
  BY DEF Nueva, Actividades, FasesSolo, OrdenesSolo
<1>2. Solvente(a) /\ RondaDe(a) /\ PagosPorRelojDe(a)
  BY DEF Nueva, Solvente, RondaDe, PagosPorRelojDe, UnoSi
<1>3. Buena(a)
  BY <1>1, <1>2 DEF Buena
<1>4. cuenta \in Cuentas /\ Saldo(cuenta)
  BY DEF Init, Cuentas, Saldo
<1> HIDE DEF a
<1>5. act = [p \in Pantallas |-> a]
  BY DEF Init, a
<1> QED BY <1>1, <1>3, <1>4, <1>5 DEF Inv

(* Every step keeps the invariant. *)
LEMMA NextInv == Inv /\ [Next]_vars => Inv'
<1> SUFFICES ASSUME Inv, [Next]_vars PROVE Inv'
  OBVIOUS
<1>1. CASE UNCHANGED vars
  BY <1>1 DEF Inv, vars
<1>2. ASSUME NEW p \in Pantallas, Paso(p) PROVE Inv'
  <2> DEFINE a == act[p]
  <2>0. /\ a \in Actividades /\ Solvente(a) /\ RondaDe(a) /\ PagosPorRelojDe(a)
        /\ cuenta \in Cuentas /\ Saldo(cuenta)
    BY DEF Inv, Buena
  <2>1. CASE Abrir(p)
    <3> DEFINE b == Nueva("activa")
               c == OnResume(b)
               d == [c EXCEPT !.pedido = TRUE, !.rondas = 1]
    <3>1. b \in Actividades /\ Solvente(b)
      BY DEF Nueva, Actividades, FasesSolo, OrdenesSolo, Solvente
    <3>2. b.pagos + UnoSi(b.principal) + UnoSi(b.reanuda) + b.huerfanos = 0
      BY DEF Nueva, UnoSi
    <3>3. b.vueltas = 0 /\ b.pagos = 0
      BY DEF Nueva
    <3> HIDE DEF b
    <3>4. /\ c \in Actividades /\ Solvente(c)
          /\ c.principal \/ c.reanuda
          /\ c.pagos + UnoSi(c.principal) + UnoSi(c.reanuda) + c.huerfanos <= 1
          /\ c.vueltas = 0
      BY <3>1, <3>2, <3>3, OnResumeReloj DEF Solvente, Actividades, UnoSi
    <3> HIDE DEF c
    <3>5. d \in Actividades
      BY <3>4 DEF Actividades
    <3>6. Solvente(d) /\ RondaDe(d) /\ PagosPorRelojDe(d)
      BY <3>4 DEF Actividades, Solvente, RondaDe, PagosPorRelojDe, UnoSi
    <3>7. Buena(d)
      BY <3>5, <3>6 DEF Buena
    <3>8. Pasa(p, d) /\ UNCHANGED cuenta
      BY <2>1 DEF Abrir, b, c
    <3> HIDE DEF d
    <3> QED BY <3>7, <3>8, PasaSinPago
  <2>2. CASE Leer(p)
    <3> DEFINE d == [a EXCEPT !.pedido = FALSE, !.userjUno = cuenta]
    <3>1. d \in Actividades
      BY <2>0 DEF Actividades
    <3>2. Solvente(d) /\ RondaDe(d) /\ PagosPorRelojDe(d)
      BY <2>0 DEF Actividades, Solvente, RondaDe, PagosPorRelojDe
    <3>3. Buena(d)
      BY <3>1, <3>2 DEF Buena
    <3>4. Pasa(p, d) /\ UNCHANGED cuenta
      BY <2>2 DEF Leer
    <3> HIDE DEF d
    <3> QED BY <3>3, <3>4, PasaSinPago
  <2>3. ASSUME NEW orden \in OrdenesSolo, Preparar(p, orden) PROVE Inv'
    <3> DEFINE e == Acierta(a, 0, orden)
               d == [e EXCEPT !.listo = TRUE]
    <3>1. e \in Actividades /\ Solvente(e) /\ RondaDe(e) /\ PagosPorRelojDe(e)
      BY <2>0, AciertaBuena DEF Solvente, RondaDe, PagosPorRelojDe
    <3>2. Pasa(p, d) /\ UNCHANGED cuenta
      BY <2>3 DEF Preparar
    <3> HIDE DEF e
    <3>3. d \in Actividades
      BY <3>1 DEF Actividades
    <3>4. Solvente(d) /\ RondaDe(d) /\ PagosPorRelojDe(d)
      BY <3>1 DEF Actividades, Solvente, RondaDe, PagosPorRelojDe
    <3>5. Buena(d)
      BY <3>3, <3>4 DEF Buena
    <3> HIDE DEF d
    <3> QED BY <3>2, <3>5, PasaSinPago
  <2>4. ASSUME NEW orden \in OrdenesSolo, NEW puntos \in Int, puntos >= -1,
               Toca(p, puntos, orden)
        PROVE  Inv'
    <3> DEFINE e == Acierta(a, puntos, orden)
               k == e.toques + 1
               d == [e EXCEPT !.toques = k]
    <3>1. e \in Actividades /\ Solvente(e) /\ RondaDe(e) /\ PagosPorRelojDe(e)
      BY <2>0, <2>4, AciertaBuena DEF Solvente, RondaDe, PagosPorRelojDe
    <3>2. Pasa(p, d) /\ UNCHANGED cuenta
      BY <2>4, <3>1 DEF Toca, Actividades
    <3> HIDE DEF e
    <3>3. k \in Nat
      BY <3>1 DEF Actividades
    <3> HIDE DEF k
    <3>4. d \in Actividades
      BY <3>1, <3>3 DEF Actividades
    <3>5. Solvente(d) /\ RondaDe(d) /\ PagosPorRelojDe(d)
      BY <3>1 DEF Actividades, Solvente, RondaDe, PagosPorRelojDe
    <3>6. Buena(d)
      BY <3>4, <3>5 DEF Buena
    <3> HIDE DEF d
    <3> QED BY <3>2, <3>6, PasaSinPago
  <2>5. ASSUME NEW orden \in OrdenesSolo, TocarFoto(p, orden) PROVE Inv'
    <3>1. PuntosFoto(a) \in Int /\ PuntosFoto(a) >= -1
      BY <2>0 DEF PuntosFoto, Solvente, Actividades
    <3> QED BY <3>1, <2>4, <2>5 DEF TocarFoto
  <2>6. ASSUME NEW orden \in OrdenesSolo, TocarIvjDos(p, orden) PROVE Inv'
    <3>1. PuntosIvjDos(a) \in Int /\ PuntosIvjDos(a) >= -1
      BY <2>0 DEF PuntosIvjDos, Solvente, Actividades
    <3> QED BY <3>1, <2>4, <2>6 DEF TocarIvjDos
  <2>7. CASE ExpiraPrincipal(p)
    <3> DEFINE d == [a EXCEPT !.principal = FALSE]
    <3>1. d \in Actividades /\ Solvente(d)
      BY <2>0 DEF Actividades, Solvente
    <3>2. d.pagos + UnoSi(d.principal) + UnoSi(d.reanuda) + d.huerfanos + 1
             <= d.rondas + d.vueltas
      BY <2>0, <2>7 DEF ExpiraPrincipal, Actividades, PagosPorRelojDe, UnoSi
    <3>3. FuncionGameover(p, d)
      BY <2>7 DEF ExpiraPrincipal
    <3> HIDE DEF d
    <3> QED BY <3>1, <3>2, <3>3, GameoverInv
  <2>8. CASE ExpiraReanuda(p)
    <3> DEFINE d == [a EXCEPT !.reanuda = FALSE]
    <3>1. d \in Actividades /\ Solvente(d)
      BY <2>0 DEF Actividades, Solvente
    <3>2. d.pagos + UnoSi(d.principal) + UnoSi(d.reanuda) + d.huerfanos + 1
             <= d.rondas + d.vueltas
      BY <2>0, <2>8 DEF ExpiraReanuda, Actividades, PagosPorRelojDe, UnoSi
    <3>3. FuncionGameover(p, d)
      BY <2>8 DEF ExpiraReanuda
    <3> HIDE DEF d
    <3> QED BY <3>1, <3>2, <3>3, GameoverInv
  <2>9. CASE ExpiraHuerfano(p)
    <3> DEFINE d == [a EXCEPT !.huerfanos = a.huerfanos - 1]
    <3>1. d \in Actividades /\ Solvente(d)
      BY <2>0, <2>9 DEF ExpiraHuerfano, Actividades, Solvente
    <3>2. d.pagos + UnoSi(d.principal) + UnoSi(d.reanuda) + d.huerfanos + 1
             <= d.rondas + d.vueltas
      BY <2>0, <2>9 DEF ExpiraHuerfano, Actividades, PagosPorRelojDe, UnoSi
    <3>3. FuncionGameover(p, d)
      BY <2>0, <2>9 DEF ExpiraHuerfano, Actividades
    <3> HIDE DEF d
    <3> QED BY <3>1, <3>2, <3>3, GameoverInv
  <2>10. ASSUME NEW orden \in OrdenesSolo, Reiniciar(p, orden) PROVE Inv'
    <3> DEFINE b == Cierra(a)
               e == Acierta(b, 0, orden)
               k == e.rondas + 1
               c == [e EXCEPT !.isPause = FALSE, !.rondas = k]
               d == OnResume(c)
    <3>1. b \in Actividades /\ Solvente(b) /\ PagosPorRelojDe(b)
      BY <2>0, <2>10, CierraBuena DEF Reiniciar
    <3>2. e \in Actividades /\ Solvente(e) /\ PagosPorRelojDe(e)
      BY <3>1, AciertaBuena DEF Solvente, PagosPorRelojDe
    <3>3. Pasa(p, d) /\ UNCHANGED cuenta
      BY <2>10, <3>2 DEF Reiniciar, Actividades
    <3> HIDE DEF b, e
    <3>4. k \in Nat /\ k = e.rondas + 1
      BY <3>2 DEF Actividades
    <3> HIDE DEF k
    <3>5. /\ c \in Actividades /\ c.rondas = k /\ c.vueltas = e.vueltas
          /\ c.principal = e.principal /\ c.reanuda = e.reanuda
          /\ c.huerfanos = e.huerfanos /\ c.pagos = e.pagos
          /\ c.puntosUid = e.puntosUid /\ c.userjUno = e.userjUno
      BY <3>2, <3>4 DEF Actividades
    <3> HIDE DEF c
    <3>6. /\ Solvente(c)
          /\ c.pagos + UnoSi(c.principal) + UnoSi(c.reanuda) + c.huerfanos + 1
                <= c.rondas + c.vueltas
      BY <3>2, <3>4, <3>5 DEF Actividades, Solvente, PagosPorRelojDe, UnoSi
    <3>7. Buena(d)
      <4>1. d \in Actividades /\ (d.principal \/ d.reanuda) /\ Solvente(d)
        BY <3>5, <3>6, OnResumeReloj DEF Solvente
      <4>2. PagosPorRelojDe(d)
        BY <3>5, <3>6, <4>1, OnResumeReloj DEF PagosPorRelojDe, Actividades, UnoSi
      <4>3. RondaDe(d)
        BY <4>1 DEF RondaDe
      <4> QED BY <4>1, <4>2, <4>3 DEF Buena
    <3> HIDE DEF d
    <3> QED BY <3>3, <3>7, PasaSinPago
  <2>11. CASE VerRanking(p)
    <3> DEFINE b == Cierra(a)
               d == [OnPause(b) EXCEPT !.fase = "fin", !.pedido = FALSE]
    <3>1. b \in Actividades /\ Solvente(b) /\ PagosPorRelojDe(b)
      BY <2>0, <2>11, CierraBuena DEF VerRanking
    <3>2. Buena(d)
      BY <3>1, FueraDePantalla DEF FasesSolo
    <3>3. Pasa(p, d) /\ UNCHANGED cuenta
      BY <2>11 DEF VerRanking
    <3> HIDE DEF d
    <3> QED BY <3>2, <3>3, PasaSinPago
  <2>12. CASE DialExpira(p)
    <3>1. UNCHANGED cuenta /\ a.dialogos > 0
      BY <2>12 DEF DialExpira
    <3>2. CASE a.fase = "fin" /\ Caida(p, a)
      BY <2>0, <3>1, <3>2, CaidaInv
    <3>3. CASE a.fase # "fin"
      <4> DEFINE b == [a EXCEPT !.dialogos = a.dialogos - 1]
                 d == [OnPause(b) EXCEPT !.fase = "fin", !.pedido = FALSE]
      <4>1. b \in Actividades /\ Solvente(b) /\ PagosPorRelojDe(b)
        BY <2>0, <3>1 DEF Actividades, Solvente, PagosPorRelojDe
      <4>2. Buena(d)
        BY <4>1, FueraDePantalla DEF FasesSolo
      <4>3. Pasa(p, d)
        BY <2>0, <2>12, <3>3 DEF DialExpira, OnPause, Actividades
      <4> HIDE DEF d
      <4> QED BY <3>1, <4>2, <4>3, PasaSinPago
    <3> QED BY <2>12, <3>2, <3>3 DEF DialExpira
  <2>13. CASE SueltoExpira(p)
    <3> DEFINE b == [a EXCEPT !.sueltos = a.sueltos - 1]
               d == [OnPause(b) EXCEPT !.fase = "fin", !.pedido = FALSE]
    <3>1. b \in Actividades /\ Solvente(b) /\ PagosPorRelojDe(b)
      BY <2>0, <2>13 DEF SueltoExpira, Actividades, Solvente, PagosPorRelojDe
    <3>2. Buena(d)
      BY <3>1, FueraDePantalla DEF FasesSolo
    <3>3. Pasa(p, d) /\ UNCHANGED cuenta
      BY <2>0, <2>13 DEF SueltoExpira, OnPause, Actividades
    <3> HIDE DEF d
    <3> QED BY <3>2, <3>3, PasaSinPago
  <2>14. CASE Pausar(p)
    <3>1. PICK parada \in BOOLEAN :
             Pasa(p, [OnPause(a) EXCEPT !.fase = "pausada", !.pedido = @ /\ ~parada])
      BY <2>14 DEF Pausar
    <3> DEFINE pedido == a.pedido /\ ~parada
               d == [OnPause(a) EXCEPT !.fase = "pausada", !.pedido = pedido]
    <3>2. pedido \in BOOLEAN
      OBVIOUS
    <3>3. Pasa(p, d) /\ UNCHANGED cuenta
      BY <2>0, <2>14, <3>1 DEF Pausar, OnPause, Actividades
    <3> HIDE DEF pedido
    <3>4. Buena(d)
      BY <2>0, <3>2, FueraDePantalla DEF FasesSolo
    <3> HIDE DEF d
    <3> QED BY <3>3, <3>4, PasaSinPago
  <2>15. CASE Volver(p)
    <3> DEFINE c == OnResume(a)
               k == c.vueltas + 1
               d == [c EXCEPT !.fase = "activa", !.vueltas = k]
    <3>1. /\ c \in Actividades /\ Solvente(c)
          /\ c.principal \/ c.reanuda
          /\ c.pagos + UnoSi(c.principal) + UnoSi(c.reanuda) + c.huerfanos
                <= c.rondas + c.vueltas + 1
      BY <2>0, OnResumeReloj DEF Solvente, PagosPorRelojDe, Actividades, UnoSi
    <3>2. Pasa(p, d) /\ UNCHANGED cuenta
      BY <2>15, <3>1 DEF Volver, Actividades
    <3> HIDE DEF c
    <3>3. k \in Nat /\ k = c.vueltas + 1
      BY <3>1 DEF Actividades
    <3> HIDE DEF k
    <3>4. d \in Actividades
      BY <3>1, <3>3 DEF Actividades, FasesSolo
    <3>5. Solvente(d) /\ RondaDe(d) /\ PagosPorRelojDe(d)
      BY <3>1, <3>3 DEF Actividades, Solvente, RondaDe, PagosPorRelojDe, UnoSi
    <3>6. Buena(d)
      BY <3>4, <3>5 DEF Buena
    <3> HIDE DEF d
    <3> QED BY <3>2, <3>6, PasaSinPago
  <2>16. CASE Atras(p)
    <3> DEFINE d == [OnPause(a) EXCEPT !.fase = "tapada", !.pedido = FALSE]
    <3>1. Buena(d)
      BY <2>0, FueraDePantalla DEF FasesSolo
    <3>2. Pasa(p, d) /\ UNCHANGED cuenta
      BY <2>16 DEF Atras
    <3> HIDE DEF d
    <3> QED BY <3>1, <3>2, PasaSinPago
  <2>17. CASE Destruir(p)
    <3> DEFINE d == [OnPause(a) EXCEPT !.fase = "fin", !.pedido = FALSE]
    <3>1. Buena(d)
      BY <2>0, FueraDePantalla DEF FasesSolo
    <3>2. Pasa(p, d) /\ UNCHANGED cuenta
      BY <2>17 DEF Destruir
    <3> HIDE DEF d
    <3> QED BY <3>1, <3>2, PasaSinPago
  <2> QED
    BY <1>2, <2>1, <2>2, <2>3, <2>5, <2>6, <2>7, <2>8, <2>9, <2>10, <2>11, <2>12,
       <2>13, <2>14, <2>15, <2>16, <2>17 DEF Paso
<1> QED BY <1>1, <1>2 DEF Next

(* The invariant, in every reachable state. *)
LEMMA SpecInv == Spec => []Inv
BY InitInv, NextInv, PTL DEF Spec

-----------------------------------------------------------------------------
(* Type correctness, for any activities and bounds. *)
THEOREM TipoSolo == Spec => []TypeOK
<1>1. Inv => TypeOK
  BY DEF Inv, TypeOK
<1> QED BY <1>1, SpecInv, PTL

(* SaldoPorPartida in every reachable state: whichever activity pays, with    *)
(* however old a copy, the account is at worst one point below zero per game. *)
THEOREM SaldoSeguro == Spec => []SaldoPorPartida
<1>1. Inv => SaldoPorPartida
  BY DEF Inv, Saldo, SaldoPorPartida
<1> QED BY <1>1, SpecInv, PTL

(* RondaConReloj in every reachable state: no pause, return or restart leaves *)
(* a round on the screen that nothing will end.                               *)
THEOREM RondaSiempreConReloj == Spec => []RondaConReloj
<1>1. Inv => RondaConReloj
  BY DEF Inv, Buena, RondaDe, RondaConReloj
<1> QED BY <1>1, SpecInv, PTL

(* PagosPorReloj in every reachable state: no more payments, made or on the   *)
(* way, than rounds and returns.                                              *)
THEOREM PagosSiemprePorReloj == Spec => []PagosPorReloj
<1>1. Inv => PagosPorReloj
  BY DEF Inv, Buena, PagosPorReloj
<1> QED BY <1>1, SpecInv, PTL
=============================================================================
