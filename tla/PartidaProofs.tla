--------------------------- MODULE PartidaProofs ----------------------------
(* Proofs about Partida, for any set of clients, any orders and any bounds.   *)
EXTENDS Partida, TLAPS

Contadores == [c1 : Int, c2 : Int]

(* A clock, referenced or lost, is started by an event that set jugada first, *)
(* so its onFinish never finds a null (jugadaListener:205-222).               *)
RelojConJugada ==
    \A c \in Clientes : reloj[c] \/ perdidos[c] > 0 => jug[c] # SinJugada

TInv == TypeOK /\ RelojConJugada

-----------------------------------------------------------------------------
(* A tap leaves integers in the counters (eventoClic). *)
LEMMA TanteoTipo ==
    ASSUME NEW img \in Imagenes, NEW orden \in TodasLasOrdenes,
           NEW soyUno \in BOOLEAN, NEW soyDos \in BOOLEAN,
           NEW j \in Jugadas, NEW k \in Contadores
    PROVE  Tanteo(img, orden, soyUno, soyDos, j, k) \in Contadores
<1>1. j.p1 \in Int /\ j.p2 \in Int /\ k.c1 \in Int /\ k.c2 \in Int
  BY DEF Jugadas, Contadores
<1>2. /\ SumaUno(k, j) \in Contadores /\ RestaUno(k, j) \in Contadores
      /\ SumaDos(k, j) \in Contadores /\ RestaDos(k, j) \in Contadores
      /\ [k EXCEPT !.c1 = j.p1] \in Contadores
      /\ [k EXCEPT !.c2 = j.p2] \in Contadores
  BY <1>1 DEF SumaUno, RestaUno, SumaDos, RestaDos, Contadores
<1>3. orden = 0 \/ orden = 1 \/ orden = 2
  BY DEF TodasLasOrdenes
<1>4. TanteoUno(orden, soyUno, soyDos, j, k) \in Contadores
  BY <1>2, <1>3 DEF TanteoUno
<1>5. TanteoDos(orden, soyUno, soyDos, j, k) \in Contadores
  BY <1>2, <1>3 DEF TanteoDos
<1> QED BY <1>4, <1>5 DEF Tanteo

(* The winner funcionGameover stores is a client, and only that field of the  *)
(* document changes.                                                          *)
LEMMA ConGanadorTipo ==
    ASSUME NEW j \in Jugadas
    PROVE  /\ ConGanador(j) \in Jugadas
           /\ GanaElMarcador(ConGanador(j))
           /\ ConGanador(j).dos = j.dos
           /\ ConGanador(j).p1 = j.p1 /\ ConGanador(j).p2 = j.p2
<1>1. Ganador(j) \in Clientes
  BY JugadoresAssumption DEF Ganador, Jugadas
<1> QED BY <1>1 DEF ConGanador, Jugadas, GanaElMarcador, Ganador

(* A payment turns an account into an account of the same person. *)
LEMMA PagadaTipo ==
    ASSUME NEW c \in Clientes, NEW j \in Jugadas, copia[c] \in Cuentas
    PROVE  Pagada(c, j) \in Cuentas /\ Pagada(c, j).quien = copia[c].quien
<1>1. MisPuntos(c, j) \in Int
  BY DEF MisPuntos, Jugadas
<1>2. copia[c].puntos + MisPuntos(c, j) \in Int /\ copia[c].gameDone + 1 \in Nat
  BY <1>1 DEF Cuentas
<1> DEFINE p == copia[c].puntos + MisPuntos(c, j)
           g == copia[c].gameDone + 1
<1>3. Pagada(c, j) = [copia[c] EXCEPT !.puntos = p, !.gameDone = g]
  BY DEF Pagada
<1> HIDE DEF p, g
<1>4. p \in Int /\ g \in Nat
  BY <1>2 DEF p, g
<1> QED BY <1>3, <1>4 DEF Cuentas

(* What funcionGameover changes keeps its types. *)
LEMMA FuncionGameoverTipo ==
    ASSUME TypeOK, NEW c \in Clientes, NEW j \in Jugadas, NEW f \in Fases,
           FuncionGameover(c, j, f)
    PROVE  /\ jug' \in [Clientes -> Jugadas \cup {SinJugada}]
           /\ pend' \in [Clientes -> Seq(Jugadas)]
           /\ copia' \in [Clientes -> Cuentas \cup {SinCuenta}]
           /\ users' \in [Clientes -> Cuentas]
           /\ fase' \in [Clientes -> Fases]
<1>1. ConGanador(j) \in Jugadas
  BY ConGanadorTipo
<1>2. jug' \in [Clientes -> Jugadas \cup {SinJugada}]
  BY <1>1 DEF TypeOK, FuncionGameover, Escribe
<1>3. pend' \in [Clientes -> Seq(Jugadas)]
  BY <1>1 DEF TypeOK, FuncionGameover, Escribe
<1>4. CASE PuedePagar(c)
  <2>1. copia[c] \in Cuentas
    BY <1>4 DEF TypeOK, PuedePagar
  <2>2. Pagada(c, j) \in Cuentas
    BY <2>1, PagadaTipo
  <2>3. /\ copia' = [copia EXCEPT ![c] = Pagada(c, j)]
        /\ users' = [users EXCEPT ![c] = Pagada(c, j)]
        /\ fase' = [fase EXCEPT ![c] = f]
    BY <1>4 DEF FuncionGameover, Paga
  <2> HIDE DEF TypeOK
  <2>4. /\ copia \in [Clientes -> Cuentas \cup {SinCuenta}]
        /\ users \in [Clientes -> Cuentas] /\ fase \in [Clientes -> Fases]
    BY DEF TypeOK
  <2> QED BY <1>2, <1>3, <2>2, <2>3, <2>4
<1>5. CASE ~PuedePagar(c)
  BY <1>2, <1>3, <1>5 DEF TypeOK, FuncionGameover, Fases
<1> QED BY <1>4, <1>5

-----------------------------------------------------------------------------
(* The initial states have the types, and no clock. *)
LEMMA InitTInv == Init => TInv
<1> SUFFICES ASSUME Init PROVE TInv
  OBVIOUS
<1>1. \A s \in Clientes : /\ NuevaJugada(s) \in Jugadas
                          /\ [NuevaJugada(s) EXCEPT !.abandono = Dos] \in Jugadas
  BY JugadoresAssumption DEF NuevaJugada, Jugadas, TodasLasOrdenes
<1>2. <<>> \in Seq(Jugadas) /\ <<NuevaJugada(Dos)>> \in Seq(Jugadas)
  <2>1. NuevaJugada(Dos) \in Jugadas
    BY <1>1, JugadoresAssumption
  <2> QED BY <2>1
<1>3. doc \in Jugadas /\ pend \in [Clientes -> Seq(Jugadas)] /\ fase \in [Clientes -> Fases]
  <2>1. CASE Aceptada
    BY <2>1, <1>1, <1>2, JugadoresAssumption DEF Aceptada, Fases
  <2>2. CASE \E t \in Clientes \ {Uno, Dos} : Desplazada(t)
    BY <2>2, <1>1, <1>2 DEF Desplazada, Fases
  <2>3. CASE Rechazada
    BY <2>3, <1>1, <1>2, JugadoresAssumption DEF Rechazada, Fases
  <2> QED BY <2>1, <2>2, <2>3 DEF Init
<1>4. /\ users \in [Clientes -> Cuentas]
      /\ cont \in [Clientes -> [c1 : Int, c2 : Int]]
      /\ gasto \in [Clientes -> [toques : Nat, vueltas : Nat, giros : Nat]]
  BY DEF Init, Cuenta, Cuentas
<1>5. TypeOK
  BY <1>3, <1>4 DEF Init, TypeOK, TodasLasOrdenes
<1>6. RelojConJugada
  BY DEF Init, RelojConJugada
<1> QED BY <1>5, <1>6 DEF TInv

(* One more tap, return or rotation. *)
LEMMA GastoTipo ==
    ASSUME NEW c \in Clientes,
           gasto \in [Clientes -> [toques : Nat, vueltas : Nat, giros : Nat]],
           \/ gasto' = [gasto EXCEPT ![c].toques = @ + 1]
           \/ gasto' = [gasto EXCEPT ![c].vueltas = @ + 1]
           \/ gasto' = [gasto EXCEPT ![c].giros = @ + 1]
    PROVE  gasto' \in [Clientes -> [toques : Nat, vueltas : Nat, giros : Nat]]
<1> DEFINE G == [toques : Nat, vueltas : Nat, giros : Nat]
<1>1. /\ [gasto[c] EXCEPT !.toques = @ + 1] \in G
      /\ [gasto[c] EXCEPT !.vueltas = @ + 1] \in G
      /\ [gasto[c] EXCEPT !.giros = @ + 1] \in G
  OBVIOUS
<1>2. \E g \in G : gasto' = [gasto EXCEPT ![c] = g]
  BY <1>1
<1> QED BY <1>2

(* A step that closes the match and otherwise only changes clocks, the dialog *)
(* and the reads on their way keeps the invariant.                            *)
LEMMA CierreTInv ==
    ASSUME TInv, NEW c \in Clientes, NEW j \in Jugadas, NEW f \in Fases,
           FuncionGameover(c, j, f),
           reloj' \in [Clientes -> BOOLEAN],
           perdidos' \in [Clientes -> Nat],
           dialogo' \in [Clientes -> BOOLEAN],
           pedidos' \in [Clientes -> SUBSET [lado : Lados, de : Clientes]],
           \A d \in Clientes : d # c => reloj'[d] = reloj[d] /\ perdidos'[d] = perdidos[d],
           UNCHANGED <<doc, alDia, n, cont, nombres, hist, gasto>>
    PROVE  TInv'
<1>1. /\ jug' \in [Clientes -> Jugadas \cup {SinJugada}]
      /\ pend' \in [Clientes -> Seq(Jugadas)]
      /\ copia' \in [Clientes -> Cuentas \cup {SinCuenta}]
      /\ users' \in [Clientes -> Cuentas]
      /\ fase' \in [Clientes -> Fases]
  BY FuncionGameoverTipo DEF TInv
<1>2. TypeOK'
  BY <1>1 DEF TInv, TypeOK
<1>3. jug' = [jug EXCEPT ![c] = ConGanador(j)] /\ ConGanador(j) # SinJugada
  BY ConGanadorTipo, NulosAssumption DEF FuncionGameover, Escribe
<1>4. RelojConJugada'
  BY <1>3 DEF TInv, TypeOK, RelojConJugada
<1> QED BY <1>2, <1>4 DEF TInv

(* Every step keeps the types, and a running clock has a match to close. *)
LEMMA NextTInv == TInv /\ [Next]_vars => TInv'
<1> SUFFICES ASSUME TInv, [Next]_vars PROVE TInv'
  OBVIOUS
<1> USE DEF TInv
<1>1. CASE UNCHANGED vars
  BY <1>1 DEF vars, firestore, actividad, TypeOK, RelojConJugada
<1>2. ASSUME NEW c \in Clientes, Paso(c) PROVE TInv'
  <2>1. CASE Abrir(c)
    BY <2>1 DEF Abrir, TypeOK, RelojConJugada, Fases
  <2>2. CASE Evento(c)
    <3>1. doc.dos \in Clientes /\ doc.tocate \in TodasLasOrdenes
      BY DEF TypeOK, Jugadas
    <3>2. {[lado |-> "uno", de |-> Uno], [lado |-> "dos", de |-> doc.dos]}
             \in SUBSET [lado : Lados, de : Clientes]
      BY <3>1, JugadoresAssumption DEF Lados
    <3> DEFINE Q == {[lado |-> "uno", de |-> Uno], [lado |-> "dos", de |-> doc.dos]}
    <3> HIDE DEF Q
    <3>3. /\ \/ pedidos' = [pedidos EXCEPT ![c] = @ \cup Q]
             \/ pedidos' = pedidos
          /\ n' = [n EXCEPT ![c] = doc.tocate] \/ n' = n
          /\ \/ perdidos' = [perdidos EXCEPT ![c] = IF reloj[c] THEN @ + 1 ELSE @]
             \/ perdidos' = perdidos
      BY <2>2 DEF Evento, Q
    <3>4. /\ jug' = [jug EXCEPT ![c] = doc]
          /\ reloj' = [reloj EXCEPT ![c] = doc.abandono = Nadie /\ (@ \/ SinNombres(c))]
          /\ alDia' = [alDia EXCEPT ![c] = TRUE]
          /\ dialogo' = [dialogo EXCEPT ![c] = @ \/ doc.abandono # Nadie]
          /\ UNCHANGED <<doc, pend, users, fase, cont, nombres, copia, hist, gasto>>
      BY <2>2 DEF Sigue, Evento
    <3>5. pedidos' \in [Clientes -> SUBSET [lado : Lados, de : Clientes]]
      <4>1. Q \in SUBSET [lado : Lados, de : Clientes]
        BY <3>2 DEF Q
      <4>2. pedidos \in [Clientes -> SUBSET [lado : Lados, de : Clientes]]
        BY DEF TypeOK
      <4> QED BY <3>3, <4>1, <4>2
    <3>6. n' \in [Clientes -> TodasLasOrdenes]
      BY <3>1, <3>3 DEF TypeOK
    <3>7. perdidos' \in [Clientes -> Nat]
      <4>1. perdidos \in [Clientes -> Nat] /\ perdidos[c] + 1 \in Nat
        BY DEF TypeOK
      <4> QED BY <3>3, <4>1
    <3>8. /\ reloj' \in [Clientes -> BOOLEAN]
          /\ alDia' \in [Clientes -> BOOLEAN]
          /\ dialogo' \in [Clientes -> BOOLEAN]
      BY <3>4 DEF TypeOK
    <3>9. jug' \in [Clientes -> Jugadas \cup {SinJugada}]
      BY <3>4 DEF TypeOK
    <3>10. TypeOK'
      BY <3>4, <3>5, <3>6, <3>7, <3>8, <3>9 DEF TypeOK
    <3>11. RelojConJugada'
      <4> SUFFICES ASSUME NEW d \in Clientes, reloj'[d] \/ perdidos'[d] > 0
                   PROVE  jug'[d] # SinJugada
        BY DEF RelojConJugada
      <4>1. CASE d = c
        BY <4>1, <3>4, NulosAssumption DEF TypeOK
      <4>2. CASE d # c
        BY <4>2, <3>3, <3>4 DEF TypeOK, RelojConJugada
      <4> QED BY <4>1, <4>2
    <3> QED BY <3>10, <3>11
  <2>3. CASE Aplica(c)
    <3>1. pend[c] \in Seq(Jugadas) /\ pend[c] # <<>>
      BY <2>3 DEF Aplica, TypeOK
    <3>2. Head(pend[c]) \in Jugadas /\ Tail(pend[c]) \in Seq(Jugadas)
      BY <3>1
    <3>3. alDia' \in [Clientes -> BOOLEAN]
      BY <2>3 DEF Aplica, TypeOK
    <3>4. TypeOK'
      BY <2>3, <3>2, <3>3 DEF Aplica, TypeOK, actividad
    <3>5. RelojConJugada'
      BY <2>3 DEF Aplica, actividad, RelojConJugada
    <3> QED BY <3>4, <3>5
  <2>4. ASSUME NEW q \in pedidos[c], Nombres(c, q) PROVE TInv'
    <3>1. q.lado \in Lados /\ q.de \in Clientes
      BY DEF TypeOK
    <3>2. TypeOK'
      BY <2>4, <3>1 DEF Nombres, TypeOK, firestore
    <3>3. RelojConJugada'
      BY <2>4 DEF Nombres, RelojConJugada
    <3> QED BY <3>2, <3>3
  <2>5. ASSUME NEW img \in Imagenes, NEW orden \in Ordenes, Toque(c, img, orden)
        PROVE  TInv'
    <3> DEFINE k == Tanteo(img, n[c], c = Uno, SoyDos(c, jug[c]), jug[c], cont[c])
               j == [jug[c] EXCEPT !.p1 = k.c1, !.p2 = k.c2, !.tocate = orden]
    <3>1. jug[c] \in Jugadas
      BY <2>5 DEF Toque, TypeOK
    <3>2. k \in Contadores
      <4>1. (c = Uno) \in BOOLEAN /\ SoyDos(c, jug[c]) \in BOOLEAN
        BY DEF SoyDos
      <4>2. n[c] \in TodasLasOrdenes /\ cont[c] \in Contadores
        BY DEF TypeOK, Contadores
      <4> QED BY <3>1, <4>1, <4>2, TanteoTipo
    <3>3. orden \in TodasLasOrdenes
      BY OrdenesAssumption
    <3>4. /\ cont' = [cont EXCEPT ![c] = k]
          /\ Escribe(c, j)
          /\ hist' = [hist EXCEPT ![c] = @ \cup {MiCuenta(c, k)}]
          /\ n' = [n EXCEPT ![c] = orden]
      BY <2>5 DEF Toque
    <3> HIDE DEF k
    <3>5. k.c1 \in Int /\ k.c2 \in Int /\ MiCuenta(c, k) \in Int
      BY <3>2 DEF Contadores, MiCuenta
    <3>6. j \in Jugadas
      BY <3>1, <3>3, <3>5 DEF Jugadas
    <3> HIDE DEF j
    <3>7. /\ jug' \in [Clientes -> Jugadas \cup {SinJugada}]
          /\ pend' \in [Clientes -> Seq(Jugadas)]
      BY <3>4, <3>6 DEF Escribe, TypeOK
    <3>8. /\ cont' \in [Clientes -> [c1 : Int, c2 : Int]]
          /\ n' \in [Clientes -> TodasLasOrdenes]
          /\ hist' \in [Clientes -> SUBSET Int]
      BY <3>2, <3>3, <3>4, <3>5 DEF TypeOK, Contadores
    <3>9. gasto' \in [Clientes -> [toques : Nat, vueltas : Nat, giros : Nat]]
      BY <2>5, GastoTipo DEF Toque, TypeOK
    <3>10. TypeOK'
      BY <2>5, <3>7, <3>8, <3>9 DEF Toque, TypeOK
    <3>11. jug' = [jug EXCEPT ![c] = j] /\ jug[c] # SinJugada
      BY <2>5, <3>4 DEF Escribe, Toque
    <3>12. RelojConJugada'
      BY <2>5, <3>6, <3>11, NulosAssumption DEF Toque, TypeOK, RelojConJugada
    <3> QED BY <3>10, <3>12
  <2>6. CASE SinPartida(c)
    BY <2>6 DEF SinPartida, TypeOK, RelojConJugada, firestore, Fases
  <2>7. CASE Expira(c)
    <3>1. jug[c] \in Jugadas /\ fase[c] \in Fases
      BY <2>7 DEF Expira, TypeOK, RelojConJugada
    <3>2. FuncionGameover(c, jug[c], fase[c])
      BY <2>7 DEF Expira
    <3> QED BY <2>7, <3>1, <3>2, CierreTInv DEF Expira, TypeOK
  <2>8. CASE ExpiraPerdido(c)
    <3> DEFINE f == IF fase[c] = "fin" THEN "caida" ELSE fase[c]
    <3>1. jug[c] \in Jugadas /\ f \in Fases
      BY <2>8 DEF ExpiraPerdido, TypeOK, RelojConJugada, Fases
    <3>2. FuncionGameover(c, jug[c], f)
      BY <2>8 DEF ExpiraPerdido
    <3>3. perdidos' \in [Clientes -> Nat]
      BY <2>8 DEF ExpiraPerdido, TypeOK
    <3> QED BY <2>8, <3>1, <3>2, <3>3, CierreTInv DEF ExpiraPerdido, TypeOK
  <2>9. CASE Atras(c)
    <3> DEFINE j == [jug[c] EXCEPT !.abandono = c]
    <3>1. j \in Jugadas /\ "saliendo" \in Fases
      BY <2>9 DEF Atras, TypeOK, Jugadas, Fases
    <3>2. FuncionGameover(c, j, "saliendo")
      BY <2>9 DEF Atras
    <3> QED BY <2>9, <3>1, <3>2, CierreTInv DEF Atras, TypeOK
  <2>10. CASE SalirDialogo(c)
    BY <2>10 DEF SalirDialogo, TypeOK, RelojConJugada, firestore, Fases
  <2>11. CASE Parar(c)
    <3> DEFINE f == IF fase[c] = "saliendo" THEN "fin" ELSE "detenida"
    <3>1. jug[c] \in Jugadas /\ f \in Fases
      BY <2>11 DEF Parar, TypeOK, Fases
    <3>2. FuncionGameover(c, jug[c], f)
      BY <2>11 DEF Parar
    <3> QED BY <2>11, <3>1, <3>2, CierreTInv DEF Parar, TypeOK
  <2>12. CASE PararSinPartida(c)
    BY <2>12 DEF PararSinPartida, TypeOK, RelojConJugada, firestore, Fases
  <2>13. CASE Volver(c)
    <3>1. gasto' \in [Clientes -> [toques : Nat, vueltas : Nat, giros : Nat]]
      BY <2>13, GastoTipo DEF Volver, TypeOK
    <3> QED BY <2>13, <3>1 DEF Volver, TypeOK, RelojConJugada, Fases
  <2>14. CASE Girar(c)
    <3>1. jug[c] \in Jugadas /\ copia[c] \in Cuentas
      BY <2>14 DEF Girar, PuedePagar, TypeOK
    <3>2. ConGanador(jug[c]) \in Jugadas /\ Pagada(c, jug[c]) \in Cuentas
      BY <3>1, ConGanadorTipo, PagadaTipo
    <3>3. pend' \in [Clientes -> Seq(Jugadas)] /\ users' \in [Clientes -> Cuentas]
      BY <2>14, <3>2 DEF Girar, TypeOK
    <3>4. TypeOK'
      <4>1. gasto' \in [Clientes -> [toques : Nat, vueltas : Nat, giros : Nat]]
        BY <2>14, GastoTipo DEF Girar, TypeOK
      <4>2. cont' \in [Clientes -> [c1 : Int, c2 : Int]]
        BY <2>14 DEF Girar, TypeOK
      <4>3. n' \in [Clientes -> TodasLasOrdenes] /\ jug' \in [Clientes -> Jugadas \cup {SinJugada}]
        <5>1. 0 \in TodasLasOrdenes
          BY DEF TodasLasOrdenes
        <5> QED BY <2>14, <5>1 DEF Girar, TypeOK
      <4> QED BY <2>14, <3>3, <4>1, <4>2, <4>3 DEF Girar, TypeOK
    <3>5. RelojConJugada'
      BY <2>14 DEF Girar, TypeOK, RelojConJugada
    <3> QED BY <3>4, <3>5
  <2> QED BY <1>2, <2>1, <2>2, <2>3, <2>4, <2>5, <2>6, <2>7, <2>8, <2>9, <2>10,
             <2>11, <2>12, <2>13, <2>14 DEF Paso
<1> QED BY <1>1, <1>2 DEF Next

(* Type correctness, from the strengthening that no clock can run out on an   *)
(* activity that holds no match: otherwise its own game over (MultPlayer-     *)
(* Activity:211-222) would write a null match.                                *)
THEOREM TipoCorrecto == Spec => []TypeOK
<1>1. TInv => TypeOK
  BY DEF TInv
<1> QED BY InitTInv, NextTInv, <1>1, PTL DEF Spec

-----------------------------------------------------------------------------
(* The view: what a phone holds is its last write until the server applies    *)
(* it.  The part about a stopped activity is what a return relies on.         *)
VistaInvDe(c) ==
    /\ VistaFielDe(c)
    /\ fase[c] = "fuera" => jug[c] = SinJugada
    /\ fase[c] = "detenida" /\ jug[c] # SinJugada /\ pend[c] # <<>>
          => jug[c] = pend[c][Len(pend[c])]
VistaInv == \A c \in Clientes : VistaInvDe(c)

(* The last write of a queue that has just been lengthened is the new one. *)
LEMMA UltimoDeAppend ==
    ASSUME NEW s \in Seq(Jugadas), NEW j \in Jugadas
    PROVE  /\ Append(s, j) # <<>>
           /\ Append(s, j)[Len(Append(s, j))] = j
OBVIOUS

(* Applying the first write of a queue leaves the last one where it was, and  *)
(* applies it when it was the only one.                                       *)
LEMMA UltimoDeTail ==
    ASSUME NEW s \in Seq(Jugadas), s # <<>>
    PROVE  /\ Tail(s) # <<>> => Tail(s)[Len(Tail(s))] = s[Len(s)]
           /\ Tail(s) = <<>> => Head(s) = s[Len(s)]
OBVIOUS

(* A phone that writes holds what it wrote last. *)
LEMMA EscribeVista ==
    ASSUME TypeOK, NEW c \in Clientes, NEW j \in Jugadas, Escribe(c, j)
    PROVE  /\ jug'[c] = j /\ pend'[c] # <<>> /\ pend'[c][Len(pend'[c])] = j
           /\ \A d \in Clientes : d # c => jug'[d] = jug[d] /\ pend'[d] = pend[d]
<1>1. pend[c] \in Seq(Jugadas) /\ pend'[c] = Append(pend[c], j)
  BY DEF TypeOK, Escribe
<1> QED BY <1>1, UltimoDeAppend DEF TypeOK, Escribe

(* funcionGameover leaves the phone holding what it wrote. *)
LEMMA CierreVista ==
    ASSUME TypeOK, VistaInv, NEW c \in Clientes, NEW j \in Jugadas, NEW f \in Fases,
           FuncionGameover(c, j, f), f # "fuera", UNCHANGED <<doc, alDia>>
    PROVE  VistaInv'
<1>1. ConGanador(j) \in Jugadas /\ Escribe(c, ConGanador(j))
  BY ConGanadorTipo DEF FuncionGameover
<1>2. /\ jug'[c] = ConGanador(j) /\ pend'[c] # <<>>
      /\ pend'[c][Len(pend'[c])] = ConGanador(j)
      /\ \A d \in Clientes : d # c => jug'[d] = jug[d] /\ pend'[d] = pend[d]
  BY <1>1, EscribeVista
<1>3. /\ \A d \in Clientes : d # c => fase'[d] = fase[d]
      /\ fase'[c] # "fuera"
  BY DEF FuncionGameover, TypeOK
<1> SUFFICES ASSUME NEW d \in Clientes PROVE VistaInvDe(d)'
  BY DEF VistaInv
<1>4. CASE d = c
  BY <1>2, <1>3, <1>4 DEF VistaInvDe, VistaFielDe, EnPantalla
<1>5. CASE d # c
  BY <1>2, <1>3, <1>5 DEF VistaInv, VistaInvDe, VistaFielDe, EnPantalla
<1> QED BY <1>4, <1>5

(* No phone holds a match before it opens it.                                 *)
LEMMA InitVista == Init => VistaInv
BY DEF Init, VistaInv, VistaInvDe, VistaFielDe

(* Every step keeps the view: a write goes to the screen and to the end of    *)
(* the queue together, an event copies the server's document, and a write the *)
(* server applies is an event for everybody else that it changes.             *)
LEMMA NextVista == TInv /\ VistaInv /\ [Next]_vars => VistaInv'
<1> SUFFICES ASSUME TypeOK, RelojConJugada, VistaInv, [Next]_vars PROVE VistaInv'
  BY DEF TInv
<1>1. CASE UNCHANGED vars
  BY <1>1 DEF vars, firestore, actividad, VistaInv, VistaInvDe, VistaFielDe, EnPantalla
<1>2. ASSUME NEW c \in Clientes, Paso(c) PROVE VistaInv'
  <2> USE DEF VistaInv, VistaInvDe, VistaFielDe, EnPantalla
  <2>1. CASE Abrir(c)
    BY <2>1 DEF Abrir, TypeOK
  <2>2. CASE Evento(c)
    BY <2>2 DEF Evento, TypeOK
  <2>3. CASE Aplica(c)
    <3>1. pend[c] \in Seq(Jugadas) /\ pend[c] # <<>>
      BY <2>3 DEF Aplica, TypeOK
    <3>2. /\ Tail(pend[c]) # <<>> => Tail(pend[c])[Len(Tail(pend[c]))] = pend[c][Len(pend[c])]
          /\ Tail(pend[c]) = <<>> => Head(pend[c]) = pend[c][Len(pend[c])]
      BY <3>1, UltimoDeTail
    <3>3. /\ pend'[c] = Tail(pend[c]) /\ doc' = Head(pend[c])
          /\ \A d \in Clientes : d # c => pend'[d] = pend[d]
          /\ jug' = jug /\ fase' = fase
      BY <2>3 DEF Aplica, TypeOK, actividad
    <3> SUFFICES ASSUME NEW d \in Clientes PROVE VistaInvDe(d)'
      OBVIOUS
    <3>4. CASE d = c
      BY <3>1, <3>2, <3>3, <3>4
    <3>5. CASE d # c
      <4>1. /\ pend'[d] = pend[d] /\ jug'[d] = jug[d] /\ fase'[d] = fase[d]
            /\ alDia'[d] => alDia[d] /\ doc' = doc
        <5>1. pend'[d] = pend[d] /\ jug'[d] = jug[d] /\ fase'[d] = fase[d]
          BY <3>3, <3>5
        <5>2. ASSUME alDia'[d] PROVE alDia[d] /\ doc' = doc
          BY <2>3, <3>5, <5>2 DEF Aplica
        <5> QED BY <5>1, <5>2
      <4>2. ASSUME EnPantalla(d)', jug'[d] # SinJugada, pend'[d] = <<>>, alDia'[d]
            PROVE  jug'[d] = doc'
        BY <4>1, <4>2
      <4>3. VistaFielDe(d)'
        BY <4>1, <4>2
      <4> QED BY <4>1, <4>3
    <3> QED BY <3>4, <3>5
  <2>4. ASSUME NEW q \in pedidos[c], Nombres(c, q) PROVE VistaInv'
    BY <2>4 DEF Nombres, firestore
  <2>5. ASSUME NEW img \in Imagenes, NEW orden \in Ordenes, Toque(c, img, orden)
        PROVE  VistaInv'
    <3>1. PICK j : Escribe(c, j)
      BY <2>5 DEF Toque
    <3>2. TInv'
      BY <2>5, NextTInv DEF TInv, Next, Paso
    <3>3. pend'[c] \in Seq(Jugadas) /\ pend'[c] = Append(pend[c], j) /\ pend[c] \in Seq(Jugadas)
      BY <3>1, <3>2 DEF TInv, TypeOK, Escribe
    <3>4. pend'[c] # <<>> /\ pend'[c][Len(pend'[c])] = j /\ jug'[c] = j
      BY <3>1, <3>3 DEF Escribe, TypeOK
    <3>5. /\ \A d \in Clientes : d # c => jug'[d] = jug[d] /\ pend'[d] = pend[d]
          /\ UNCHANGED <<doc, alDia, fase>> /\ fase[c] = "jugando"
      BY <2>5, <3>1 DEF Escribe, Toque, TypeOK
    <3> SUFFICES ASSUME NEW d \in Clientes PROVE VistaInvDe(d)'
      OBVIOUS
    <3>6. CASE d = c
      BY <3>4, <3>5, <3>6
    <3>7. CASE d # c
      BY <3>5, <3>7
    <3> QED BY <3>6, <3>7
  <2>6. CASE SinPartida(c)
    BY <2>6 DEF SinPartida, firestore, TypeOK
  <2>7. CASE Expira(c)
    <3>1. jug[c] \in Jugadas /\ fase[c] \in Fases /\ fase[c] # "fuera"
      BY <2>7 DEF Expira, TypeOK, RelojConJugada
    <3> QED BY <2>7, <3>1, CierreVista DEF Expira
  <2>8. CASE ExpiraPerdido(c)
    <3> DEFINE f == IF fase[c] = "fin" THEN "caida" ELSE fase[c]
    <3>1. jug[c] \in Jugadas /\ f \in Fases /\ f # "fuera"
      BY <2>8 DEF ExpiraPerdido, TypeOK, RelojConJugada, Fases
    <3>2. FuncionGameover(c, jug[c], f) /\ UNCHANGED <<doc, alDia>>
      BY <2>8 DEF ExpiraPerdido
    <3> HIDE DEF f
    <3> QED BY <3>1, <3>2, CierreVista
  <2>9. CASE Atras(c)
    <3>1. [jug[c] EXCEPT !.abandono = c] \in Jugadas /\ "saliendo" \in Fases
      BY <2>9 DEF Atras, TypeOK, Jugadas, Fases
    <3> QED BY <2>9, <3>1, CierreVista DEF Atras
  <2>10. CASE SalirDialogo(c)
    BY <2>10 DEF SalirDialogo, firestore, TypeOK
  <2>11. CASE Parar(c)
    <3> DEFINE f == IF fase[c] = "saliendo" THEN "fin" ELSE "detenida"
    <3>1. jug[c] \in Jugadas /\ f \in Fases /\ f # "fuera"
      BY <2>11 DEF Parar, TypeOK, Fases
    <3> QED BY <2>11, <3>1, CierreVista DEF Parar
  <2>12. CASE PararSinPartida(c)
    BY <2>12 DEF PararSinPartida, firestore, TypeOK
  <2>13. CASE Volver(c)
    BY <2>13 DEF Volver, TypeOK
  <2>14. CASE Girar(c)
    BY <2>14 DEF Girar, TypeOK
  <2> QED BY <1>2, <2>1, <2>2, <2>3, <2>4, <2>5, <2>6, <2>7, <2>8, <2>9, <2>10,
             <2>11, <2>12, <2>13, <2>14 DEF Paso
<1> QED BY <1>1, <1>2 DEF Next

(* VistaFiel in every reachable state: a phone shows its own last write until *)
(* the server has applied it, and the server's document when no event is due. *)
THEOREM VistaSiempreFiel == Spec => []VistaFiel
<1>1. VistaInv => VistaFiel
  BY DEF VistaInv, VistaInvDe, VistaFiel
<1> QED BY InitTInv, NextTInv, InitVista, NextVista, <1>1, PTL DEF Spec

-----------------------------------------------------------------------------
(* The winner.  A phone whose activity is closed has a consistent document at *)
(* the end of its queue, and unless the server's document is consistent some  *)
(* phone is still open or has something queued: the last write to arrive,     *)
(* whosever it is, is the closing write of some phone.                        *)
SaldadaDe(c) == Cerrada(c) /\ pend[c] # <<>> => GanaElMarcador(pend[c][Len(pend[c])])
Queda(c) == ~Cerrada(c) \/ pend[c] # <<>>
GanadorInv == /\ \A c \in Clientes : SaldadaDe(c)
              /\ (\E c \in Clientes : Queda(c)) \/ GanaElMarcador(doc)

(* funcionGameover queues a consistent document. *)
LEMMA CierreGanador ==
    ASSUME TypeOK, GanadorInv, NEW c \in Clientes, NEW j \in Jugadas, NEW f \in Fases,
           FuncionGameover(c, j, f), UNCHANGED doc
    PROVE  GanadorInv'
<1>1. ConGanador(j) \in Jugadas /\ Escribe(c, ConGanador(j)) /\ GanaElMarcador(ConGanador(j))
  BY ConGanadorTipo DEF FuncionGameover
<1>2. /\ pend'[c] # <<>> /\ pend'[c][Len(pend'[c])] = ConGanador(j)
      /\ \A d \in Clientes : d # c => pend'[d] = pend[d]
  BY <1>1, EscribeVista
<1>3. \A d \in Clientes : d # c => fase'[d] = fase[d]
  BY DEF FuncionGameover, TypeOK
<1>4. ASSUME NEW d \in Clientes PROVE SaldadaDe(d)'
  <2>1. CASE d = c
    BY <2>1, <1>1, <1>2 DEF SaldadaDe, GanaElMarcador
  <2>2. CASE d # c
    BY <2>2, <1>2, <1>3 DEF GanadorInv, SaldadaDe, Cerrada, GanaElMarcador
  <2> QED BY <2>1, <2>2
<1>5. Queda(c)'
  BY <1>2 DEF Queda
<1> QED BY <1>4, <1>5 DEF GanadorInv

(* Player one has not left yet.                                               *)
LEMMA InitGanador == Init => GanadorInv
<1> SUFFICES ASSUME Init PROVE GanadorInv
  OBVIOUS
<1>1. fase[Uno] = "fuera" /\ \A c \in Clientes : Cerrada(c) => pend[c] = <<>>
  BY JugadoresAssumption DEF Init, Aceptada, Desplazada, Rechazada, Cerrada
<1> QED BY <1>1, JugadoresAssumption DEF GanadorInv, SaldadaDe, Queda, Cerrada

(* Every step keeps it: who leaves has queued a consistent document, and the  *)
(* server's document is the last one some queue held.                         *)
LEMMA NextGanador == TInv /\ GanadorInv /\ [Next]_vars => GanadorInv'
<1> SUFFICES ASSUME TypeOK, RelojConJugada, GanadorInv, [Next]_vars PROVE GanadorInv'
  BY DEF TInv
<1>1. CASE UNCHANGED vars
  BY <1>1 DEF vars, firestore, actividad, GanadorInv, SaldadaDe, Queda, Cerrada, GanaElMarcador
<1>2. ASSUME NEW c \in Clientes, Paso(c) PROVE GanadorInv'
  <2> DEFINE Abierta == /\ \A d \in Clientes : d # c => fase'[d] = fase[d] /\ pend'[d] = pend[d]
                        /\ ~Cerrada(c)'
  <2>1. ASSUME Abierta PROVE GanadorInv'
    <3>1. \A d \in Clientes : SaldadaDe(d)'
      BY <2>1 DEF GanadorInv, SaldadaDe, Cerrada, GanaElMarcador
    <3>2. Queda(c)'
      BY <2>1 DEF Queda
    <3> QED BY <3>1, <3>2 DEF GanadorInv
  <2>2. ASSUME UNCHANGED <<doc, pend, fase>> PROVE GanadorInv'
    BY <2>2 DEF GanadorInv, SaldadaDe, Queda, Cerrada, GanaElMarcador
  <2>3. CASE Abrir(c)
    BY <2>3, <2>1 DEF Abrir, TypeOK, Cerrada
  <2>4. CASE Evento(c)
    BY <2>4, <2>2 DEF Evento
  <2>5. CASE Aplica(c)
    <3>1. pend[c] \in Seq(Jugadas) /\ pend[c] # <<>>
      BY <2>5 DEF Aplica, TypeOK
    <3>2. /\ Tail(pend[c]) # <<>> => Tail(pend[c])[Len(Tail(pend[c]))] = pend[c][Len(pend[c])]
          /\ Tail(pend[c]) = <<>> => Head(pend[c]) = pend[c][Len(pend[c])]
      BY <3>1, UltimoDeTail
    <3>3. /\ pend'[c] = Tail(pend[c]) /\ doc' = Head(pend[c])
          /\ \A d \in Clientes : d # c => pend'[d] = pend[d]
          /\ fase' = fase
      BY <2>5 DEF Aplica, TypeOK, actividad
    <3>4. ASSUME NEW d \in Clientes PROVE SaldadaDe(d)'
      <4>1. CASE d = c
        BY <4>1, <3>1, <3>2, <3>3 DEF GanadorInv, SaldadaDe, Cerrada, GanaElMarcador
      <4>2. CASE d # c
        BY <4>2, <3>3 DEF GanadorInv, SaldadaDe, Cerrada, GanaElMarcador
      <4> QED BY <4>1, <4>2
    <3>5. CASE Cerrada(c) /\ Tail(pend[c]) = <<>>
      <4>1. GanaElMarcador(pend[c][Len(pend[c])])
        BY <3>1, <3>5 DEF GanadorInv, SaldadaDe
      <4>2. GanaElMarcador(doc)'
        BY <4>1, <3>2, <3>3, <3>5 DEF GanaElMarcador
      <4> QED BY <3>4, <4>2 DEF GanadorInv
    <3>6. CASE ~(Cerrada(c) /\ Tail(pend[c]) = <<>>)
      <4>1. Queda(c)'
        BY <3>3, <3>6 DEF Queda, Cerrada
      <4> QED BY <3>4, <4>1 DEF GanadorInv
    <3> QED BY <3>5, <3>6
  <2>6. ASSUME NEW q \in pedidos[c], Nombres(c, q) PROVE GanadorInv'
    BY <2>6, <2>2 DEF Nombres, firestore
  <2>7. ASSUME NEW img \in Imagenes, NEW orden \in Ordenes, Toque(c, img, orden)
        PROVE  GanadorInv'
    BY <2>7, <2>1 DEF Toque, Escribe, TypeOK, Cerrada
  <2>8. CASE SinPartida(c) \/ PararSinPartida(c)
    BY <2>8, <2>1 DEF SinPartida, PararSinPartida, firestore, TypeOK, Cerrada
  <2>9. CASE Expira(c)
    <3>1. jug[c] \in Jugadas /\ fase[c] \in Fases
      BY <2>9 DEF Expira, TypeOK, RelojConJugada
    <3> QED BY <2>9, <3>1, CierreGanador DEF Expira
  <2>10. CASE ExpiraPerdido(c)
    <3> DEFINE f == IF fase[c] = "fin" THEN "caida" ELSE fase[c]
    <3>1. jug[c] \in Jugadas /\ f \in Fases
      BY <2>10 DEF ExpiraPerdido, TypeOK, RelojConJugada, Fases
    <3> QED BY <2>10, <3>1, CierreGanador DEF ExpiraPerdido
  <2>11. CASE Atras(c)
    <3>1. [jug[c] EXCEPT !.abandono = c] \in Jugadas /\ "saliendo" \in Fases
      BY <2>11 DEF Atras, TypeOK, Jugadas, Fases
    <3> QED BY <2>11, <3>1, CierreGanador DEF Atras
  <2>12. CASE SalirDialogo(c)
    <3>1. CASE fase[c] = "jugando"
      BY <2>12, <3>1, <2>1 DEF SalirDialogo, firestore, TypeOK, Cerrada
    <3>2. CASE fase[c] = "detenida"
      <4>1. /\ fase' = [fase EXCEPT ![c] = "fin"] /\ UNCHANGED <<doc, pend>>
        BY <2>12, <3>2 DEF SalirDialogo, firestore
      <4>2. \A d \in Clientes : Cerrada(d)' <=> Cerrada(d)
        BY <4>1, <3>2 DEF Cerrada, TypeOK
      <4> QED BY <4>1, <4>2 DEF GanadorInv, SaldadaDe, Queda, GanaElMarcador
    <3> QED BY <2>12, <3>1, <3>2 DEF SalirDialogo
  <2>13. CASE Parar(c)
    <3> DEFINE f == IF fase[c] = "saliendo" THEN "fin" ELSE "detenida"
    <3>1. jug[c] \in Jugadas /\ f \in Fases
      BY <2>13 DEF Parar, TypeOK, Fases
    <3> QED BY <2>13, <3>1, CierreGanador DEF Parar
  <2>14. CASE Volver(c)
    BY <2>14, <2>1 DEF Volver, TypeOK, Cerrada
  <2>15. CASE Girar(c)
    BY <2>15, <2>1 DEF Girar, TypeOK, Cerrada
  <2> QED BY <1>2, <2>3, <2>4, <2>5, <2>6, <2>7, <2>8, <2>9, <2>10, <2>11, <2>12,
             <2>13, <2>14, <2>15 DEF Paso
<1> QED BY <1>1, <1>2 DEF Next

(* GanadorDelMarcador in every reachable state: when every player has left    *)
(* and every phone has been heard, the winner in the document is the one its  *)
(* own score gives, in whatever order the whole-document writes arrived.      *)
THEOREM GanadorSiempreDelMarcador == Spec => []GanadorDelMarcador
<1>1. GanadorInv => GanadorDelMarcador
  BY DEF GanadorInv, GanadorDelMarcador, Queda
<1> QED BY InitTInv, NextTInv, InitGanador, NextGanador, <1>1, PTL DEF Spec

-----------------------------------------------------------------------------
(* The accounts.  No document gives the second seat to the host, so nobody    *)
(* but the host reads the host's account for its own side.                    *)
Ajenas == {j \in Jugadas : j.dos # Uno}
DeSuLado(c, cuenta) == cuenta.quien = Uno <=> c = Uno
TitularInv ==
    /\ doc \in Ajenas
    /\ \A c \in Clientes :
          /\ pend[c] \in Seq(Ajenas)
          /\ jug[c] # SinJugada => jug[c] \in Ajenas
          /\ \A q \in pedidos[c] : (q.lado = "uno" /\ q.de = Uno)
                                   \/ (q.lado = "dos" /\ q.de # Uno)
          /\ DeSuLado(c, users[c])
          /\ copia[c] # SinCuenta => DeSuLado(c, copia[c])

(* funcionGameover keeps the seat of the document and the owner of the        *)
(* account it pays.                                                           *)
LEMMA CierreTitular ==
    ASSUME TypeOK, TitularInv, NEW c \in Clientes, NEW j \in Ajenas, NEW f \in Fases,
           FuncionGameover(c, j, f), UNCHANGED doc,
           \A d \in Clientes : pedidos'[d] \subseteq pedidos[d]
    PROVE  TitularInv'
<1>1. ConGanador(j) \in Ajenas
  BY ConGanadorTipo DEF Ajenas
<1>2. /\ jug' = [jug EXCEPT ![c] = ConGanador(j)]
      /\ pend' = [pend EXCEPT ![c] = Append(@, ConGanador(j))]
  BY DEF FuncionGameover, Escribe
<1>3. ASSUME NEW d \in Clientes
      PROVE  pend'[d] \in Seq(Ajenas) /\ (jug'[d] # SinJugada => jug'[d] \in Ajenas)
  <2>1. CASE d = c
    <3>1. pend[c] \in Seq(Ajenas) /\ pend'[c] = Append(pend[c], ConGanador(j))
      BY <1>2 DEF TitularInv, TypeOK
    <3> QED BY <1>1, <1>2, <2>1, <3>1 DEF TypeOK
  <2>2. CASE d # c
    BY <1>2, <2>2 DEF TitularInv, TypeOK
  <2> QED BY <2>1, <2>2
<1>4. ASSUME NEW d \in Clientes
      PROVE  DeSuLado(d, users'[d]) /\ (copia'[d] # SinCuenta => DeSuLado(d, copia'[d]))
  <2>1. CASE PuedePagar(c)
    <3>1. copia[c] \in Cuentas /\ DeSuLado(c, copia[c])
      BY <2>1 DEF PuedePagar, TypeOK, TitularInv
    <3>2. DeSuLado(c, Pagada(c, j))
      BY <3>1, PagadaTipo DEF DeSuLado, Ajenas
    <3>3. copia' = [copia EXCEPT ![c] = Pagada(c, j)] /\ users' = [users EXCEPT ![c] = Pagada(c, j)]
      BY <2>1 DEF FuncionGameover, Paga
    <3>4. CASE d = c
      BY <3>2, <3>3, <3>4 DEF TypeOK
    <3>5. CASE d # c
      BY <3>3, <3>5 DEF TypeOK, TitularInv
    <3> QED BY <3>4, <3>5
  <2>2. CASE ~PuedePagar(c)
    BY <2>2 DEF FuncionGameover, TitularInv
  <2> QED BY <2>1, <2>2
<1> QED BY <1>3, <1>4 DEF TitularInv

(* Player one is in no second seat, and every account is its owner's.         *)
LEMMA InitTitular == Init => TitularInv
<1> SUFFICES ASSUME Init PROVE TitularInv
  OBVIOUS
<1>1. \A s \in Clientes \ {Uno} : /\ NuevaJugada(s) \in Ajenas
                                  /\ [NuevaJugada(s) EXCEPT !.abandono = Dos] \in Ajenas
  BY JugadoresAssumption DEF NuevaJugada, Jugadas, Ajenas, TodasLasOrdenes
<1>2. NuevaJugada(Dos) \in Ajenas
  BY <1>1, JugadoresAssumption
<1>3. <<>> \in Seq(Ajenas) /\ <<NuevaJugada(Dos)>> \in Seq(Ajenas)
  BY <1>2
<1>4. doc \in Ajenas /\ \A c \in Clientes : pend[c] \in Seq(Ajenas)
  <2>1. CASE Aceptada
    BY <2>1, <1>2, <1>3 DEF Aceptada
  <2>2. CASE \E t \in Clientes \ {Uno, Dos} : Desplazada(t)
    BY <2>2, <1>1, <1>3 DEF Desplazada
  <2>3. CASE Rechazada
    BY <2>3, <1>1, <1>3, JugadoresAssumption DEF Rechazada
  <2> QED BY <2>1, <2>2, <2>3 DEF Init
<1>5. \A c \in Clientes : DeSuLado(c, users[c])
  BY DEF Init, Cuenta, DeSuLado
<1> QED BY <1>4, <1>5 DEF Init, TitularInv

(* Every step keeps it: no write changes the seat to player one, and a copy   *)
(* comes from the account of the seat it is read for.                         *)
LEMMA NextTitular == TInv /\ TitularInv /\ [Next]_vars => TitularInv'
<1> SUFFICES ASSUME TypeOK, RelojConJugada, TitularInv, [Next]_vars PROVE TitularInv'
  BY DEF TInv
<1>1. CASE UNCHANGED vars
  BY <1>1 DEF vars, firestore, actividad, TitularInv, DeSuLado
<1>2. ASSUME NEW c \in Clientes, Paso(c) PROVE TitularInv'
  <2>1. ASSUME UNCHANGED <<doc, pend, jug, pedidos, users, copia>> PROVE TitularInv'
    BY <2>1 DEF TitularInv, DeSuLado
  <2>2. CASE Abrir(c) \/ SinPartida(c) \/ PararSinPartida(c) \/ SalirDialogo(c) \/ Volver(c)
    BY <2>1, <2>2 DEF Abrir, SinPartida, PararSinPartida, SalirDialogo, Volver, firestore
  <2>3. CASE Evento(c)
    <3> DEFINE Q == {[lado |-> "uno", de |-> Uno], [lado |-> "dos", de |-> doc.dos]}
    <3>1. doc.dos # Uno
      BY DEF TitularInv, Ajenas
    <3>2. \A q \in Q : (q.lado = "uno" /\ q.de = Uno) \/ (q.lado = "dos" /\ q.de # Uno)
      BY <3>1
    <3>3. \A d \in Clientes : pedidos'[d] \subseteq pedidos[d] \cup Q
      <4>1. pedidos' = [pedidos EXCEPT ![c] = @ \cup Q] \/ pedidos' = pedidos
        BY <2>3 DEF Evento
      <4> HIDE DEF Q
      <4> QED BY <4>1 DEF TypeOK
    <3> HIDE DEF Q
    <3>4. \A d \in Clientes : jug'[d] # SinJugada => jug'[d] \in Ajenas
      BY <2>3 DEF Evento, TypeOK, TitularInv
    <3>5. \A d \in Clientes : \A q \in pedidos'[d] :
             (q.lado = "uno" /\ q.de = Uno) \/ (q.lado = "dos" /\ q.de # Uno)
      BY <3>2, <3>3 DEF TitularInv
    <3>6. UNCHANGED <<doc, pend, users, copia>>
      BY <2>3 DEF Evento
    <3> QED BY <3>4, <3>5, <3>6 DEF TitularInv, DeSuLado
  <2>4. CASE Aplica(c)
    <3>1. pend[c] \in Seq(Ajenas) /\ pend[c] # <<>>
      BY <2>4 DEF Aplica, TitularInv
    <3>2. Head(pend[c]) \in Ajenas /\ Tail(pend[c]) \in Seq(Ajenas)
      BY <3>1
    <3>3. /\ doc' = Head(pend[c]) /\ pend' = [pend EXCEPT ![c] = Tail(@)]
          /\ UNCHANGED <<jug, pedidos, users, copia>>
      BY <2>4 DEF Aplica, actividad
    <3>4. \A d \in Clientes : pend'[d] \in Seq(Ajenas)
      BY <3>2, <3>3 DEF TypeOK, TitularInv
    <3> QED BY <3>2, <3>3, <3>4 DEF TitularInv, DeSuLado
  <2>5. ASSUME NEW q \in pedidos[c], Nombres(c, q) PROVE TitularInv'
    <3>1. q.de \in Clientes /\ pedidos'[c] \subseteq pedidos[c]
      BY <2>5 DEF Nombres, TypeOK
    <3>2. q.lado = Lado(c) => DeSuLado(c, users[q.de])
      BY <3>1 DEF TitularInv, Lado, DeSuLado
    <3>3. /\ copia' = [copia EXCEPT ![c] = IF q.lado = Lado(c) THEN users[q.de] ELSE @]
          /\ UNCHANGED <<doc, pend, users, jug>>
          /\ \A d \in Clientes : pedidos'[d] \subseteq pedidos[d]
      BY <2>5 DEF Nombres, firestore, TypeOK
    <3>4. \A d \in Clientes : copia'[d] # SinCuenta => DeSuLado(d, copia'[d])
      BY <3>2, <3>3 DEF TitularInv, TypeOK
    <3> QED BY <3>3, <3>4 DEF TitularInv, DeSuLado
  <2>6. ASSUME NEW img \in Imagenes, NEW orden \in Ordenes, Toque(c, img, orden)
        PROVE  TitularInv'
    <3>1. PICK j : Escribe(c, j) /\ \E k \in Contadores, o \in TodasLasOrdenes :
                      j = [jug[c] EXCEPT !.p1 = k.c1, !.p2 = k.c2, !.tocate = o]
      <4>1. jug[c] \in Jugadas /\ n[c] \in TodasLasOrdenes /\ cont[c] \in Contadores
        BY <2>6 DEF Toque, TypeOK, Contadores
      <4>2. (c = Uno) \in BOOLEAN /\ SoyDos(c, jug[c]) \in BOOLEAN
        BY DEF SoyDos
      <4>3. Tanteo(img, n[c], c = Uno, SoyDos(c, jug[c]), jug[c], cont[c]) \in Contadores
        BY <4>1, <4>2, TanteoTipo
      <4> QED BY <2>6, <4>3, OrdenesAssumption DEF Toque
    <3>2. jug[c] \in Ajenas
      BY <2>6 DEF Toque, TitularInv
    <3>3. j \in Ajenas
      BY <3>1, <3>2 DEF Ajenas, Jugadas, Contadores
    <3>4. /\ jug' = [jug EXCEPT ![c] = j] /\ pend' = [pend EXCEPT ![c] = Append(@, j)]
          /\ UNCHANGED <<doc, users, pedidos, copia>>
      BY <2>6, <3>1 DEF Escribe, Toque
    <3>5. Append(pend[c], j) \in Seq(Ajenas)
      BY <3>3 DEF TitularInv
    <3>6. ASSUME NEW d \in Clientes
          PROVE  pend'[d] \in Seq(Ajenas) /\ (jug'[d] # SinJugada => jug'[d] \in Ajenas)
      <4>1. CASE d = c
        BY <3>3, <3>4, <3>5, <4>1 DEF TypeOK
      <4>2. CASE d # c
        BY <3>4, <4>2 DEF TypeOK, TitularInv
      <4> QED BY <4>1, <4>2
    <3> QED BY <3>4, <3>6 DEF TitularInv, DeSuLado
  <2>7. CASE Expira(c)
    <3>1. jug[c] \in Ajenas /\ fase[c] \in Fases
      BY <2>7 DEF Expira, TypeOK, RelojConJugada, TitularInv
    <3> QED BY <2>7, <3>1, CierreTitular DEF Expira
  <2>8. CASE ExpiraPerdido(c)
    <3> DEFINE f == IF fase[c] = "fin" THEN "caida" ELSE fase[c]
    <3>1. jug[c] \in Ajenas /\ f \in Fases
      BY <2>8 DEF ExpiraPerdido, TypeOK, RelojConJugada, TitularInv, Fases
    <3> QED BY <2>8, <3>1, CierreTitular DEF ExpiraPerdido
  <2>9. CASE Atras(c)
    <3>1. [jug[c] EXCEPT !.abandono = c] \in Ajenas /\ "saliendo" \in Fases
      BY <2>9 DEF Atras, TitularInv, Ajenas, Jugadas, Fases
    <3> QED BY <2>9, <3>1, CierreTitular DEF Atras
  <2>10. CASE Parar(c)
    <3> DEFINE f == IF fase[c] = "saliendo" THEN "fin" ELSE "detenida"
    <3>1. jug[c] \in Ajenas /\ f \in Fases
      BY <2>10 DEF Parar, TitularInv, Fases
    <3>2. \A d \in Clientes : pedidos'[d] \subseteq pedidos[d]
      BY <2>10 DEF Parar, TypeOK
    <3> QED BY <2>10, <3>1, <3>2, CierreTitular DEF Parar
  <2>11. CASE Girar(c)
    <3>1. jug[c] \in Ajenas /\ copia[c] \in Cuentas /\ DeSuLado(c, copia[c])
      BY <2>11 DEF Girar, PuedePagar, TypeOK, TitularInv
    <3>2. ConGanador(jug[c]) \in Ajenas /\ DeSuLado(c, Pagada(c, jug[c]))
      BY <3>1, ConGanadorTipo, PagadaTipo DEF Ajenas, DeSuLado
    <3>3. Append(pend[c], ConGanador(jug[c])) \in Seq(Ajenas)
      BY <3>2 DEF TitularInv
    <3>4. /\ pend' = [pend EXCEPT ![c] = Append(@, ConGanador(jug[c]))]
          /\ users' = [users EXCEPT ![c] = Pagada(c, jug[c])]
          /\ jug' = [jug EXCEPT ![c] = SinJugada]
          /\ pedidos' = [pedidos EXCEPT ![c] = {}]
          /\ copia' = [copia EXCEPT ![c] = SinCuenta]
          /\ doc' = doc
      BY <2>11 DEF Girar
    <3>5. ASSUME NEW d \in Clientes
          PROVE  /\ pend'[d] \in Seq(Ajenas)
                 /\ jug'[d] # SinJugada => jug'[d] \in Ajenas
                 /\ pedidos'[d] \subseteq pedidos[d]
                 /\ DeSuLado(d, users'[d])
                 /\ copia'[d] # SinCuenta => DeSuLado(d, copia'[d])
      <4>1. CASE d = c
        BY <3>2, <3>3, <3>4, <4>1 DEF TypeOK
      <4>2. CASE d # c
        BY <3>4, <4>2 DEF TypeOK, TitularInv
      <4> QED BY <4>1, <4>2
    <3> QED BY <3>4, <3>5 DEF TitularInv
  <2> QED BY <1>2, <2>2, <2>3, <2>4, <2>5, <2>6, <2>7, <2>8, <2>9, <2>10, <2>11 DEF Paso
<1> QED BY <1>1, <1>2 DEF Next

(* CuentaDelAnfitrion in every reachable state, with any number of clients    *)
(* displaced from the second seat.                                            *)
THEOREM CuentaDelAnfitrionSegura == Spec => []CuentaDelAnfitrion
<1>1. TitularInv => CuentaDelAnfitrion
  BY DEF TitularInv, DeSuLado, CuentaDelAnfitrion
<1> QED BY InitTInv, NextTInv, InitTitular, NextTitular, <1>1, PTL DEF Spec

-----------------------------------------------------------------------------
(* Matches of two clients. *)

(* funcionGameover pays the copy and the account alike. *)
LEMMA PagoCopia ==
    ASSUME TypeOK, CopiaAlDia, NEW c \in Clientes, NEW j, NEW f, FuncionGameover(c, j, f)
    PROVE  CopiaAlDia'
<1>1. CASE PuedePagar(c)
  <2> DEFINE u == Pagada(c, j)
  <2>1. copia' = [copia EXCEPT ![c] = u] /\ users' = [users EXCEPT ![c] = u]
    BY <1>1 DEF FuncionGameover, Paga
  <2> HIDE DEF u
  <2>2. DOMAIN copia = Clientes /\ DOMAIN users = Clientes
    BY DEF TypeOK
  <2> QED BY <2>1, <2>2 DEF CopiaAlDia, PuedePagar
<1>2. CASE ~PuedePagar(c)
  BY <1>2 DEF FuncionGameover, CopiaAlDia, PuedePagar
<1> QED BY <1>1, <1>2

(* Every step keeps the copy: an answer brings the account as it is, and a    *)
(* payment changes both alike (two clients, so that the seat is its owner's). *)
LEMMA NextCopia ==
    ASSUME Clientes = {Uno, Dos}, TInv, TitularInv, CopiaAlDia, [Next]_vars
    PROVE  CopiaAlDia'
<1> USE DEF TInv
<1>1. ASSUME UNCHANGED <<users, copia>> PROVE CopiaAlDia'
  BY <1>1 DEF CopiaAlDia, PuedePagar
<1>2. CASE UNCHANGED vars
  BY <1>1, <1>2 DEF vars, firestore, actividad
<1>3. ASSUME NEW c \in Clientes, Paso(c) PROVE CopiaAlDia'
  <2>1. CASE \/ Abrir(c) \/ Evento(c) \/ Aplica(c) \/ SinPartida(c) \/ SalirDialogo(c)
             \/ PararSinPartida(c) \/ Volver(c)
             \/ \E img \in Imagenes, orden \in Ordenes : Toque(c, img, orden)
    BY <1>1, <2>1 DEF Abrir, Evento, Aplica, SinPartida, SalirDialogo, PararSinPartida,
                      Volver, Toque, firestore, actividad
  <2>2. ASSUME NEW q \in pedidos[c], Nombres(c, q) PROVE CopiaAlDia'
    <3>1. q.lado = Lado(c) => q.de = c
      BY JugadoresAssumption DEF TitularInv, Lado, TypeOK
    <3>2. /\ copia' = [copia EXCEPT ![c] = IF q.lado = Lado(c) THEN users[q.de] ELSE @]
          /\ users' = users
      BY <2>2 DEF Nombres, firestore
    <3> QED BY <3>1, <3>2 DEF CopiaAlDia, PuedePagar, TypeOK
  <2>3. CASE Expira(c) \/ ExpiraPerdido(c) \/ Atras(c) \/ Parar(c)
    BY <2>3, PagoCopia DEF Expira, ExpiraPerdido, Atras, Parar
  <2>4. CASE Girar(c)
    BY <2>4 DEF Girar, CopiaAlDia, PuedePagar, TypeOK
  <2> QED BY <1>3, <2>1, <2>2, <2>3, <2>4 DEF Paso
<1> QED BY <1>2, <1>3 DEF Next

(* CopiaAlDia in every reachable state of a match of two clients: no payment  *)
(* is overwritten by an older copy of the account.                            *)
THEOREM CopiaSiempreAlDia == Clientes = {Uno, Dos} => (Spec => []CopiaAlDia)
<1> SUFFICES ASSUME Clientes = {Uno, Dos} PROVE Spec => []CopiaAlDia
  OBVIOUS
<1>1. Init => CopiaAlDia
  BY DEF Init, CopiaAlDia, PuedePagar
<1>2. TInv /\ TitularInv /\ CopiaAlDia /\ [Next]_vars => CopiaAlDia'
  BY NextCopia
<1> QED BY InitTInv, NextTInv, InitTitular, NextTitular, <1>1, <1>2, PTL DEF Spec

-----------------------------------------------------------------------------
(* The scores. *)
Reales == {j \in Jugadas : j.p1 \in hist[Uno] /\ j.p2 \in hist[Dos]}
PuntosInv ==
    /\ doc \in Reales
    /\ \A c \in Clientes : /\ 0 \in hist[c]
                           /\ pend[c] \in Seq(Reales)
                           /\ jug[c] # SinJugada => jug[c] \in Reales
                           /\ cont[c].c1 \in hist[Uno] /\ cont[c].c2 \in hist[Dos]

(* A tap of a player in its seat changes its own counter only; the other's is *)
(* left alone or taken from the match it last saw.                            *)
LEMMA TanteoAjeno ==
    ASSUME NEW img \in Imagenes, NEW orden \in TodasLasOrdenes,
           NEW soyUno \in BOOLEAN, NEW j, NEW k \in Contadores
    PROVE  /\ soyUno => Tanteo(img, orden, soyUno, ~soyUno, j, k).c2 \in {k.c2, j.p2}
           /\ ~soyUno => Tanteo(img, orden, soyUno, ~soyUno, j, k).c1 \in {k.c1, j.p1}
<1> USE DEF SumaUno, RestaUno, SumaDos, RestaDos, Contadores
<1>1. orden = 0 \/ orden = 1 \/ orden = 2
  BY DEF TodasLasOrdenes
<1>2. /\ soyUno => TanteoUno(orden, soyUno, ~soyUno, j, k).c2 \in {k.c2, j.p2}
      /\ ~soyUno => TanteoUno(orden, soyUno, ~soyUno, j, k).c1 \in {k.c1, j.p1}
  BY <1>1 DEF TanteoUno
<1>3. /\ soyUno => TanteoDos(orden, soyUno, ~soyUno, j, k).c2 \in {k.c2, j.p2}
      /\ ~soyUno => TanteoDos(orden, soyUno, ~soyUno, j, k).c1 \in {k.c1, j.p1}
  BY <1>1 DEF TanteoDos
<1> QED BY <1>2, <1>3 DEF Tanteo

(* Every score is zero, and zero is in every history.                         *)
LEMMA InitPuntos == Init => PuntosInv
<1> SUFFICES ASSUME Init PROVE PuntosInv
  OBVIOUS
<1>1. \A s \in Clientes : /\ NuevaJugada(s) \in Reales
                          /\ [NuevaJugada(s) EXCEPT !.abandono = Dos] \in Reales
  <2>1. 0 \in hist[Uno] /\ 0 \in hist[Dos]
    BY JugadoresAssumption DEF Init
  <2>2. ASSUME NEW s \in Clientes
        PROVE  NuevaJugada(s) \in Jugadas /\ [NuevaJugada(s) EXCEPT !.abandono = Dos] \in Jugadas
    BY JugadoresAssumption DEF NuevaJugada, Jugadas, TodasLasOrdenes
  <2>3. ASSUME NEW s \in Clientes
        PROVE  /\ NuevaJugada(s).p1 = 0 /\ NuevaJugada(s).p2 = 0
               /\ [NuevaJugada(s) EXCEPT !.abandono = Dos].p1 = 0
               /\ [NuevaJugada(s) EXCEPT !.abandono = Dos].p2 = 0
    BY DEF NuevaJugada
  <2> QED BY <2>1, <2>2, <2>3 DEF Reales
<1>2. NuevaJugada(Dos) \in Reales
  BY <1>1, JugadoresAssumption
<1>3. <<>> \in Seq(Reales) /\ <<NuevaJugada(Dos)>> \in Seq(Reales)
  BY <1>2
<1>4. doc \in Reales /\ \A c \in Clientes : pend[c] \in Seq(Reales)
  <2>1. CASE Aceptada
    BY <2>1, <1>2, <1>3 DEF Aceptada
  <2>2. CASE \E t \in Clientes \ {Uno, Dos} : Desplazada(t)
    BY <2>2, <1>1, <1>3 DEF Desplazada
  <2>3. CASE Rechazada
    BY <2>3, <1>1, <1>3, JugadoresAssumption DEF Rechazada
  <2> QED BY <2>1, <2>2, <2>3 DEF Init
<1> QED BY <1>4, JugadoresAssumption DEF Init, PuntosInv

(* A write of a real score keeps every score real. *)
LEMMA EscribePuntos ==
    ASSUME TypeOK, PuntosInv, NEW c \in Clientes, NEW j \in Jugadas, Escribe(c, j),
           hist' \in [Clientes -> SUBSET Int],
           \A d \in Clientes : hist[d] \subseteq hist'[d],
           j.p1 \in hist'[Uno] /\ j.p2 \in hist'[Dos], UNCHANGED doc,
           \A d \in Clientes : cont'[d].c1 \in hist'[Uno] /\ cont'[d].c2 \in hist'[Dos]
    PROVE  PuntosInv'
<1>1. Reales \subseteq Reales' /\ j \in Reales'
  BY JugadoresAssumption DEF Reales
<1>2. ASSUME NEW d \in Clientes
      PROVE  pend'[d] \in Seq(Reales') /\ (jug'[d] # SinJugada => jug'[d] \in Reales')
  <2>1. pend[d] \in Seq(Reales')
    BY <1>1 DEF PuntosInv
  <2>2. CASE d = c
    <3>1. Append(pend[d], j) \in Seq(Reales')
      BY <1>1, <2>1
    <3> QED BY <1>1, <2>2, <3>1 DEF Escribe, TypeOK
  <2>3. CASE d # c
    BY <1>1, <2>1, <2>3 DEF Escribe, TypeOK, PuntosInv
  <2> QED BY <2>2, <2>3
<1>3. doc' \in Reales' /\ \A d \in Clientes : 0 \in hist'[d]
  BY <1>1 DEF PuntosInv
<1> QED BY <1>2, <1>3 DEF PuntosInv

(* Every step keeps the scores real (two clients).                            *)
LEMMA NextPuntos ==
    ASSUME Clientes = {Uno, Dos}, TInv, TitularInv, PuntosInv, [Next]_vars
    PROVE  PuntosInv'
<1> USE DEF TInv
<1>1. ASSUME UNCHANGED <<doc, pend, jug, cont, hist>> PROVE PuntosInv'
  BY <1>1 DEF PuntosInv, Reales
<1>2. CASE UNCHANGED vars
  BY <1>1, <1>2 DEF vars, firestore, actividad
<1>3. ASSUME NEW c \in Clientes, NEW j \in Reales, NEW f, FuncionGameover(c, j, f),
             UNCHANGED <<doc, cont, hist>>
      PROVE  PuntosInv'
  <2>1. ConGanador(j) \in Jugadas /\ ConGanador(j).p1 = j.p1 /\ ConGanador(j).p2 = j.p2
    BY ConGanadorTipo DEF Reales
  <2>2. Escribe(c, ConGanador(j))
    BY <1>3 DEF FuncionGameover
  <2>3. hist' \in [Clientes -> SUBSET Int]
    BY <1>3 DEF TypeOK
  <2>4. ConGanador(j).p1 \in hist'[Uno] /\ ConGanador(j).p2 \in hist'[Dos]
    BY <1>3, <2>1 DEF Reales
  <2>5. \A d \in Clientes : cont'[d].c1 \in hist'[Uno] /\ cont'[d].c2 \in hist'[Dos]
    BY <1>3 DEF PuntosInv
  <2> QED BY <1>3, <2>1, <2>2, <2>3, <2>4, <2>5, EscribePuntos
<1>4. ASSUME NEW c \in Clientes, Paso(c) PROVE PuntosInv'
  <2>1. CASE \/ Abrir(c) \/ SinPartida(c) \/ SalirDialogo(c) \/ PararSinPartida(c)
             \/ Volver(c) \/ \E q \in pedidos[c] : Nombres(c, q)
    BY <1>1, <2>1 DEF Abrir, SinPartida, SalirDialogo, PararSinPartida, Volver,
                      Nombres, firestore
  <2>2. CASE Evento(c)
    <3>1. jug' = [jug EXCEPT ![c] = doc] /\ UNCHANGED <<doc, pend, cont, hist>>
      BY <2>2 DEF Evento
    <3> QED BY <3>1 DEF PuntosInv, Reales, TypeOK
  <2>3. CASE Aplica(c)
    <3>1. pend[c] \in Seq(Reales) /\ pend[c] # <<>>
      BY <2>3 DEF Aplica, PuntosInv
    <3>2. Head(pend[c]) \in Reales /\ Tail(pend[c]) \in Seq(Reales)
      BY <3>1
    <3>3. /\ doc' = Head(pend[c]) /\ pend' = [pend EXCEPT ![c] = Tail(@)]
          /\ UNCHANGED <<jug, cont, hist>>
      BY <2>3 DEF Aplica, actividad
    <3>4. Reales' = Reales
      BY <3>3 DEF Reales
    <3>5. \A d \in Clientes : pend'[d] \in Seq(Reales)
      BY <3>2, <3>3 DEF TypeOK, PuntosInv
    <3> QED BY <3>2, <3>3, <3>4, <3>5 DEF PuntosInv
  <2>4. ASSUME NEW img \in Imagenes, NEW orden \in Ordenes, Toque(c, img, orden)
        PROVE  PuntosInv'
    <3> DEFINE k == Tanteo(img, n[c], c = Uno, SoyDos(c, jug[c]), jug[c], cont[c])
               j == [jug[c] EXCEPT !.p1 = k.c1, !.p2 = k.c2, !.tocate = orden]
    <3>1. jug[c] \in Jugadas /\ jug[c] \in Reales /\ jug[c].dos \in Clientes /\ jug[c].dos # Uno
      BY <2>4 DEF Toque, TypeOK, PuntosInv, TitularInv, Ajenas, Jugadas
    <3>2. n[c] \in TodasLasOrdenes /\ cont[c] \in Contadores
      BY DEF TypeOK, Contadores
    <3>3. (c = Uno) \in BOOLEAN /\ SoyDos(c, jug[c]) = ~(c = Uno)
      BY <3>1, JugadoresAssumption DEF SoyDos
    <3>4. k \in Contadores
      BY <3>1, <3>2, <3>3, TanteoTipo
    <3>5. /\ c = Uno => k.c2 \in {cont[c].c2, jug[c].p2}
          /\ c # Uno => k.c1 \in {cont[c].c1, jug[c].p1}
      <4> DEFINE b == (c = Uno)
      <4>1. k = Tanteo(img, n[c], b, ~b, jug[c], cont[c])
        BY <3>3
      <4>2. b \in BOOLEAN
        OBVIOUS
      <4> HIDE DEF b, k
      <4>3. /\ b => k.c2 \in {cont[c].c2, jug[c].p2}
            /\ ~b => k.c1 \in {cont[c].c1, jug[c].p1}
        BY <3>2, <4>1, <4>2, TanteoAjeno
      <4> QED BY <4>3 DEF b
    <3>6. /\ cont' = [cont EXCEPT ![c] = k] /\ Escribe(c, j)
          /\ hist' = [hist EXCEPT ![c] = @ \cup {MiCuenta(c, k)}]
          /\ doc' = doc
      BY <2>4 DEF Toque
    <3> HIDE DEF k
    <3>7. k.c1 \in Int /\ k.c2 \in Int
      BY <3>4 DEF Contadores
    <3>8. /\ hist' \in [Clientes -> SUBSET Int]
          /\ \A d \in Clientes : hist[d] \subseteq hist'[d]
          /\ MiCuenta(c, k) \in hist'[c]
      BY <3>6, <3>7 DEF TypeOK, MiCuenta
    <3>9. k.c1 \in hist'[Uno] /\ k.c2 \in hist'[Dos]
      <4>1. CASE c = Uno
        <5>1. k.c2 \in hist[Dos]
          BY <3>1, <3>5, <4>1 DEF PuntosInv, Reales
        <5> QED BY <3>8, <4>1, <5>1, JugadoresAssumption DEF MiCuenta
      <4>2. CASE c = Dos
        <5>1. k.c1 \in hist[Uno]
          BY <3>1, <3>5, <4>2, JugadoresAssumption DEF PuntosInv, Reales
        <5> QED BY <3>8, <4>2, <5>1, JugadoresAssumption DEF MiCuenta
      <4> QED BY <4>1, <4>2
    <3>10. j \in Jugadas /\ j.p1 = k.c1 /\ j.p2 = k.c2
      <4>1. orden \in TodasLasOrdenes
        BY OrdenesAssumption
      <4> QED BY <3>1, <3>7, <4>1 DEF Jugadas
    <3> HIDE DEF j
    <3>11. \A d \in Clientes : cont'[d].c1 \in hist'[Uno] /\ cont'[d].c2 \in hist'[Dos]
      BY <3>6, <3>8, <3>9, JugadoresAssumption DEF PuntosInv, TypeOK
    <3> QED BY <3>6, <3>8, <3>9, <3>10, <3>11, EscribePuntos
  <2>5. CASE Expira(c)
    <3>1. jug[c] \in Reales
      BY <2>5 DEF Expira, RelojConJugada, PuntosInv
    <3> QED BY <2>5, <3>1, <1>3 DEF Expira
  <2>6. CASE ExpiraPerdido(c)
    <3>1. jug[c] \in Reales
      BY <2>6 DEF ExpiraPerdido, RelojConJugada, PuntosInv
    <3> QED BY <2>6, <3>1, <1>3 DEF ExpiraPerdido
  <2>7. CASE Atras(c)
    <3>1. [jug[c] EXCEPT !.abandono = c] \in Reales
      BY <2>7 DEF Atras, PuntosInv, Reales, Jugadas
    <3> QED BY <2>7, <3>1, <1>3 DEF Atras
  <2>8. CASE Parar(c)
    <3>1. jug[c] \in Reales
      BY <2>8 DEF Parar, PuntosInv
    <3> QED BY <2>8, <3>1, <1>3 DEF Parar
  <2>9. CASE Girar(c)
    <3>1. jug[c] \in Reales /\ jug[c] \in Jugadas
      BY <2>9 DEF Girar, PuntosInv, Reales
    <3>2. ConGanador(jug[c]) \in Reales
      BY <3>1, ConGanadorTipo DEF Reales
    <3>3. /\ pend' = [pend EXCEPT ![c] = Append(@, ConGanador(jug[c]))]
          /\ jug' = [jug EXCEPT ![c] = SinJugada]
          /\ cont' = [cont EXCEPT ![c] = [c1 |-> 0, c2 |-> 0]]
          /\ UNCHANGED <<doc, hist>>
      BY <2>9 DEF Girar
    <3>4. Reales' = Reales
      BY <3>3 DEF Reales
    <3>5. Append(pend[c], ConGanador(jug[c])) \in Seq(Reales)
      BY <3>2 DEF PuntosInv
    <3>6. ASSUME NEW d \in Clientes
          PROVE  /\ pend'[d] \in Seq(Reales)
                 /\ jug'[d] # SinJugada => jug'[d] \in Reales
                 /\ cont'[d].c1 \in hist[Uno] /\ cont'[d].c2 \in hist[Dos]
      <4>1. CASE d = c
        BY <3>3, <3>5, <4>1, JugadoresAssumption DEF TypeOK, PuntosInv
      <4>2. CASE d # c
        BY <3>3, <4>2 DEF TypeOK, PuntosInv
      <4> QED BY <4>1, <4>2
    <3> QED BY <3>3, <3>4, <3>6 DEF PuntosInv
  <2> QED BY <1>4, <2>1, <2>2, <2>3, <2>4, <2>5, <2>6, <2>7, <2>8, <2>9 DEF Paso
<1> QED BY <1>2, <1>4 DEF Next

(* SinPuntosInventados in every reachable state of a match of two clients:    *)
(* writes overwrite one another, but never with a score nobody had.           *)
THEOREM PuntosNuncaInventados == Clientes = {Uno, Dos} => (Spec => []SinPuntosInventados)
<1> SUFFICES ASSUME Clientes = {Uno, Dos} PROVE Spec => []SinPuntosInventados
  OBVIOUS
<1>1. TInv /\ TitularInv /\ PuntosInv /\ [Next]_vars => PuntosInv'
  BY NextPuntos
<1>2. PuntosInv => SinPuntosInventados
  <2> SUFFICES ASSUME PuntosInv PROVE SinPuntosInventados
    OBVIOUS
  <2>1. ASSUME NEW c \in Clientes, NEW i \in 1..Len(pend[c]) PROVE pend[c][i] \in Reales
    BY DEF PuntosInv
  <2> QED BY <2>1 DEF PuntosInv, Reales, SinPuntosInventados
<1> QED BY InitTInv, NextTInv, InitTitular, NextTitular, InitPuntos, <1>1, <1>2, PTL DEF Spec

(* What a payment adds is a score its player's counter had. *)
LEMMA PagoReal ==
    ASSUME Clientes = {Uno, Dos}, TypeOK, CopiaAlDia, NEW c \in Clientes, PuedePagar(c),
           NEW j \in Reales, users' = [users EXCEPT ![c] = Pagada(c, j)],
           NEW d \in Clientes, users'[d] # users[d]
    PROVE  users'[d].puntos - users[d].puntos \in hist[d]
<1>1. d = c /\ users'[c] = Pagada(c, j)
  BY DEF TypeOK
<1>2. copia[c] = users[c] /\ users[c] \in Cuentas
  BY DEF CopiaAlDia, TypeOK
<1>3. MisPuntos(c, j) \in Int /\ MisPuntos(c, j) \in hist[c]
  BY JugadoresAssumption DEF MisPuntos, Reales, Jugadas
<1>4. Pagada(c, j).puntos = users[c].puntos + MisPuntos(c, j) /\ users[c].puntos \in Int
  <2> DEFINE p == users[c].puntos + MisPuntos(c, j)
             g == users[c].gameDone + 1
  <2>1. Pagada(c, j) = [users[c] EXCEPT !.puntos = p, !.gameDone = g]
    BY <1>2 DEF Pagada
  <2> HIDE DEF p, g
  <2>2. Pagada(c, j).puntos = p /\ users[c].puntos \in Int
    BY <1>2, <2>1 DEF Cuentas
  <2> QED BY <2>2 DEF p
<1> HIDE DEF Pagada
<1>5. users'[c].puntos - users[c].puntos = MisPuntos(c, j)
  BY <1>1, <1>3, <1>4
<1> QED BY <1>1, <1>3, <1>5

(* PagoRespaldado for every match of two clients: a step that changes an      *)
(* account adds a score its own player's counter had.                         *)
THEOREM PagoSiempreRespaldado == Clientes = {Uno, Dos} => (Spec => PagoRespaldado)
<1> SUFFICES ASSUME Clientes = {Uno, Dos} PROVE Spec => PagoRespaldado
  OBVIOUS
<1>1. TInv /\ TitularInv /\ CopiaAlDia /\ [Next]_vars => CopiaAlDia'
  BY NextCopia
<1>2. TInv /\ TitularInv /\ PuntosInv /\ [Next]_vars => PuntosInv'
  BY NextPuntos
<1>3. Init => CopiaAlDia
  BY DEF Init, CopiaAlDia, PuedePagar
<1>4. TInv /\ CopiaAlDia /\ PuntosInv /\ [Next]_vars => [PagoDeSusPuntos]_vars
  <2> SUFFICES ASSUME TInv, CopiaAlDia, PuntosInv, NEW c \in Clientes, Paso(c),
                      NEW d \in Clientes, users'[d] # users[d]
               PROVE  users'[d].puntos - users[d].puntos \in hist[d]
    BY DEF Next, PagoDeSusPuntos
  <2> USE DEF TInv
  <2>1. users' = users \/ \E j \in Reales : PuedePagar(c) /\ users' = [users EXCEPT ![c] = Pagada(c, j)]
    <3>1. CASE \/ Abrir(c) \/ Evento(c) \/ Aplica(c) \/ SinPartida(c) \/ SalirDialogo(c)
               \/ PararSinPartida(c) \/ Volver(c) \/ \E q \in pedidos[c] : Nombres(c, q)
               \/ \E img \in Imagenes, orden \in Ordenes : Toque(c, img, orden)
      BY <3>1 DEF Abrir, Evento, Aplica, SinPartida, SalirDialogo, PararSinPartida,
                  Volver, Nombres, Toque, firestore
    <3>2. CASE Expira(c) \/ ExpiraPerdido(c) \/ Parar(c)
      <4>1. jug[c] \in Reales
        BY <3>2 DEF Expira, ExpiraPerdido, Parar, RelojConJugada, PuntosInv
      <4>2. users' = users \/ (PuedePagar(c) /\ users' = [users EXCEPT ![c] = Pagada(c, jug[c])])
        BY <3>2 DEF Expira, ExpiraPerdido, Parar, FuncionGameover, Paga
      <4> QED BY <4>1, <4>2
    <3>3. CASE Atras(c)
      <4> DEFINE j == [jug[c] EXCEPT !.abandono = c]
      <4>1. j \in Reales
        BY <3>3 DEF Atras, PuntosInv, Reales, Jugadas
      <4>2. users' = users \/ (PuedePagar(c) /\ users' = [users EXCEPT ![c] = Pagada(c, j)])
        BY <3>3 DEF Atras, FuncionGameover, Paga
      <4> QED BY <4>1, <4>2
    <3>4. CASE Girar(c)
      <4>1. jug[c] \in Reales
        BY <3>4 DEF Girar, PuntosInv
      <4>2. PuedePagar(c) /\ users' = [users EXCEPT ![c] = Pagada(c, jug[c])]
        BY <3>4 DEF Girar
      <4> QED BY <4>1, <4>2
    <3> QED BY <3>1, <3>2, <3>3, <3>4 DEF Paso
  <2> QED BY <2>1, PagoReal
<1>5. Spec => []TInv /\ []CopiaAlDia /\ []PuntosInv
  BY InitTInv, NextTInv, InitTitular, NextTitular, InitPuntos, <1>1, <1>2, <1>3, PTL DEF Spec
<1> QED BY <1>4, <1>5, PTL DEF Spec, PagoRespaldado
=============================================================================
