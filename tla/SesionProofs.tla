----------------------------- MODULE SesionProofs -----------------------------
(* Proofs about Sesion, for any users and any bounds: whoever registers has   *)
(* an account, on the server or on its way, unless the registration was left, *)
(* an account loses points only by Facebook's way, and whoever is signed in   *)
(* is not left at the first screen.  The first rests on what the calls not    *)
(* yet answered are: the credentials are those of the users of Facebook, so   *)
(* that only a registration, or an earlier one, makes a user with an e-mail   *)
(* address exist.  The second compares every write of the queue with all      *)
(* those before it.  The last follows the stack of screens through the        *)
(* operators on it: but for the screen that comes to the screen, none of them *)
(* shows what was not shown, and only one screen is ever active.              *)
EXTENDS Sesion, Mayores

-----------------------------------------------------------------------------
(* What the operators on the screens do to the calls. *)
Estado(e) == \E a, b, c : e = [pila |-> a, pant |-> b, llamadas |-> c]
LlamadasInv(S) == /\ S \subseteq Llamadas
                  /\ \A l \in S : l.pide = "credencial" => l.u \notin Correo
Bien(e) == Estado(e) /\ LlamadasInv(e.llamadas)

LEMMA PartesBien ==
  ASSUME NEW a, NEW b, NEW c, LlamadasInv(c)
  PROVE  Bien([pila |-> a, pant |-> b, llamadas |-> c])
<1> DEFINE e == [pila |-> a, pant |-> b, llamadas |-> c]
<1>1. e.llamadas = c
  OBVIOUS
<1>2. Estado(e)
  BY DEF Estado
<1> QED BY <1>1, <1>2 DEF Bien

LEMMA BienPartes ==
  ASSUME NEW e, Bien(e)
  PROVE  \E a, b, c : /\ e = [pila |-> a, pant |-> b, llamadas |-> c]
                      /\ LlamadasInv(c)
<1>1. PICK a, b, c : e = [pila |-> a, pant |-> b, llamadas |-> c]
  BY DEF Bien, Estado
<1>2. e.llamadas = c
  BY <1>1
<1>3. LlamadasInv(c)
  BY <1>2 DEF Bien
<1> QED BY <1>1, <1>3

LEMMA AhoraBien == LlamadasInv(llamadas) => Bien(Ahora)
BY PartesBien DEF Ahora

LEMMA QuitaBien == ASSUME NEW e, Bien(e), NEW p PROVE Bien(Quita(e, p))
<1> DEFINE s == Sec!RemoveFirst(e.pila, p)
<1>1. PICK a, b, c : /\ e = [pila |-> a, pant |-> b, llamadas |-> c]
                     /\ LlamadasInv(c)
  BY BienPartes
<1>2. Quita(e, p) = [e EXCEPT !.pila = s]
  BY <1>1 DEF Quita
<1> HIDE DEF s
<1>3. Quita(e, p) = [pila |-> s, pant |-> b, llamadas |-> c]
  BY <1>1, <1>2
<1> QED BY <1>1, <1>3, PartesBien

LEMMA IniciaBien == ASSUME NEW e, Bien(e), NEW nombre PROVE Bien(Inicia(e, nombre))
<1> DEFINE p == CHOOSE q \in Libres(e) : \A r \in Libres(e) : q <= r
           s == Append(e.pila, p)
           t == [e.pant EXCEPT ![p] = [@ EXCEPT !.nombre = nombre, !.fase = "porCrear"]]
<1>1. PICK a, b, c : /\ e = [pila |-> a, pant |-> b, llamadas |-> c]
                     /\ LlamadasInv(c)
  BY BienPartes
<1>2. CASE Libres(e) = {}
  BY <1>2 DEF Inicia
<1>3. CASE Libres(e) # {}
  <2>1. Inicia(e, nombre) = [e EXCEPT !.pila = s, !.pant = t]
    BY <1>1, <1>3 DEF Inicia
  <2> HIDE DEF s, t
  <2>2. Inicia(e, nombre) = [pila |-> s, pant |-> t, llamadas |-> c]
    BY <1>1, <2>1
  <2> QED BY <1>1, <2>2, PartesBien
<1> QED BY <1>2, <1>3

LEMMA AlMenuBien == ASSUME NEW e, Bien(e), NEW p PROVE Bien(AlMenu(e, p))
BY QuitaBien, IniciaBien DEF AlMenu

LEMMA PideBien ==
  ASSUME NEW e, Bien(e), NEW pide \in Pedidos, NEW u \in Usuarios,
         NEW p \in Pantallas \cup {Nada}, pide = "credencial" => u \notin Correo
  PROVE  Bien(Pide(e, pide, u, p))
<1> DEFINE l == [pide |-> pide, u |-> u, de |-> p]
           S == e.llamadas \cup {l}
<1>1. PICK a, b, c : /\ e = [pila |-> a, pant |-> b, llamadas |-> c]
                     /\ LlamadasInv(c)
  BY BienPartes
<1>2. Pide(e, pide, u, p) = [e EXCEPT !.llamadas = S]
  BY <1>1 DEF Pide
<1>3. LlamadasInv(S)
  BY DEF Bien, LlamadasInv, Llamadas
<1> HIDE DEF S
<1>4. Pide(e, pide, u, p) = [pila |-> a, pant |-> b, llamadas |-> S]
  BY <1>1, <1>2
<1> QED BY <1>3, <1>4, PartesBien

LEMMA PedidosTodos == {"entrar", "crear", "perfil", "cuenta", "espera"} \subseteq Pedidos
BY DEF Pedidos

LEMMA UpdateUIBien ==
  ASSUME NEW e, Bien(e), NEW p \in Pantallas, NEW u \in Usuarios \cup {Nada}
  PROVE  Bien(UpdateUI(e, p, u))
<1> DEFINE f == IF token /\ perfil THEN Pide(e, "perfil", u, p) ELSE e
<1>1. CASE u = Nada
  BY <1>1 DEF UpdateUI
<1>2. CASE u # Nada
  <2>1. Bien(Pide(e, "perfil", u, p))
    BY <1>2, PideBien, PedidosTodos
  <2>2. Bien(f)
    BY <2>1
  <2>3. UpdateUI(e, p, u) = AlMenu(f, p)
    BY <1>2 DEF UpdateUI
  <2> QED BY <2>2, <2>3, AlMenuBien
<1> QED BY <1>1, <1>2

LEMMA AvisaBien == ASSUME NEW e, Bien(e), NEW u \in Usuarios PROVE Bien(Avisa(e, u))
<1> DEFINE oyen == {p \in Pantallas : e.pant[p].nombre = "main" /\ e.pant[p].fase = "activa"}
           p0 == CHOOSE p \in oyen : TRUE
<1>1. CASE oyen = {}
  BY <1>1 DEF Avisa
<1>2. CASE oyen # {}
  <2>1. p0 \in Pantallas
    BY <1>2
  <2>2. Avisa(e, u) = UpdateUI(e, p0, u)
    BY <1>2 DEF Avisa
  <2> HIDE DEF p0, oyen
  <2> QED BY <2>1, <2>2, UpdateUIBien
<1> QED BY <1>1, <1>2

LEMMA DetieneBien ==
  ASSUME NEW e, Bien(e), NEW S \in SUBSET Pantallas PROVE Bien(Detiene(e, S))
<1> DEFINE P == {l \in e.llamadas : l.pide \in {"crear", "entrar"} /\ l.de \in S}
           Q == {l \in e.llamadas : ~(l.pide = "cuenta" /\ l.de \in S)
                                    /\ ~(l.pide \in {"crear", "entrar"} /\ l.de \in S)}
           R == Q \cup {[l EXCEPT !.de = Nada] : l \in P}
           t == [p \in Pantallas |->
                    IF p \notin S THEN e.pant[p]
                    ELSE [e.pant[p] EXCEPT !.fase = IF \E i \in DOMAIN e.pila : e.pila[i] = p
                                                    THEN "detenida" ELSE "fin"]]
<1>1. PICK a, b, c : /\ e = [pila |-> a, pant |-> b, llamadas |-> c]
                     /\ LlamadasInv(c)
  BY BienPartes
<1>2. Detiene(e, S) = [e EXCEPT !.pant = t, !.llamadas = R]
  BY <1>1 DEF Detiene
<1>3. LlamadasInv(R)
  <2>1. LlamadasInv(Q)
    BY DEF Bien, LlamadasInv
  <2>2. ASSUME NEW l \in P
        PROVE  /\ [l EXCEPT !.de = Nada] \in Llamadas
               /\ [l EXCEPT !.de = Nada].pide # "credencial"
    BY DEF Bien, LlamadasInv, Llamadas
  <2> QED BY <2>1, <2>2 DEF LlamadasInv
<1> HIDE DEF t, R
<1>4. Detiene(e, S) = [pila |-> a, pant |-> t, llamadas |-> R]
  BY <1>1, <1>2
<1> QED BY <1>3, <1>4, PartesBien

LEMMA OtraPantalla ==
  ASSUME NEW e, Bien(e), NEW f, \E x : f = [e EXCEPT !.pant = x]
  PROVE  Bien(f)
<1>1. PICK a, b, c : /\ e = [pila |-> a, pant |-> b, llamadas |-> c]
                     /\ LlamadasInv(c)
  BY BienPartes
<1>2. PICK x : f = [e EXCEPT !.pant = x]
  OBVIOUS
<1>3. f = [pila |-> a, pant |-> x, llamadas |-> c]
  BY <1>1, <1>2
<1> QED BY <1>1, <1>3, PartesBien

LEMMA SinBien == ASSUME LlamadasInv(llamadas), NEW l PROVE Bien(Sin(l))
<1>1. Sin(l) = [pila |-> pila, pant |-> pant, llamadas |-> llamadas \ {l}]
  BY DEF Sin, Ahora
<1>2. LlamadasInv(llamadas \ {l})
  BY DEF LlamadasInv
<1> QED BY <1>1, <1>2, PartesBien

-----------------------------------------------------------------------------
(* The invariant. *)
TieneCuenta(u) == cuentas[u] # SinCuenta \/ \E i \in 1..Len(pend) : pend[i].u = u
CuentasInv == \A u \in Usuarios : u \in creados /\ u \in Correo /\ u \notin dejados => TieneCuenta(u)
SesionTipo == /\ actual \in Usuarios \cup {Nada}
              /\ creados \subseteq Usuarios
              /\ cuentas \in [Usuarios -> -1..MaxPuntos]
              /\ pend \in Seq(Escrituras)
SInv == SesionTipo /\ LlamadasInv(llamadas) /\ CuentasInv

(* What a step may do to an account: a write is queued, or nothing is.        *)
LEMMA MuestraInv ==
  ASSUME SInv, NEW e, Bien(e), Muestra(e)
  PROVE  SInv'
BY DEF SInv, SesionTipo, Bien, CuentasInv, TieneCuenta, Muestra, Quedan, sesion, firestore

LEMMA QuedanInv ==
  ASSUME SInv, NEW e, Bien(e), Quedan(e), UNCHANGED <<creados, dejados, cuentas, pend>>,
         actual' \in Usuarios \cup {Nada}
  PROVE  SInv'
BY DEF SInv, SesionTipo, Bien, CuentasInv, TieneCuenta, Quedan

LEMMA EncolaInv ==
  ASSUME SInv, NEW tipo \in {"alta", "facebook", "juego"}, NEW u \in Usuarios,
         NEW puntos \in 0..MaxPuntos, NEW p \in Pantallas \cup {Nada},
         Encola(tipo, u, puntos, p), UNCHANGED cuentas
  PROVE  /\ pend' \in Seq(Escrituras)
         /\ \A v \in Usuarios : TieneCuenta(v) => TieneCuenta(v)'
         /\ TieneCuenta(u)'
<1> DEFINE w == [tipo |-> tipo, u |-> u, puntos |-> puntos, de |-> p]
<1>1. w \in Escrituras /\ w.u = u
  BY DEF Escrituras
<1>2. pend' = Append(pend, w) /\ pend \in Seq(Escrituras) /\ Len(pend) \in Nat
  BY DEF Encola, SInv, SesionTipo
<1> HIDE DEF w
<1>3. /\ pend' \in Seq(Escrituras) /\ Len(pend') = Len(pend) + 1
      /\ \A i \in 1..Len(pend) : pend'[i] = pend[i]
      /\ pend'[Len(pend) + 1] = w
  BY <1>1, <1>2
<1>4. TieneCuenta(u)'
  <2>1. Len(pend) + 1 \in 1..Len(pend')
    BY <1>2, <1>3
  <2> QED BY <1>1, <1>3, <2>1 DEF TieneCuenta
<1>5. ASSUME NEW v \in Usuarios, TieneCuenta(v) PROVE TieneCuenta(v)'
  <2>1. 1..Len(pend) \subseteq 1..Len(pend')
    BY <1>2, <1>3
  <2> QED BY <1>3, <1>5, <2>1 DEF TieneCuenta
<1> QED BY <1>3, <1>4, <1>5

(* The end of the application: the queue stays, and so does every account.    *)
LEMMA CaidaInv == ASSUME SInv, Caida PROVE SInv'
<1>1. pend \in Seq(Escrituras) /\ Len(pend) \in Nat /\ DOMAIN pend = 1..Len(pend)
  BY DEF SInv, SesionTipo
<1>2. pend' = [i \in 1..Len(pend) |-> [pend[i] EXCEPT !.de = Nada]]
  BY <1>1 DEF Caida, ColaGuardada
<1>3. ASSUME NEW i \in 1..Len(pend)
      PROVE  pend'[i] \in Escrituras /\ pend'[i].u = pend[i].u
  <2> DEFINE w == pend[i]
  <2>1. w \in Escrituras
    BY <1>1
  <2>2. pend'[i] = [w EXCEPT !.de = Nada]
    BY <1>2
  <2> HIDE DEF w
  <2>3. [w EXCEPT !.de = Nada] \in Escrituras /\ [w EXCEPT !.de = Nada].u = w.u
    BY <2>1 DEF Escrituras
  <2> QED BY <2>2, <2>3 DEF w
<1>4. pend' \in Seq(Escrituras) /\ Len(pend') = Len(pend)
  <2>1. pend' \in [1..Len(pend) -> Escrituras]
    BY <1>2, <1>3
  <2> QED BY <1>1, <2>1
<1>5. PICK S \in SUBSET {l.u : l \in {x \in llamadas : x.pide = "crear"}} :
         creados' = creados \cup S /\ dejados' = dejados \cup (S \ creados)
  BY DEF Caida, Termina
<1>6. S \subseteq Usuarios
  BY DEF SInv, LlamadasInv, Llamadas
<1>7. llamadas' = {} /\ UNCHANGED <<actual, cuentas>>
  BY DEF Caida, Termina
<1>8. CuentasInv'
  BY <1>3, <1>4, <1>5, <1>7 DEF SInv, CuentasInv, TieneCuenta
<1> QED BY <1>4, <1>5, <1>6, <1>7, <1>8 DEF SInv, SesionTipo, LlamadasInv

-----------------------------------------------------------------------------
(* The screens. *)
LEMMA PantallaInv ==
  ASSUME SInv, NEW p \in Pantallas, Arriba(p) \/ Cubrir(p) \/ Atras(p)
  PROVE  SInv'
<1>1. Bien(Ahora)
  BY AhoraBien DEF SInv
<1>2. actual \in Usuarios \cup {Nada}
  BY DEF SInv, SesionTipo
<1>3. CASE Arriba(p)
  <2> DEFINE activas == {q \in Pantallas : pant[q].fase = "activa"}
             f == Detiene(Ahora, activas)
             e == [f EXCEPT !.pant[p].fase = "activa"]
             g == [e EXCEPT !.pant[p].uid = actual]
  <2>1. Bien(f)
    BY <1>1, DetieneBien
  <2> HIDE DEF f
  <2>2. Bien(e)
    <3>1. \E x : e = [f EXCEPT !.pant = x]
      OBVIOUS
    <3> HIDE DEF e
    <3> QED BY <2>1, <3>1, OtraPantalla
  <2>3. CreaMenu(e, p) \/ Muestra(OnStart(e, p)) \/ Muestra(e)
    BY <1>3 DEF Arriba, f
  <2> HIDE DEF e
  <2>4. Bien(g)
    <3>1. \E x : g = [e EXCEPT !.pant = x]
      OBVIOUS
    <3> HIDE DEF g
    <3> QED BY <2>2, <3>1, OtraPantalla
  <2>5. CASE CreaMenu(e, p)
    <3>1. CASE Caida
      BY <3>1, CaidaInv
    <3>2. CASE actual # Nada /\ Muestra(ConUid(e, p))
      <4>1. actual \in Usuarios
        BY <1>2, <3>2
      <4>2. ConUid(e, p) = Pide(Pide(g, "cuenta", actual, p), "espera", actual, p)
        BY DEF ConUid
      <4> HIDE DEF g
      <4>3. Bien(Pide(g, "cuenta", actual, p))
        BY <2>4, <4>1, PideBien, PedidosTodos
      <4>4. Bien(ConUid(e, p))
        BY <4>1, <4>2, <4>3, PideBien, PedidosTodos
      <4> QED BY <3>2, <4>4, MuestraInv
    <3> QED BY <2>5, <3>1, <3>2 DEF CreaMenu
  <2>6. CASE Muestra(OnStart(e, p))
    <3>1. Bien(UpdateUI(e, p, actual))
      BY <1>2, <2>2, UpdateUIBien
    <3>2. Bien(OnStart(e, p))
      BY <1>2, <3>1, UpdateUIBien DEF OnStart
    <3> QED BY <2>6, <3>2, MuestraInv
  <2>7. CASE Muestra(e)
    BY <2>2, <2>7, MuestraInv
  <2> QED BY <2>3, <2>5, <2>6, <2>7
<1>4. CASE Cubrir(p)
  <2>1. Bien(Detiene(Ahora, {p}))
    BY <1>1, DetieneBien
  <2> QED BY <1>4, <2>1, MuestraInv DEF Cubrir
<1>5. CASE Atras(p)
  <2> DEFINE s == [Ahora EXCEPT !.pila = <<>>]
             e == IF pant[p].nombre = "menu" THEN s ELSE Quita(Ahora, p)
             abiertas == {q \in Pantallas : pant[q].fase \notin {"fuera", "fin"}}
             f == IF e.pila = <<>> THEN Detiene(e, abiertas) ELSE e
  <2>1. Bien(s)
    <3>1. s = [pila |-> <<>>, pant |-> pant, llamadas |-> llamadas]
      BY DEF Ahora
    <3> QED BY <3>1, PartesBien DEF SInv
  <2>2. Bien(Quita(Ahora, p))
    BY <1>1, QuitaBien
  <2>3. Bien(e)
    BY <2>1, <2>2
  <2>4. Muestra(f)
    BY <1>5 DEF Atras
  <2> HIDE DEF e
  <2>5. Bien(Detiene(e, abiertas))
    BY <2>3, DetieneBien
  <2>6. Bien(f)
    BY <2>3, <2>5
  <2> HIDE DEF f
  <2> QED BY <2>4, <2>6, MuestraInv
<1> QED BY <1>3, <1>4, <1>5

-----------------------------------------------------------------------------
(* The taps. *)
LEMMA TocaInv == ASSUME SInv, NEW p \in Pantallas, Toca(p) PROVE SInv'
<1>1. Bien(Ahora)
  BY AhoraBien DEF SInv
<1>2. CASE Atras(p)
  BY <1>2, PantallaInv
<1>3. ASSUME NEW nombre \in Nombres, AbrirFormulario(p, nombre) PROVE SInv'
  BY <1>1, <1>3, IniciaBien, MuestraInv DEF AbrirFormulario
<1>4. ASSUME NEW u \in Usuarios, HandleFacebookAccessToken(p, u) PROVE SInv'
  <2>1. u \notin Correo
    BY <1>4, CorreoAssumption DEF HandleFacebookAccessToken
  <2>2. Bien(Pide(Ahora, "credencial", u, Nada))
    BY <1>1, <2>1, PideBien DEF Pedidos
  <2>3. /\ Quedan(Pide(Ahora, "credencial", u, Nada))
        /\ UNCHANGED <<actual, creados, dejados, cuentas, pend>>
    BY <1>4 DEF HandleFacebookAccessToken, firestore
  <2> QED BY <2>2, <2>3, QuedanInv DEF SInv, SesionTipo
<1>5. ASSUME NEW u \in Usuarios, IniciarSesion(p, u) PROVE SInv'
  <2>1. Bien(Pide(Ahora, "entrar", u, p))
    BY <1>1, PideBien, PedidosTodos
  <2> QED BY <1>5, <2>1, MuestraInv DEF IniciarSesion
<1>6. ASSUME NEW u \in Usuarios, CrearUsuario(p, u) PROVE SInv'
  <2>1. Bien(Pide(Ahora, "crear", u, p))
    BY <1>1, PideBien, PedidosTodos
  <2> QED BY <1>6, <2>1, MuestraInv DEF CrearUsuario
<1>7. CASE Paga(p)
  <2> DEFINE k == Ve(actual) + 1
  <2>1. actual \in Usuarios /\ k \in 0..MaxPuntos
    BY <1>7, CotasSesionAssumption DEF Paga, SInv, SesionTipo
  <2>2. /\ Encola("juego", actual, k, Nada)
        /\ UNCHANGED <<actual, creados, dejados, cuentas, llamadas>>
    BY <1>7 DEF Paga, sesion, pantallas
  <2> HIDE DEF k
  <2>3. /\ pend' \in Seq(Escrituras)
        /\ \A v \in Usuarios : TieneCuenta(v) => TieneCuenta(v)'
    BY <2>1, <2>2, EncolaInv
  <2> QED BY <2>2, <2>3 DEF SInv, SesionTipo, CuentasInv
<1>8. CASE Salir(p)
  <2> DEFINE e == Quita(Inicia(Ahora, "main"), p)
  <2>1. Bien(e)
    BY <1>1, IniciaBien, QuitaBien
  <2>2. /\ Quedan(e) /\ actual' = Nada
        /\ UNCHANGED <<creados, dejados, cuentas, pend>>
    BY <1>8 DEF Salir, firestore
  <2> HIDE DEF e
  <2> QED BY <2>1, <2>2, QuedanInv
<1> QED BY <1>2, <1>3, <1>4, <1>5, <1>6, <1>7, <1>8 DEF Toca

-----------------------------------------------------------------------------
(* The answers. *)
LEMMA RespondeInv == ASSUME SInv, NEW l \in llamadas, Responde(l) PROVE SInv'
<1>1. /\ l \in Llamadas /\ l.u \in Usuarios /\ l.de \in Pantallas \cup {Nada}
      /\ l.pide = "credencial" => l.u \notin Correo
  BY DEF SInv, LlamadasInv, Llamadas
<1>2. Bien(Sin(l))
  BY SinBien DEF SInv
(* Only an e-mail address that has a user already, or a user of Facebook.     *)
<1>3. CASE Entra(l)
  <2> DEFINE a == Avisa(Sin(l), l.u)
             e == IF l.de = Nada THEN a ELSE AlMenu(a, l.de)
  <2>1. Bien(a)
    BY <1>1, <1>2, AvisaBien
  <2>2. Bien(AlMenu(a, l.de))
    BY <2>1, AlMenuBien
  <2>3. Bien(e)
    BY <2>1, <2>2
  <2>4. /\ Quedan(e) /\ actual' = l.u /\ creados' = creados \cup {l.u}
        /\ l.u \in creados \/ l.u \notin Correo
        /\ UNCHANGED <<dejados, cuentas, pend>>
    BY <1>1, <1>3 DEF Entra, firestore
  <2> HIDE DEF e
  <2>5. LlamadasInv(llamadas')
    BY <2>3, <2>4 DEF Bien, Quedan
  <2>6. CuentasInv'
    BY <2>4 DEF SInv, CuentasInv, TieneCuenta
  <2> QED BY <1>1, <2>4, <2>5, <2>6 DEF SInv, SesionTipo
<1>4. CASE Crea(l)
  <2> DEFINE e == Avisa(Sin(l), l.u)
  <2>1. Bien(e)
    BY <1>1, <1>2, AvisaBien
  <2>2. /\ Quedan(e) /\ actual' = l.u /\ creados' = creados \cup {l.u}
        /\ \/ dejados' = dejados \cup {l.u} /\ UNCHANGED pend
           \/ l.de # Nada /\ Encola("alta", l.u, 0, l.de) /\ UNCHANGED dejados
        /\ UNCHANGED cuentas
    BY <1>4 DEF Crea
  <2> HIDE DEF e
  <2>3. LlamadasInv(llamadas')
    BY <2>1, <2>2 DEF Bien, Quedan
  <2>4. CASE dejados' = dejados \cup {l.u} /\ UNCHANGED pend
    <3>1. CuentasInv'
      BY <2>2, <2>4 DEF SInv, CuentasInv, TieneCuenta
    <3> QED BY <1>1, <2>2, <2>3, <2>4, <3>1 DEF SInv, SesionTipo
  <2>5. CASE l.de # Nada /\ Encola("alta", l.u, 0, l.de) /\ UNCHANGED dejados
    <3>1. 0 \in 0..MaxPuntos
      BY CotasSesionAssumption
    <3>2. /\ pend' \in Seq(Escrituras) /\ TieneCuenta(l.u)'
          /\ \A v \in Usuarios : TieneCuenta(v) => TieneCuenta(v)'
      BY <1>1, <2>2, <2>5, <3>1, EncolaInv
    <3>3. CuentasInv'
      BY <2>2, <2>5, <3>2 DEF SInv, CuentasInv
    <3> QED BY <1>1, <2>2, <2>3, <3>2, <3>3 DEF SInv, SesionTipo
  <2> QED BY <2>2, <2>4, <2>5
<1>5. CASE Falla(l)
  <2>1. /\ Quedan(Sin(l)) /\ actual' = actual
        /\ UNCHANGED <<creados, dejados, cuentas, pend>>
    BY <1>5 DEF Falla, Rechazada, sesion
  <2> QED BY <1>2, <2>1, QuedanInv DEF SInv, SesionTipo
<1>6. CASE PerfilLeido(l)
  <2>1. Bien(AlMenu(Sin(l), l.de))
    BY <1>2, AlMenuBien
  <2>2. /\ Quedan(AlMenu(Sin(l), l.de)) /\ actual' = actual
        /\ UNCHANGED <<creados, dejados, cuentas, pend>>
    BY <1>6 DEF PerfilLeido, sesion
  <2> QED BY <2>1, <2>2, QuedanInv DEF SInv, SesionTipo
<1>7. CASE PerfilSinRed(l)
  <2>1. /\ Encola("facebook", l.u, 0, l.de) /\ Quedan(Sin(l))
        /\ UNCHANGED <<actual, creados, dejados, cuentas>>
    BY <1>7 DEF PerfilSinRed, sesion
  <2>2. 0 \in 0..MaxPuntos
    BY CotasSesionAssumption
  <2>3. /\ pend' \in Seq(Escrituras)
        /\ \A v \in Usuarios : TieneCuenta(v) => TieneCuenta(v)'
    BY <1>1, <2>1, <2>2, EncolaInv
  <2>4. LlamadasInv(llamadas')
    BY <1>2, <2>1 DEF Bien, Quedan
  <2> QED BY <2>1, <2>3, <2>4 DEF SInv, SesionTipo, CuentasInv
<1>8. CASE CuentaLeida(l)
  <2>1. CASE Caida
    BY <2>1, CaidaInv
  <2>2. CASE Ve(l.u) # SinCuenta /\ ~Caida
    <3> DEFINE s == Sin(l)
               e == [s EXCEPT !.pant[l.de].leida = TRUE]
    <3>1. /\ Quedan(e) /\ actual' = actual
          /\ UNCHANGED <<creados, dejados, cuentas, pend>>
      BY <1>8, <2>2 DEF CuentaLeida, sesion
    <3>2. \E x : e = [s EXCEPT !.pant = x]
      OBVIOUS
    <3>3. Bien(s)
      BY <1>2
    <3> HIDE DEF s, e
    <3>4. Bien(e)
      BY <3>2, <3>3, OtraPantalla
    <3> QED BY <3>1, <3>4, QuedanInv DEF SInv, SesionTipo
  <2> QED BY <1>8, <2>1, <2>2 DEF CuentaLeida
<1>9. CASE Mostrar(l)
  <2>1. CASE Caida
    BY <2>1, CaidaInv
  <2>2. CASE Muestra(Sin(l))
    BY <1>2, <2>2, MuestraInv
  <2> QED BY <1>9, <2>1, <2>2 DEF Mostrar
<1> QED BY <1>3, <1>4, <1>5, <1>6, <1>7, <1>8, <1>9 DEF Responde

(* The server: the account a write was on its way to has its points.          *)
LEMMA AplicaInv == ASSUME SInv, Aplica PROVE SInv'
<1> DEFINE w == Head(pend)
           m == AlMenu(Ahora, w.de)
           e == IF w.de = Nada THEN Ahora ELSE m
<1>1. /\ pend # <<>> /\ pend \in Seq(Escrituras)
      /\ cuentas' = [cuentas EXCEPT ![w.u] = w.puntos]
      /\ Quedan(e) /\ pend' = Tail(pend)
      /\ UNCHANGED <<actual, creados, dejados>>
  BY DEF Aplica, SInv, SesionTipo, sesion
<1>2. w = pend[1] /\ w \in Escrituras /\ Len(pend) \in Nat /\ 1 \in 1..Len(pend)
  BY <1>1
<1>3. w.u \in Usuarios /\ w.puntos \in 0..MaxPuntos
  BY <1>2 DEF Escrituras
<1>4. Bien(Ahora)
  BY AhoraBien DEF SInv
<1>5. Bien(m)
  BY <1>4, AlMenuBien
<1>6. LlamadasInv(llamadas')
  BY <1>1, <1>4, <1>5 DEF Bien, Quedan
<1> HIDE DEF w, e, m
<1>7. /\ Tail(pend) \in Seq(Escrituras) /\ Len(Tail(pend)) = Len(pend) - 1
      /\ \A i \in 2..Len(pend) : i - 1 \in 1..Len(Tail(pend)) /\ Tail(pend)[i - 1] = pend[i]
  BY <1>1, <1>2
<1>8. cuentas' \in [Usuarios -> -1..MaxPuntos] /\ cuentas'[w.u] # SinCuenta
  BY <1>1, <1>3, CotasSesionAssumption DEF SInv, SesionTipo, SinCuenta
<1>9. ASSUME NEW v \in Usuarios, TieneCuenta(v) PROVE TieneCuenta(v)'
  <2>1. CASE v = w.u
    BY <1>8, <2>1 DEF TieneCuenta
  <2>2. CASE v # w.u
    <3>1. CASE cuentas[v] # SinCuenta
      BY <1>1, <2>2, <3>1 DEF TieneCuenta, SInv, SesionTipo
    <3>2. ASSUME NEW i \in 1..Len(pend), pend[i].u = v PROVE TieneCuenta(v)'
      <4>1. i # 1
        BY <1>2, <2>2, <3>2
      <4>2. i - 1 \in 1..Len(pend') /\ pend'[i - 1].u = v
        BY <1>1, <1>2, <1>7, <3>2, <4>1
      <4> QED BY <4>2 DEF TieneCuenta
    <3> QED BY <1>9, <3>1, <3>2 DEF TieneCuenta
  <2> QED BY <2>1, <2>2
<1> QED BY <1>1, <1>6, <1>7, <1>8, <1>9 DEF SInv, SesionTipo, CuentasInv

-----------------------------------------------------------------------------
LEMMA InitInv == Init => SInv
<1> SUFFICES ASSUME Init PROVE SInv
  OBVIOUS
<1>1. SesionTipo
  <2>1. 1 \in -1..MaxPuntos /\ -1 \in -1..MaxPuntos
    BY CotasSesionAssumption
  <2> QED BY <2>1, CorreoAssumption DEF Init, SesionTipo, SinCuenta
<1>2. CuentasInv
  BY DEF Init, CuentasInv, TieneCuenta, SinCuenta
<1> QED BY <1>1, <1>2 DEF Init, SInv, LlamadasInv

LEMMA NextInv == SInv /\ [Next]_vars => SInv'
<1> SUFFICES ASSUME SInv, [Next]_vars PROVE SInv'
  OBVIOUS
<1>1. Bien(Ahora)
  BY AhoraBien DEF SInv
<1>2. CASE UNCHANGED vars
  BY <1>2 DEF vars, sesion, firestore, pantallas, SInv, SesionTipo, CuentasInv, TieneCuenta
<1>3. CASE Lanzar
  BY <1>1, <1>3, IniciaBien, MuestraInv DEF Lanzar
<1>4. CASE Descartar \/ EnLinea
  BY <1>4, CaidaInv DEF Descartar, EnLinea
<1>5. CASE LlegaPerfil
  BY <1>5 DEF LlegaPerfil, firestore, pantallas, SInv, SesionTipo, CuentasInv, TieneCuenta
<1>6. CASE Aplica
  BY <1>6, AplicaInv
<1>7. ASSUME NEW p \in Pantallas, Arriba(p) \/ Cubrir(p) \/ Toca(p) PROVE SInv'
  BY <1>7, PantallaInv, TocaInv
<1>8. ASSUME NEW l \in llamadas, Responde(l) PROVE SInv'
  BY <1>8, RespondeInv
<1> QED BY <1>2, <1>3, <1>4, <1>5, <1>6, <1>7, <1>8 DEF Next

(* CuentaOEnCamino: whatever screens are left, answers lost or late and       *)
(* applications ended, only a registration nobody listened to leaves a user   *)
(* of an e-mail address with no account.                                      *)
THEOREM CuentaSiempreEnCamino == Spec => []CuentaOEnCamino
<1>1. SInv => CuentaOEnCamino
  <2> SUFFICES ASSUME SInv, NEW u \in (creados \cap Correo) \ dejados
               PROVE  cuentas[u] # SinCuenta \/ Suyas(u) # {}
    BY DEF CuentaOEnCamino
  <2>1. u \in Usuarios /\ TieneCuenta(u)
    BY DEF SInv, SesionTipo, CuentasInv
  <2>2. DOMAIN pend = 1..Len(pend)
    BY DEF SInv, SesionTipo
  <2> QED BY <2>1, <2>2 DEF TieneCuenta, Suyas
<1> QED BY InitInv, NextInv, <1>1, PTL DEF Spec

-----------------------------------------------------------------------------
(* The points of an account, on the server and then through the queue, only   *)
(* go down where Facebook's way sets it; somebody that does not exist has     *)
(* none.  The server and a place of the queue, and two places of the queue,   *)
(* are compared directly, however far apart.                                  *)
SinFacebook(i, k, u) == \A m \in i..k : pend[m].u = u => pend[m].tipo # "facebook"
DesdeLaCuenta ==
    \A k \in 1..Len(pend) :
        SinFacebook(1, k, pend[k].u) => cuentas[pend[k].u] <= pend[k].puntos
DesdeLaCola ==
    \A i, k \in 1..Len(pend) :
        i < k /\ pend[i].u = pend[k].u /\ SinFacebook(i + 1, k, pend[k].u) =>
            pend[i].puntos <= pend[k].puntos
SinCrear ==
    \A u \in Usuarios \ creados :
        /\ cuentas[u] <= 0
        /\ \A i \in 1..Len(pend) : pend[i].u = u => pend[i].puntos = 0
OrdenInv == DesdeLaCuenta /\ DesdeLaCola /\ SinCrear /\ actual \in creados \cup {Nada}

(* What a write of x for user u finds before it.                              *)
Cabe(u, x) ==
    /\ SinFacebook(1, Len(pend), u) => cuentas[u] <= x
    /\ \A i \in 1..Len(pend) :
          pend[i].u = u /\ SinFacebook(i + 1, Len(pend), u) => pend[i].puntos <= x

LEMMA TiposDeCola ==
  ASSUME SInv
  PROVE  /\ Len(pend) \in Nat /\ DOMAIN pend = 1..Len(pend)
         /\ \A i \in 1..Len(pend) : pend[i] \in Escrituras /\ pend[i].u \in Usuarios
                                    /\ pend[i].puntos \in Nat
         /\ \A u \in Usuarios : cuentas[u] \in Int
<1>1. pend \in Seq(Escrituras) /\ cuentas \in [Usuarios -> -1..MaxPuntos]
  BY DEF SInv, SesionTipo
<1>2. \A w \in Escrituras : w.u \in Usuarios /\ w.puntos \in Nat
  BY CotasSesionAssumption DEF Escrituras
<1> QED BY <1>1, <1>2, CotasSesionAssumption

(* What the phone sees of an account is its last write, so a game's payment   *)
(* is more than all that comes before it.                                     *)
LEMMA VeCabe ==
  ASSUME SInv, OrdenInv, NEW u \in Usuarios
  PROVE  Cabe(u, Ve(u) + 1)
<1>1. /\ Len(pend) \in Nat /\ DOMAIN pend = 1..Len(pend) /\ cuentas[u] \in Int
      /\ \A i \in 1..Len(pend) : pend[i].puntos \in Nat
  BY TiposDeCola
<1>2. CASE Suyas(u) = {}
  <2>1. Ve(u) = cuentas[u] /\ \A i \in 1..Len(pend) : pend[i].u # u
    BY <1>1, <1>2 DEF Ve, Suyas
  <2> QED BY <1>1, <2>1 DEF Cabe
<1>3. CASE Suyas(u) # {}
  <2> DEFINE f == Ultima(u)
  <2>1. Suyas(u) \subseteq 1..Len(pend)
    BY <1>1 DEF Suyas
  <2>2. f \in Suyas(u) /\ \A k \in Suyas(u) : k <= f
    <3>1. \E i \in Suyas(u) : \A k \in Suyas(u) : k <= i
      BY <1>1, <1>3, <2>1, HayMayor
    <3> QED BY <3>1 DEF Ultima
  <2>3. Ve(u) = pend[f].puntos
    BY <1>3 DEF Ve
  <2> HIDE DEF f
  <2>4. f \in 1..Len(pend) /\ pend[f].u = u /\ pend[f].puntos \in Nat
    BY <1>1, <2>1, <2>2 DEF Suyas
  <2>5. ASSUME SinFacebook(1, Len(pend), u) PROVE cuentas[u] <= Ve(u) + 1
    <3>1. SinFacebook(1, f, u)
      BY <1>1, <2>4, <2>5 DEF SinFacebook
    <3>2. cuentas[u] <= pend[f].puntos
      BY <2>4, <3>1 DEF OrdenInv, DesdeLaCuenta
    <3> QED BY <1>1, <2>3, <2>4, <3>2
  <2>6. ASSUME NEW i \in 1..Len(pend), pend[i].u = u, SinFacebook(i + 1, Len(pend), u)
        PROVE  pend[i].puntos <= Ve(u) + 1
    <3>1. i <= f
      BY <1>1, <2>2, <2>6 DEF Suyas
    <3>2. CASE i = f
      BY <1>1, <2>3, <3>2
    <3>3. CASE i < f
      <4>1. SinFacebook(i + 1, f, u)
        BY <1>1, <2>4, <2>6 DEF SinFacebook
      <4>2. pend[i].puntos <= pend[f].puntos
        BY <2>4, <2>6, <3>3, <4>1 DEF OrdenInv, DesdeLaCola
      <4> QED BY <1>1, <2>3, <2>4, <4>2
    <3> QED BY <1>1, <2>4, <3>1, <3>2, <3>3
  <2> QED BY <2>5, <2>6 DEF Cabe
<1> QED BY <1>2, <1>3

(* Steps that write nothing, and steps that queue a write.                    *)
LEMMA QuietoOrden ==
  ASSUME SInv, OrdenInv, UNCHANGED <<cuentas, pend>>, creados \subseteq creados',
         actual' \in creados' \cup {Nada}
  PROVE  OrdenInv'
BY DEF OrdenInv, DesdeLaCuenta, DesdeLaCola, SinCrear, SinFacebook

LEMMA MuestraOrden ==
  ASSUME SInv, OrdenInv, NEW e, Muestra(e) PROVE OrdenInv'
BY QuietoOrden DEF Muestra, sesion, firestore, OrdenInv

LEMMA EncolaOrden ==
  ASSUME SInv, OrdenInv, NEW tipo, NEW u \in Usuarios, NEW x \in Nat, NEW p,
         Encola(tipo, u, x, p), UNCHANGED cuentas, creados \subseteq creados',
         actual' \in creados' \cup {Nada}, u \in creados' \/ x = 0,
         tipo # "facebook" => Cabe(u, x)
  PROVE  OrdenInv'
<1> DEFINE w == [tipo |-> tipo, u |-> u, puntos |-> x, de |-> p]
<1>0. PICK n \in Nat : n = Len(pend)
  BY TiposDeCola
<1>1. w.tipo = tipo /\ w.u = u /\ w.puntos = x
  OBVIOUS
<1>2. pend' = Append(pend, w) /\ pend \in Seq(Escrituras)
  BY DEF Encola, SInv, SesionTipo
<1> HIDE DEF w
<1>3. /\ Len(pend') = n + 1 /\ n \in Nat /\ n = Len(pend)
      /\ \A i \in 1..n : pend'[i] = pend[i]
      /\ pend'[n + 1] = w
  BY <1>0, <1>2
<1>4. ASSUME NEW i \in Nat \ {0}, NEW k \in 1..n, NEW v, SinFacebook(i, k, v)'
      PROVE  SinFacebook(i, k, v)
  BY <1>3, <1>4 DEF SinFacebook
<1>5. ASSUME NEW i \in 1..(n + 1), SinFacebook(i, n + 1, u)'
      PROVE  SinFacebook(i, n, u) /\ tipo # "facebook"
  <2>1. n + 1 \in i..(n + 1)
    BY <1>3
  <2>2. tipo # "facebook"
    BY <1>1, <1>3, <1>5, <2>1 DEF SinFacebook
  <2>3. \A m \in i..n : m \in i..(n + 1) /\ pend'[m] = pend[m]
    BY <1>3
  <2> QED BY <1>5, <2>2, <2>3 DEF SinFacebook
<1>6. DesdeLaCuenta'
  <2> SUFFICES ASSUME NEW k \in 1..(n + 1), SinFacebook(1, k, pend[k].u)'
               PROVE  cuentas[pend'[k].u] <= pend'[k].puntos
    BY <1>3 DEF DesdeLaCuenta
  <2>1. CASE k \in 1..n
    BY <1>3, <1>4, <2>1 DEF OrdenInv, DesdeLaCuenta
  <2>2. CASE k = n + 1
    <3>1. SinFacebook(1, n, u) /\ tipo # "facebook"
      BY <1>1, <1>3, <1>5, <2>2
    <3> QED BY <1>1, <1>3, <2>2, <3>1 DEF Cabe
  <2> QED BY <1>3, <2>1, <2>2
<1>7. DesdeLaCola'
  <2> SUFFICES ASSUME NEW i \in 1..(n + 1), NEW k \in 1..(n + 1), i < k,
                      pend'[i].u = pend'[k].u, SinFacebook(i + 1, k, pend[k].u)'
               PROVE  pend'[i].puntos <= pend'[k].puntos
    BY <1>3 DEF DesdeLaCola
  <2>1. i \in 1..n /\ i + 1 \in Nat \ {0} /\ i + 1 \in 1..(n + 1)
    BY <1>3
  <2>2. CASE k \in 1..n
    BY <1>3, <1>4, <2>1, <2>2 DEF OrdenInv, DesdeLaCola
  <2>3. CASE k = n + 1
    <3>1. SinFacebook(i + 1, n, u) /\ tipo # "facebook"
      BY <1>1, <1>3, <1>5, <2>1, <2>3
    <3> QED BY <1>1, <1>3, <2>1, <2>3, <3>1 DEF Cabe
  <2> QED BY <1>3, <2>2, <2>3
<1>8. SinCrear'
  <2> SUFFICES ASSUME NEW v \in Usuarios, v \notin creados', NEW i \in 1..(n + 1)
               PROVE  cuentas[v] <= 0 /\ (pend'[i].u = v => pend'[i].puntos = 0)
    BY <1>3 DEF SinCrear
  <2>1. CASE i \in 1..n
    BY <1>3, <2>1 DEF OrdenInv, SinCrear
  <2>2. CASE i = n + 1
    BY <1>1, <1>3, <2>2 DEF OrdenInv, SinCrear
  <2> QED BY <1>3, <2>1, <2>2
<1> QED BY <1>6, <1>7, <1>8 DEF OrdenInv

LEMMA CaidaOrden == ASSUME SInv, OrdenInv, Caida PROVE OrdenInv'
<1>1. Len(pend) \in Nat /\ DOMAIN pend = 1..Len(pend) /\ pend \in Seq(Escrituras)
  BY TiposDeCola DEF SInv, SesionTipo
<1>2. pend' = [i \in 1..Len(pend) |-> [pend[i] EXCEPT !.de = Nada]]
  BY <1>1 DEF Caida, ColaGuardada
<1>3. ASSUME NEW i \in 1..Len(pend)
      PROVE  /\ pend'[i].u = pend[i].u /\ pend'[i].tipo = pend[i].tipo
             /\ pend'[i].puntos = pend[i].puntos
  <2> DEFINE w == pend[i]
  <2>1. w \in Escrituras
    BY <1>1
  <2>2. pend'[i] = [w EXCEPT !.de = Nada]
    BY <1>2
  <2> HIDE DEF w
  <2>3. /\ [w EXCEPT !.de = Nada].u = w.u /\ [w EXCEPT !.de = Nada].tipo = w.tipo
        /\ [w EXCEPT !.de = Nada].puntos = w.puntos
    BY <2>1 DEF Escrituras
  <2> QED BY <2>2, <2>3 DEF w
<1>4. Len(pend') = Len(pend)
  BY CaidaInv, <1>1, <1>2 DEF SInv, SesionTipo
<1>5. UNCHANGED <<actual, cuentas>> /\ creados \subseteq creados'
  BY DEF Caida, Termina
<1>6. \A v : \A i \in Nat \ {0}, k \in 1..Len(pend) :
          SinFacebook(i, k, v)' => SinFacebook(i, k, v)
  BY <1>1, <1>3 DEF SinFacebook
<1>7. DesdeLaCuenta'
  BY <1>1, <1>3, <1>4, <1>5, <1>6 DEF OrdenInv, DesdeLaCuenta
<1>8. DesdeLaCola'
  <2> SUFFICES ASSUME NEW i \in 1..Len(pend), NEW k \in 1..Len(pend), i < k,
                      pend[i].u = pend[k].u, SinFacebook(i + 1, k, pend[k].u)'
               PROVE  pend[i].puntos <= pend[k].puntos
    BY <1>3, <1>4 DEF DesdeLaCola
  <2>1. SinFacebook(i + 1, k, pend[k].u)
    BY <1>1, <1>3, <1>6
  <2> QED BY <2>1 DEF OrdenInv, DesdeLaCola
<1>9. SinCrear'
  BY <1>3, <1>4, <1>5 DEF OrdenInv, SinCrear
<1> QED BY <1>5, <1>7, <1>8, <1>9 DEF OrdenInv

(* The server takes the oldest write.                                         *)
LEMMA AplicaOrden ==
  ASSUME SInv, OrdenInv, Aplica
  PROVE  /\ OrdenInv'
         /\ \A u \in Usuarios : cuentas'[u] < cuentas[u] => Head(pend).tipo = "facebook"
<1> DEFINE w == Head(pend)
<1>1. /\ pend # <<>> /\ pend \in Seq(Escrituras) /\ pend' = Tail(pend)
      /\ cuentas' = [cuentas EXCEPT ![w.u] = w.puntos]
      /\ actual' = actual /\ creados' = creados
  BY DEF Aplica, SInv, SesionTipo, sesion
<1>2. PICK n \in Nat : n = Len(pend)
  BY TiposDeCola
<1>3. w = pend[1] /\ 1 \in 1..n /\ w.u \in Usuarios /\ w.puntos \in Nat
  <2>1. w = pend[1] /\ 1 \in 1..n
    BY <1>1, <1>2
  <2> QED BY <1>2, <2>1, TiposDeCola
<1> HIDE DEF w
<1>4. Len(pend') = n - 1 /\ \A i \in 1..(n - 1) : pend'[i] = pend[i + 1]
  BY <1>1, <1>2
<1>5. \A v \in Usuarios : cuentas'[v] = IF v = w.u THEN w.puntos ELSE cuentas[v]
  <2>1. cuentas \in [Usuarios -> -1..MaxPuntos]
    BY DEF SInv, SesionTipo
  <2> QED BY <1>1, <1>3, <2>1
<1>6. ASSUME NEW i \in 1..n, NEW k \in 1..(n - 1), NEW v, SinFacebook(i, k, v)'
      PROVE  SinFacebook(i + 1, k + 1, v)
  <2> SUFFICES ASSUME NEW m \in (i + 1)..(k + 1), pend[m].u = v
               PROVE  pend[m].tipo # "facebook"
    BY DEF SinFacebook
  <2>1. m - 1 \in i..k /\ m - 1 \in 1..(n - 1) /\ (m - 1) + 1 = m
    BY <1>2
  <2>2. pend'[m - 1] = pend[m]
    BY <1>4, <2>1
  <2> QED BY <1>6, <2>1, <2>2 DEF SinFacebook
<1>7. DesdeLaCuenta'
  <2> SUFFICES ASSUME NEW k \in 1..(n - 1), SinFacebook(1, k, pend[k].u)'
               PROVE  cuentas'[pend'[k].u] <= pend'[k].puntos
    BY <1>4 DEF DesdeLaCuenta
  <2>1. PICK v : v = pend[k + 1].u
    OBVIOUS
  <2>2. /\ k + 1 \in 1..n /\ 1 < k + 1 /\ v \in Usuarios /\ pend'[k] = pend[k + 1]
        /\ 1 + 1 = 2
    BY <1>2, <1>4, <2>1, TiposDeCola
  <2>3. SinFacebook(1 + 1, k + 1, v)
    BY <1>3, <1>6, <2>1, <2>2
  <2>4. CASE v = w.u
    <3>1. pend[1].puntos <= pend[k + 1].puntos
      BY <1>2, <1>3, <2>1, <2>2, <2>3, <2>4 DEF OrdenInv, DesdeLaCola
    <3> QED BY <1>3, <1>5, <2>1, <2>2, <2>4, <3>1
  <2>5. CASE v # w.u
    <3>1. SinFacebook(1, k + 1, v)
      BY <1>3, <2>2, <2>3, <2>5 DEF SinFacebook
    <3>2. cuentas[v] <= pend[k + 1].puntos
      BY <1>2, <2>1, <2>2, <3>1 DEF OrdenInv, DesdeLaCuenta
    <3> QED BY <1>5, <2>1, <2>2, <2>5, <3>2
  <2> QED BY <2>4, <2>5
<1>8. DesdeLaCola'
  <2> SUFFICES ASSUME NEW i \in 1..(n - 1), NEW k \in 1..(n - 1), i < k,
                      pend'[i].u = pend'[k].u, SinFacebook(i + 1, k, pend[k].u)'
               PROVE  pend'[i].puntos <= pend'[k].puntos
    BY <1>4 DEF DesdeLaCola
  <2>1. /\ i + 1 \in 1..n /\ k + 1 \in 1..n /\ i + 1 < k + 1
        /\ pend'[i] = pend[i + 1] /\ pend'[k] = pend[k + 1]
    BY <1>2, <1>4
  <2>2. SinFacebook((i + 1) + 1, k + 1, pend[k + 1].u)
    BY <1>6, <2>1
  <2> QED BY <1>2, <2>1, <2>2 DEF OrdenInv, DesdeLaCola
<1>9. SinCrear'
  <2> SUFFICES ASSUME NEW v \in Usuarios, v \notin creados, NEW i \in 1..(n - 1)
               PROVE  pend'[i].u = v => pend'[i].puntos = 0
    <3>1. ASSUME NEW v \in Usuarios, v \notin creados PROVE cuentas'[v] <= 0
      BY <1>2, <1>3, <1>5, <3>1 DEF OrdenInv, SinCrear
    <3> QED BY <1>1, <1>4, <3>1 DEF SinCrear
  <2>1. i + 1 \in 1..n
    BY <1>2
  <2> QED BY <1>2, <1>4, <2>1 DEF OrdenInv, SinCrear
<1>10. ASSUME NEW u \in Usuarios, cuentas'[u] < cuentas[u] PROVE w.tipo = "facebook"
  <2>1. cuentas[u] \in Int
    BY TiposDeCola
  <2>2. u = w.u /\ w.puntos < cuentas[u]
    BY <1>5, <1>10, <2>1
  <2>3. ASSUME w.tipo # "facebook" PROVE cuentas[w.u] <= w.puntos
    <3>1. SinFacebook(1, 1, w.u)
      BY <1>3, <2>3 DEF SinFacebook
    <3> QED BY <1>2, <1>3, <3>1 DEF OrdenInv, DesdeLaCuenta
  <2> QED BY <1>3, <2>1, <2>2, <2>3
<1> QED BY <1>1, <1>7, <1>8, <1>9, <1>10 DEF OrdenInv, w

(* A registration writes for a user that did not exist, and a game for the    *)
(* one who is signed in.                                                      *)
LEMMA CreaOrden ==
  ASSUME SInv, OrdenInv, NEW l \in llamadas, Crea(l) PROVE OrdenInv'
<1>1. l.u \in Usuarios
  BY DEF SInv, LlamadasInv, Llamadas
<1>2. /\ l.u \notin creados /\ actual' = l.u /\ creados' = creados \cup {l.u}
      /\ UNCHANGED pend \/ Encola("alta", l.u, 0, l.de)
      /\ UNCHANGED cuentas
  BY DEF Crea
<1>3. CASE UNCHANGED pend
  BY <1>2, <1>3, QuietoOrden
<1>4. CASE Encola("alta", l.u, 0, l.de)
  <2>1. Cabe(l.u, 0)
    BY <1>1, <1>2, TiposDeCola DEF Cabe, OrdenInv, SinCrear
  <2> QED BY <1>1, <1>2, <1>4, <2>1, EncolaOrden
<1> QED BY <1>2, <1>3, <1>4

LEMMA PagaOrden ==
  ASSUME SInv, OrdenInv, NEW p \in Pantallas, Paga(p) PROVE OrdenInv'
<1> DEFINE x == Ve(actual) + 1
<1>1. /\ actual \in Usuarios /\ actual \in creados /\ x \in Nat
      /\ Encola("juego", actual, x, Nada)
      /\ actual' = actual /\ creados' = creados /\ cuentas' = cuentas
  BY DEF Paga, SInv, SesionTipo, OrdenInv, sesion
<1>2. Cabe(actual, x)
  BY <1>1, VeCabe
<1> HIDE DEF x
<1> QED BY <1>1, <1>2, EncolaOrden

LEMMA InitOrden == Init => OrdenInv
<1> SUFFICES ASSUME Init PROVE OrdenInv
  OBVIOUS
<1>1. Len(pend) = 0 /\ 1..0 = {}
  BY DEF Init
<1> QED BY <1>1 DEF Init, OrdenInv, DesdeLaCuenta, DesdeLaCola, SinCrear, SinCuenta

LEMMA PantallaOrden ==
  ASSUME SInv, OrdenInv, NEW p \in Pantallas, Arriba(p) \/ Cubrir(p) \/ Toca(p)
  PROVE  OrdenInv' /\ UNCHANGED cuentas
<1>1. \A e : Muestra(e) => OrdenInv' /\ UNCHANGED cuentas
  BY MuestraOrden DEF Muestra, firestore
<1>2. Caida => OrdenInv' /\ UNCHANGED cuentas
  BY CaidaOrden DEF Caida, Termina
<1>3. CASE Arriba(p)
  BY <1>1, <1>2, <1>3 DEF Arriba, CreaMenu
<1>4. CASE Cubrir(p) \/ Atras(p)
  BY <1>1, <1>4 DEF Cubrir, Atras
<1>5. ASSUME NEW nombre, AbrirFormulario(p, nombre) PROVE OrdenInv' /\ UNCHANGED cuentas
  BY <1>1, <1>5 DEF AbrirFormulario
<1>6. ASSUME NEW u, IniciarSesion(p, u) \/ CrearUsuario(p, u)
      PROVE  OrdenInv' /\ UNCHANGED cuentas
  BY <1>1, <1>6 DEF IniciarSesion, CrearUsuario
<1>7. ASSUME NEW u, HandleFacebookAccessToken(p, u) PROVE OrdenInv' /\ UNCHANGED cuentas
  <2>1. UNCHANGED <<actual, creados, cuentas, pend>>
    BY <1>7 DEF HandleFacebookAccessToken, firestore
  <2> QED BY <2>1, QuietoOrden DEF OrdenInv
<1>8. CASE Paga(p)
  BY <1>8, PagaOrden DEF Paga
<1>9. CASE Salir(p)
  <2>1. actual' = Nada /\ UNCHANGED <<creados, cuentas, pend>>
    BY <1>9 DEF Salir, firestore
  <2> QED BY <2>1, QuietoOrden
<1> QED BY <1>3, <1>4, <1>5, <1>6, <1>7, <1>8, <1>9 DEF Toca

LEMMA RespondeOrden ==
  ASSUME SInv, OrdenInv, NEW l \in llamadas, Responde(l)
  PROVE  OrdenInv' /\ UNCHANGED cuentas
<1>1. l.u \in Usuarios
  BY DEF SInv, LlamadasInv, Llamadas
<1>2. CASE Entra(l)
  <2>1. actual' = l.u /\ creados' = creados \cup {l.u} /\ UNCHANGED <<cuentas, pend>>
    BY <1>2 DEF Entra, firestore
  <2> QED BY <2>1, QuietoOrden
<1>3. CASE Crea(l)
  BY <1>3, CreaOrden DEF Crea
<1>4. CASE Falla(l) \/ PerfilLeido(l)
  <2>1. UNCHANGED <<actual, creados, cuentas, pend>>
    BY <1>4 DEF Falla, Rechazada, PerfilLeido, sesion
  <2> QED BY <2>1, QuietoOrden DEF OrdenInv
<1>5. CASE PerfilSinRed(l)
  <2>1. Encola("facebook", l.u, 0, l.de) /\ UNCHANGED <<actual, creados, cuentas>>
    BY <1>5 DEF PerfilSinRed, sesion
  <2> QED BY <1>1, <2>1, EncolaOrden DEF OrdenInv
<1>6. CASE CuentaLeida(l)
  <2>1. CASE Caida
    BY <2>1, CaidaOrden DEF Caida, Termina
  <2>2. CASE UNCHANGED <<actual, creados, cuentas, pend>>
    BY <2>2, QuietoOrden DEF OrdenInv
  <2> QED BY <1>6, <2>1, <2>2 DEF CuentaLeida, sesion
<1>7. CASE Mostrar(l)
  <2>1. CASE Caida
    BY <2>1, CaidaOrden DEF Caida, Termina
  <2>2. CASE Muestra(Sin(l))
    BY <2>2, MuestraOrden DEF Muestra, firestore
  <2> QED BY <1>7, <2>1, <2>2 DEF Mostrar
<1> QED BY <1>2, <1>3, <1>4, <1>5, <1>6, <1>7 DEF Responde

LEMMA NextOrden ==
  ASSUME SInv, OrdenInv, [Next]_vars
  PROVE  /\ OrdenInv'
         /\ \A u \in Usuarios : cuentas'[u] < cuentas[u] => Head(pend).tipo = "facebook"
<1> DEFINE Quietas == OrdenInv' /\ UNCHANGED cuentas
<1>1. CASE Quietas
  BY <1>1, TiposDeCola
<1>2. CASE Aplica
  BY <1>2, AplicaOrden
<1>3. CASE UNCHANGED vars
  <2>1. UNCHANGED <<actual, creados, cuentas, pend>>
    BY <1>3 DEF vars, sesion, firestore
  <2> QED BY <1>1, <2>1, QuietoOrden DEF OrdenInv
<1>4. CASE Lanzar
  BY <1>1, <1>4, MuestraOrden DEF Lanzar, Muestra, firestore
<1>5. CASE Descartar \/ EnLinea
  BY <1>1, <1>5, CaidaOrden DEF Descartar, EnLinea, Caida, Termina
<1>6. CASE LlegaPerfil
  <2>1. UNCHANGED <<actual, creados, cuentas, pend>>
    BY <1>6 DEF LlegaPerfil, firestore
  <2> QED BY <1>1, <2>1, QuietoOrden DEF OrdenInv
<1>7. ASSUME NEW p \in Pantallas, Arriba(p) \/ Cubrir(p) \/ Toca(p) PROVE Quietas
  BY <1>7, PantallaOrden
<1>8. ASSUME NEW l \in llamadas, Responde(l) PROVE Quietas
  BY <1>8, RespondeOrden
<1> HIDE DEF Quietas
<1> QED BY <1>1, <1>2, <1>3, <1>4, <1>5, <1>6, <1>7, <1>8 DEF Next

(* SoloFacebookReinicia: over registrations that are late, left or refused,   *)
(* payments of games and ends of the application, in any order, an account    *)
(* loses no points but to the write of updateUI of MainActivity.              *)
THEOREM SoloFacebookReiniciaSiempre == Spec => SoloFacebookReinicia
<1>1. Spec => [](SInv /\ OrdenInv)
  <2>1. SInv /\ OrdenInv /\ [Next]_vars => (SInv /\ OrdenInv)'
    BY NextInv, NextOrden
  <2> QED BY InitInv, InitOrden, <2>1, PTL DEF Spec
<1>2. SInv /\ OrdenInv /\ [Next]_vars =>
        [\A u \in Usuarios : cuentas'[u] < cuentas[u] => Head(pend).tipo = "facebook"]_vars
  BY NextOrden
<1> QED BY <1>1, <1>2, PTL DEF Spec, SoloFacebookReinicia

-----------------------------------------------------------------------------
(* The stack of screens a and the screens b: an active screen is the only one,*)
(* and those of the stack are open, each once.                                *)
Pila(a) == {a[i] : i \in DOMAIN a}
Abiertas(a, b) ==
    /\ a \in Seq(Pantallas) /\ Sec!IsInjective(a)
    /\ b \in [Pantallas -> RegistrosPantalla]
    /\ \A p \in Pila(a) : b[p].fase \notin {"fuera", "fin"}
    /\ \A p, q \in Pantallas : b[p].fase = "activa" /\ b[q].fase = "activa" => p = q
Firme(e) == Estado(e) /\ Abiertas(e.pila, e.pant)

(* Nothing is on the screen in f that was not in e, nor, for somebody u who   *)
(* is signed in, the first screen.                                            *)
Menos(e, f) ==
    \A p \in Pila(f.pila) : f.pant[p].fase = "activa" =>
        p \in Pila(e.pila) /\ e.pant[p] = f.pant[p]
SinInicio(e, u) ==
    \A p \in Pila(e.pila) :
        e.pant[p].fase = "activa" /\ e.pant[p].nombre = "main" => u = Nada

LEMMA MenosSinInicio ==
  ASSUME NEW e, NEW f, NEW u, Menos(e, f), SinInicio(e, u) PROVE SinInicio(f, u)
BY DEF Menos, SinInicio

LEMMA MenosMenos ==
  ASSUME NEW e, NEW f, NEW g, Menos(e, f), Menos(f, g) PROVE Menos(e, g)
BY DEF Menos

LEMMA PartesFirme ==
  ASSUME NEW e, Firme(e)
  PROVE  e = [pila |-> e.pila, pant |-> e.pant, llamadas |-> e.llamadas]
<1>1. PICK a, b, c : e = [pila |-> a, pant |-> b, llamadas |-> c]
  BY DEF Firme, Estado
<1> QED BY <1>1

LEMMA FirmePartes ==
  ASSUME NEW a, NEW b, NEW c, Abiertas(a, b)
  PROVE  Firme([pila |-> a, pant |-> b, llamadas |-> c])
BY DEF Firme, Estado

(* One sequence after another. *)
LEMMA Pegadas ==
  ASSUME NEW T, NEW u \in Seq(T), NEW v \in Seq(T)
  PROVE  /\ u \o v \in Seq(T) /\ Len(u \o v) = Len(u) + Len(v)
         /\ \A k \in 1..Len(u \o v) :
               (u \o v)[k] = IF k <= Len(u) THEN u[k] ELSE v[k - Len(u)]
OBVIOUS

(* Taking a screen out of a stack takes that screen. *)
LEMMA QuitaPila ==
  ASSUME NEW a \in Seq(Pantallas), Sec!IsInjective(a), NEW p
  PROVE  /\ Sec!RemoveFirst(a, p) \in Seq(Pantallas)
         /\ Sec!IsInjective(Sec!RemoveFirst(a, p))
         /\ Pila(Sec!RemoveFirst(a, p)) = Pila(a) \ {p}
<1> DEFINE s == Sec!RemoveFirst(a, p)
<1>1. CASE ~\E i \in 1..Len(a) : a[i] = p
  BY <1>1 DEF Sec!RemoveFirst, Pila
<1>2. CASE \E i \in 1..Len(a) : a[i] = p
  <2>1. PICK i \in 1..Len(a) : a[i] = p
    BY <1>2
  <2>2. {k \in 1..Len(a) : a[k] = p} = {i}
    BY <2>1 DEF Sec!IsInjective
  <2>3. Sec!SelectInSeq(a, LAMBDA v : v = p) = i
    <3>1. Sec!Min({i}) = i
      BY DEF Sec!Min
    <3> QED BY <2>2, <3>1 DEF Sec!SelectInSeq
  <2>4. s = SubSeq(a, 1, i - 1) \o SubSeq(a, i + 1, Len(a))
    BY <1>2, <2>3 DEF Sec!RemoveFirst, Sec!RemoveAt
  <2> HIDE DEF s
  <2>5. /\ s \in Seq(Pantallas) /\ Len(s) = Len(a) - 1
        /\ \A k \in 1..Len(s) : s[k] = IF k < i THEN a[k] ELSE a[k + 1]
    <3> DEFINE u == SubSeq(a, 1, i - 1)
               v == SubSeq(a, i + 1, Len(a))
    <3>1. u \in Seq(Pantallas) /\ Len(u) = i - 1 /\ \A k \in 1..Len(u) : u[k] = a[k]
      OBVIOUS
    <3>2. v \in Seq(Pantallas) /\ Len(v) = Len(a) - i /\ \A k \in 1..Len(v) : v[k] = a[k + i]
      OBVIOUS
    <3> HIDE DEF u, v
    <3>3. /\ s \in Seq(Pantallas) /\ Len(s) = Len(u) + Len(v)
          /\ \A k \in 1..Len(s) : s[k] = IF k <= Len(u) THEN u[k] ELSE v[k - Len(u)]
      BY <2>4, <3>1, <3>2, Pegadas DEF u, v
    <3>4. s \in Seq(Pantallas) /\ Len(s) = Len(a) - 1
      BY <3>1, <3>2, <3>3
    <3>5. ASSUME NEW k \in 1..Len(s) PROVE s[k] = IF k < i THEN a[k] ELSE a[k + 1]
      <4>1. s[k] = IF k <= Len(u) THEN u[k] ELSE v[k - Len(u)]
        BY <3>3
      <4>2. CASE k < i
        BY <3>1, <4>1, <4>2
      <4>3. CASE ~(k < i)
        <5>1. k - Len(u) \in 1..Len(v) /\ k - Len(u) + i = k + 1 /\ ~(k <= Len(u))
          BY <3>1, <3>2, <3>4, <4>3
        <5> QED BY <3>2, <4>1, <4>3, <5>1
      <4> QED BY <4>2, <4>3
    <3> QED BY <3>4, <3>5
  <2>6. Sec!IsInjective(s)
    <3> SUFFICES ASSUME NEW x \in 1..Len(s), NEW y \in 1..Len(s), s[x] = s[y]
                 PROVE  x = y
      BY <2>5 DEF Sec!IsInjective
    <3>1. \A k, m \in 1..Len(a) : a[k] = a[m] => k = m
      BY DEF Sec!IsInjective
    <3>2. x \in 1..Len(a) /\ x + 1 \in 1..Len(a) /\ y \in 1..Len(a) /\ y + 1 \in 1..Len(a)
      BY <2>5
    <3>3. CASE x < i
      BY <2>5, <3>1, <3>2, <3>3
    <3>4. CASE ~(x < i)
      BY <2>5, <3>1, <3>2, <3>4
    <3> QED BY <3>3, <3>4
  <2>7. ASSUME NEW q \in Pila(a), q # p PROVE q \in Pila(s)
    <3>1. PICK k \in 1..Len(a) : a[k] = q
      BY <2>7 DEF Pila
    <3>2. CASE k < i
      BY <2>5, <3>1, <3>2 DEF Pila
    <3>3. CASE ~(k < i)
      <4>1. k # i /\ k - 1 \in 1..Len(s) /\ ~(k - 1 < i) /\ (k - 1) + 1 = k
        BY <2>1, <2>5, <2>7, <3>1, <3>3
      <4>2. s[k - 1] = a[k]
        BY <2>5, <4>1
      <4>3. k - 1 \in DOMAIN s
        BY <2>5, <4>1
      <4> QED BY <3>1, <4>2, <4>3 DEF Pila
    <3> QED BY <3>2, <3>3
  <2>8. ASSUME NEW q \in Pila(s) PROVE q \in Pila(a) \ {p}
    <3>1. PICK k \in 1..Len(s) : s[k] = q
      BY <2>5 DEF Pila
    <3>2. k \in 1..Len(a) /\ k + 1 \in 1..Len(a)
      BY <2>5
    <3>3. \A m \in 1..Len(a) : a[m] = p => m = i
      BY <2>1 DEF Sec!IsInjective
    <3>4. s[k] = (IF k < i THEN a[k] ELSE a[k + 1])
      BY <2>5
    <3>5. CASE k < i
      BY <3>1, <3>2, <3>3, <3>4, <3>5 DEF Pila
    <3>6. CASE ~(k < i)
      <4>1. k + 1 # i /\ a[k + 1] = q
        BY <3>1, <3>4, <3>6
      <4> QED BY <3>2, <3>3, <4>1 DEF Pila
    <3> QED BY <3>5, <3>6
  <2> QED BY <2>5, <2>6, <2>7, <2>8 DEF s
<1> QED BY <1>1, <1>2

LEMMA QuitaFirme ==
  ASSUME NEW e, Firme(e), NEW p
  PROVE  /\ Firme(Quita(e, p)) /\ Menos(e, Quita(e, p))
         /\ p \notin Pila(Quita(e, p).pila) /\ Quita(e, p).pant = e.pant
<1> DEFINE s == Sec!RemoveFirst(e.pila, p)
<1>1. Abiertas(e.pila, e.pant)
  BY DEF Firme
<1>2. s \in Seq(Pantallas) /\ Sec!IsInjective(s) /\ Pila(s) = Pila(e.pila) \ {p}
  BY <1>1, QuitaPila DEF Abiertas
<1>3. Quita(e, p) = [e EXCEPT !.pila = s]
  BY PartesFirme DEF Quita
<1> HIDE DEF s
<1>4. Quita(e, p) = [pila |-> s, pant |-> e.pant, llamadas |-> e.llamadas]
  BY <1>3, PartesFirme
<1>5. Abiertas(s, e.pant)
  BY <1>1, <1>2 DEF Abiertas
<1>6. Quita(e, p).pila = s /\ Quita(e, p).pant = e.pant
  BY <1>4
<1> QED BY <1>2, <1>4, <1>5, <1>6, FirmePartes DEF Menos

LEMMA IniciaFirme ==
  ASSUME NEW e, Firme(e), NEW nombre \in Nombres
  PROVE  Firme(Inicia(e, nombre)) /\ Menos(e, Inicia(e, nombre))
<1> DEFINE p == CHOOSE q \in Libres(e) : \A r \in Libres(e) : q <= r
           s == Append(e.pila, p)
           t == [e.pant EXCEPT ![p] = [@ EXCEPT !.nombre = nombre, !.fase = "porCrear"]]
<1>1. Abiertas(e.pila, e.pant)
  BY DEF Firme
<1>2. CASE Libres(e) = {}
  BY <1>2 DEF Inicia, Menos
<1>3. CASE Libres(e) # {}
  <2>1. p \in Pantallas /\ e.pant[p].fase = "fuera"
    <3>1. Libres(e) \subseteq Nat
      BY CotasSesionAssumption DEF Libres, Pantallas
    <3>2. \E q \in Libres(e) : \A r \in Libres(e) : q <= r
      BY <1>3, <3>1, HayMenor
    <3> QED BY <3>2 DEF Libres
  <2>2. Inicia(e, nombre) = [e EXCEPT !.pila = s, !.pant = t]
    BY <1>3, PartesFirme DEF Inicia
  <2> HIDE DEF p
  <2>3. p \notin Pila(e.pila)
    BY <1>1, <2>1 DEF Abiertas
  <2>4. s \in Seq(Pantallas) /\ Sec!IsInjective(s) /\ Pila(s) = Pila(e.pila) \cup {p}
    <3>1. e.pila \in Seq(Pantallas) /\ Sec!IsInjective(e.pila)
      BY <1>1 DEF Abiertas
    <3>2. /\ s \in Seq(Pantallas) /\ Len(s) = Len(e.pila) + 1 /\ Len(e.pila) \in Nat
          /\ \A i \in 1..Len(e.pila) : s[i] = e.pila[i]
          /\ s[Len(e.pila) + 1] = p
      BY <2>1, <3>1
    <3>3. DOMAIN s = 1..(Len(e.pila) + 1) /\ DOMAIN e.pila = 1..Len(e.pila)
      BY <3>1, <3>2
    <3> HIDE DEF s
    <3>4. Pila(s) = Pila(e.pila) \cup {p}
      BY <3>2, <3>3 DEF Pila
    <3>5. Sec!IsInjective(s)
      <4>1. ASSUME NEW i \in DOMAIN s, NEW k \in DOMAIN s, s[i] = s[k] PROVE i = k
        <5>1. \A m \in DOMAIN e.pila : e.pila[m] # p
          BY <2>3 DEF Pila
        <5> QED BY <3>1, <3>2, <3>3, <4>1, <5>1 DEF Sec!IsInjective
      <4> QED BY <4>1 DEF Sec!IsInjective
    <3> QED BY <3>2, <3>4, <3>5
  <2>5. /\ t \in [Pantallas -> RegistrosPantalla]
        /\ t[p].fase = "porCrear"
        /\ \A q \in Pantallas : q # p => t[q] = e.pant[q]
    <3>1. e.pant \in [Pantallas -> RegistrosPantalla]
      BY <1>1 DEF Abiertas
    <3> DEFINE r == e.pant[p]
               n == [r EXCEPT !.nombre = nombre, !.fase = "porCrear"]
    <3>2. r \in RegistrosPantalla
      BY <2>1, <3>1
    <3>3. t = [e.pant EXCEPT ![p] = n]
      OBVIOUS
    <3> HIDE DEF r
    <3>4. n \in RegistrosPantalla /\ n.fase = "porCrear"
      BY <3>2 DEF RegistrosPantalla, FasesPantalla, Nombres
    <3> HIDE DEF n, t
    <3> QED BY <2>1, <3>1, <3>3, <3>4
  <2> HIDE DEF s, t
  <2>6. Inicia(e, nombre) = [pila |-> s, pant |-> t, llamadas |-> e.llamadas]
    BY <2>2, PartesFirme
  <2>7. Abiertas(s, t)
    <3>1. \A q \in Pila(s) : q \in Pantallas
      BY <2>4 DEF Pila
    <3>2. \A q \in Pantallas : t[q].fase = "activa" => q # p /\ e.pant[q].fase = "activa"
      BY <2>5
    <3> QED BY <1>1, <2>4, <2>5, <3>1, <3>2 DEF Abiertas
  <2>8. Inicia(e, nombre).pila = s /\ Inicia(e, nombre).pant = t
    BY <2>6
  <2>9. Menos(e, Inicia(e, nombre))
    <3>1. \A q \in Pila(s) : q \in Pantallas
      BY <2>4 DEF Pila
    <3> QED BY <2>4, <2>5, <2>8, <3>1 DEF Menos
  <2> QED BY <2>6, <2>7, <2>9, FirmePartes
<1> QED BY <1>2, <1>3

LEMMA AlMenuFirme ==
  ASSUME NEW e, Firme(e), NEW p
  PROVE  /\ Firme(AlMenu(e, p)) /\ Menos(e, AlMenu(e, p))
         /\ \A q \in Pila(AlMenu(e, p).pila) : AlMenu(e, p).pant[q].fase = "activa" => q # p
<1> DEFINE f == Quita(e, p)
<1>1. Firme(f) /\ Menos(e, f) /\ p \notin Pila(f.pila)
  BY QuitaFirme
<1>2. AlMenu(e, p) = Inicia(f, "menu")
  BY DEF AlMenu
<1> HIDE DEF f
<1>3. Firme(AlMenu(e, p)) /\ Menos(f, AlMenu(e, p))
  BY <1>1, <1>2, IniciaFirme DEF Nombres
<1>4. \A q \in Pila(AlMenu(e, p).pila) : AlMenu(e, p).pant[q].fase = "activa" => q # p
  BY <1>1, <1>3 DEF Menos
<1> QED BY <1>1, <1>3, <1>4, MenosMenos

LEMMA PideFirme ==
  ASSUME NEW e, Firme(e), NEW pide, NEW u, NEW p
  PROVE  /\ Firme(Pide(e, pide, u, p)) /\ Menos(e, Pide(e, pide, u, p))
         /\ Pide(e, pide, u, p).pila = e.pila /\ Pide(e, pide, u, p).pant = e.pant
<1> DEFINE S == e.llamadas \cup {[pide |-> pide, u |-> u, de |-> p]}
<1>1. Pide(e, pide, u, p) = [e EXCEPT !.llamadas = S]
  BY PartesFirme DEF Pide
<1> HIDE DEF S
<1>2. Pide(e, pide, u, p) = [pila |-> e.pila, pant |-> e.pant, llamadas |-> S]
  BY <1>1, PartesFirme
<1>3. Pide(e, pide, u, p).pila = e.pila /\ Pide(e, pide, u, p).pant = e.pant
  BY <1>2
<1> QED BY <1>2, <1>3, FirmePartes DEF Firme, Menos

(* Whoever signs in leaves the first screen, if it is p that is there.        *)
LEMMA UpdateUIFirme ==
  ASSUME NEW e, Firme(e), NEW p, NEW u
  PROVE  /\ Firme(UpdateUI(e, p, u)) /\ Menos(e, UpdateUI(e, p, u))
         /\ u # Nada =>
               \A q \in Pila(UpdateUI(e, p, u).pila) :
                   UpdateUI(e, p, u).pant[q].fase = "activa" => q # p
<1>1. CASE u = Nada
  BY <1>1 DEF UpdateUI, Menos
<1>2. CASE u # Nada
  <2> DEFINE f == IF token /\ perfil THEN Pide(e, "perfil", u, p) ELSE e
  <2>1. Firme(f) /\ Menos(e, f)
    BY PideFirme DEF Menos
  <2>2. UpdateUI(e, p, u) = AlMenu(f, p)
    BY <1>2 DEF UpdateUI
  <2> HIDE DEF f
  <2> QED BY <2>1, <2>2, AlMenuFirme, MenosMenos
<1> QED BY <1>1, <1>2

LEMMA AvisaFirme ==
  ASSUME NEW e, Firme(e), NEW u, u # Nada
  PROVE  Firme(Avisa(e, u)) /\ Menos(e, Avisa(e, u)) /\ SinInicio(Avisa(e, u), u)
<1> DEFINE oyen == {p \in Pantallas : e.pant[p].nombre = "main" /\ e.pant[p].fase = "activa"}
           x == CHOOSE p \in oyen : TRUE
<1>0. \A p \in Pila(e.pila) : p \in Pantallas
  BY DEF Firme, Abiertas, Pila
<1>1. CASE oyen = {}
  <2>1. Avisa(e, u) = e
    BY <1>1 DEF Avisa
  <2> QED BY <1>0, <1>1, <2>1 DEF SinInicio, Menos
<1>2. CASE oyen # {}
  <2>1. x \in oyen
    BY <1>2
  <2>2. Avisa(e, u) = UpdateUI(e, x, u)
    BY <1>2 DEF Avisa
  <2>3. \A p \in Pantallas : e.pant[p].fase = "activa" => p = x
    BY <2>1 DEF Firme, Abiertas
  <2> HIDE DEF x, oyen
  <2> DEFINE f == UpdateUI(e, x, u)
  <2>4. /\ Firme(f) /\ Menos(e, f)
        /\ \A q \in Pila(f.pila) : f.pant[q].fase = "activa" => q # x
    BY UpdateUIFirme
  <2> HIDE DEF f
  <2>5. SinInicio(f, u)
    <3>1. \A q \in Pila(f.pila) : f.pant[q].fase # "activa"
      BY <1>0, <2>3, <2>4 DEF Menos
    <3> QED BY <3>1 DEF SinInicio
  <2> QED BY <2>2, <2>4, <2>5 DEF f
<1> QED BY <1>1, <1>2

LEMMA DetieneFirme ==
  ASSUME NEW e, Firme(e), NEW S, S \subseteq Pantallas
  PROVE  /\ Firme(Detiene(e, S)) /\ Menos(e, Detiene(e, S))
         /\ Detiene(e, S).pila = e.pila
         /\ \A p \in Pantallas : /\ Detiene(e, S).pant[p].nombre = e.pant[p].nombre
                                 /\ p \in S => Detiene(e, S).pant[p].fase # "activa"
                                 /\ p \notin S => Detiene(e, S).pant[p] = e.pant[p]
<1> DEFINE R == {l \in e.llamadas : ~(l.pide = "cuenta" /\ l.de \in S)
                                    /\ ~(l.pide \in {"crear", "entrar"} /\ l.de \in S)}
                \cup {[l EXCEPT !.de = Nada] :
                         l \in {x \in e.llamadas : x.pide \in {"crear", "entrar"} /\ x.de \in S}}
           t == [p \in Pantallas |->
                    IF p \notin S THEN e.pant[p]
                    ELSE [e.pant[p] EXCEPT !.fase = IF \E i \in DOMAIN e.pila : e.pila[i] = p
                                                    THEN "detenida" ELSE "fin"]]
<1>1. Abiertas(e.pila, e.pant)
  BY DEF Firme
<1>2. Detiene(e, S) = [e EXCEPT !.pant = t, !.llamadas = R]
  BY PartesFirme DEF Detiene
<1>3. ASSUME NEW p \in S
      PROVE  /\ t[p] \in RegistrosPantalla /\ t[p].nombre = e.pant[p].nombre
             /\ t[p].fase = IF p \in Pila(e.pila) THEN "detenida" ELSE "fin"
  <2> DEFINE r == e.pant[p]
             k == IF \E i \in DOMAIN e.pila : e.pila[i] = p THEN "detenida" ELSE "fin"
  <2>1. r \in RegistrosPantalla
    BY <1>1 DEF Abiertas
  <2>2. t[p] = [r EXCEPT !.fase = k]
    OBVIOUS
  <2>3. k = IF p \in Pila(e.pila) THEN "detenida" ELSE "fin"
    BY DEF Pila
  <2>4. k \in FasesPantalla
    BY DEF FasesPantalla
  <2> HIDE DEF t, k
  <2>5. t[p].nombre = r.nombre /\ t[p].fase = k /\ t[p] \in RegistrosPantalla
    BY <2>1, <2>2, <2>4 DEF RegistrosPantalla
  <2> QED BY <2>3, <2>5
<1>4. \A p \in Pantallas \ S : t[p] = e.pant[p]
  OBVIOUS
<1>5. DOMAIN t = Pantallas /\ t = [p \in Pantallas |-> t[p]]
  OBVIOUS
<1> HIDE DEF t, R
<1>6. Detiene(e, S) = [pila |-> e.pila, pant |-> t, llamadas |-> R]
  BY <1>2, PartesFirme
<1>7. Detiene(e, S).pila = e.pila /\ Detiene(e, S).pant = t
  BY <1>6
<1>8. t \in [Pantallas -> RegistrosPantalla]
  BY <1>1, <1>3, <1>4, <1>5 DEF Abiertas
<1>9. \A p \in Pantallas : t[p].fase = "activa" => p \notin S /\ e.pant[p] = t[p]
  BY <1>3, <1>4
<1>10. \A p \in Pila(e.pila) : p \in Pantallas
  BY <1>1 DEF Abiertas, Pila
<1>11. Abiertas(e.pila, t)
  <2>1. \A p \in Pila(e.pila) : t[p].fase \notin {"fuera", "fin"}
    BY <1>1, <1>3, <1>4, <1>10 DEF Abiertas
  <2> QED BY <1>1, <1>8, <1>9, <2>1 DEF Abiertas
<1>12. \A p \in Pantallas : t[p].nombre = e.pant[p].nombre /\ (p \in S => t[p].fase # "activa")
  BY <1>3, <1>4
<1>13. Menos(e, Detiene(e, S))
  BY <1>7, <1>9, <1>10 DEF Menos
<1> QED BY <1>4, <1>6, <1>7, <1>11, <1>12, <1>13, FirmePartes

-----------------------------------------------------------------------------
(* The invariant of the screens, and what else TipoSesion says. *)
Puesta == Abiertas(pila, pant) /\ SinInicio(Ahora, actual)
ValoresInv == /\ token \in BOOLEAN /\ perfil \in BOOLEAN
              /\ dejados \subseteq creados /\ copia \subseteq Usuarios
              /\ caidas \in Nat
PilaInv == Puesta /\ ValoresInv

LEMMA AhoraFirme == Puesta => Firme(Ahora) /\ SinInicio(Ahora, actual)
BY FirmePartes DEF Puesta, Ahora

LEMMA QuedanPuesta ==
  ASSUME NEW e, Firme(e), SinInicio(e, actual'), Quedan(e) PROVE Puesta'
<1>1. pila' = e.pila /\ pant' = e.pant
  BY DEF Quedan
<1>2. Ahora'.pila = pila' /\ Ahora'.pant = pant'
  BY DEF Ahora
<1> QED BY <1>1, <1>2 DEF Puesta, SinInicio, Firme

(* A screen less, or one to come, is no matter. *)
LEMMA QuedanMenos ==
  ASSUME Puesta, NEW e, Firme(e), Menos(Ahora, e), Quedan(e), UNCHANGED actual
  PROVE  Puesta'
BY AhoraFirme, MenosSinInicio, QuedanPuesta

LEMMA QuietasPuesta ==
  ASSUME Puesta, UNCHANGED <<actual, pantallas>> PROVE Puesta'
BY DEF Puesta, pantallas, SinInicio, Ahora

LEMMA CaidaPuesta == ASSUME Puesta, Caida PROVE Puesta'
<1>1. /\ pila' = <<>>
      /\ pant' = [p \in Pantallas |-> IF pant[p].fase = "fuera" THEN pant[p]
                                      ELSE [SinAbrir EXCEPT !.fase = "fin"]]
  BY DEF Caida, Termina
<1>2. [SinAbrir EXCEPT !.fase = "fin"] \in RegistrosPantalla
      /\ [SinAbrir EXCEPT !.fase = "fin"].fase = "fin"
  BY DEF SinAbrir, RegistrosPantalla, FasesPantalla
<1>3. pant' \in [Pantallas -> RegistrosPantalla]
  BY <1>1, <1>2 DEF Puesta, Abiertas
<1>4. \A p \in Pantallas : pant'[p].fase # "activa"
  BY <1>1, <1>2
<1>5. pila' \in Seq(Pantallas) /\ Sec!IsInjective(pila') /\ Pila(pila') = {}
  BY <1>1 DEF Sec!IsInjective, Pila
<1>6. Ahora'.pila = pila'
  BY DEF Ahora
<1> QED BY <1>3, <1>4, <1>5, <1>6 DEF Puesta, Abiertas, SinInicio

LEMMA CaidaValores == ASSUME SInv, ValoresInv, Caida PROVE ValoresInv'
BY DEF Caida, Termina, ValoresInv

-----------------------------------------------------------------------------
(* A screen that comes to the screen is the only one there: the menu, created *)
(* for whoever is signed in, or the first screen, which goes if somebody is.  *)
LEMMA ArribaPuesta ==
  ASSUME SInv, Puesta, NEW p \in Pantallas, Arriba(p) PROVE Puesta'
<1> DEFINE activas == {q \in Pantallas : pant[q].fase = "activa"}
           f == Detiene(Ahora, activas)
           e == [f EXCEPT !.pant[p].fase = "activa"]
           g == [e EXCEPT !.pant[p].uid = actual]
<1>1. Firme(Ahora) /\ Ahora.pila = pila /\ Ahora.pant = pant
  BY AhoraFirme DEF Ahora
<1>2. /\ Firme(f) /\ f.pila = pila
      /\ \A q \in Pantallas : f.pant[q].fase # "activa" /\ f.pant[q].nombre = pant[q].nombre
  BY <1>1, DetieneFirme
<1>3. p \in Pila(pila)
  <2>1. pila \in Seq(Pantallas) /\ pila # <<>> /\ pila[Len(pila)] = p
    BY DEF Arriba, Sec!Last, Puesta, Abiertas
  <2>2. Len(pila) \in DOMAIN pila
    BY <2>1
  <2> QED BY <2>1, <2>2 DEF Pila
<1>4. \/ CreaMenu(e, p) /\ pant[p].nombre = "menu"
      \/ Muestra(OnStart(e, p))
      \/ Muestra(e) /\ pant[p].nombre # "main"
  BY DEF Arriba
<1> HIDE DEF f
<1> DEFINE r == f.pant[p]
           n == [r EXCEPT !.fase = "activa"]
           t == [f.pant EXCEPT ![p] = n]
<1>5. f.pant \in [Pantallas -> RegistrosPantalla] /\ r \in RegistrosPantalla
  BY <1>2 DEF Firme, Abiertas
<1>6. e = [f EXCEPT !.pant = t]
  BY <1>2, PartesFirme
<1> HIDE DEF e, r
<1>7. n \in RegistrosPantalla /\ n.fase = "activa" /\ n.nombre = r.nombre
  BY <1>5 DEF RegistrosPantalla, FasesPantalla
<1> HIDE DEF n
<1>8. /\ t \in [Pantallas -> RegistrosPantalla] /\ t[p] = n
      /\ \A q \in Pantallas : q # p => t[q] = f.pant[q]
  BY <1>5, <1>7
<1> HIDE DEF t
<1>9. e = [pila |-> pila, pant |-> t, llamadas |-> f.llamadas]
  BY <1>2, <1>6, PartesFirme
<1>10. \A q \in Pantallas : t[q].fase = "activa" => q = p
  BY <1>2, <1>8
<1>11. Abiertas(pila, t)
  <2>1. \A q \in Pila(pila) : q \in Pantallas
    BY DEF Puesta, Abiertas, Pila
  <2> QED BY <1>2, <1>7, <1>8, <1>10, <2>1 DEF Firme, Abiertas
<1>12. Firme(e) /\ e.pila = pila /\ e.pant = t
  BY <1>9, <1>11, FirmePartes
<1>13. t[p].nombre = pant[p].nombre
  BY <1>2, <1>7, <1>8 DEF r
<1>14. \A q \in Pila(pila) : q \in Pantallas
  BY DEF Puesta, Abiertas, Pila
<1>15. CASE CreaMenu(e, p) /\ pant[p].nombre = "menu"
  <2>1. CASE Caida
    BY <2>1, CaidaPuesta
  <2>2. CASE actual # Nada /\ Muestra(ConUid(e, p))
    <3>1. Firme(g) /\ SinInicio(g, actual)
      <4>0. actual \in Usuarios \cup {Nada}
        BY DEF SInv, SesionTipo
      <4> DEFINE y == t[p]
                 m == [y EXCEPT !.uid = actual]
                 z == [t EXCEPT ![p] = m]
      <4>1. g = [e EXCEPT !.pant = z]
        BY <1>12, PartesFirme
      <4>2. y \in RegistrosPantalla
        BY <1>8
      <4> HIDE DEF y, g
      <4>3. m \in RegistrosPantalla /\ m.fase = y.fase /\ m.nombre = y.nombre
        BY <4>0, <4>2 DEF RegistrosPantalla
      <4> HIDE DEF m
      <4>4. /\ z \in [Pantallas -> RegistrosPantalla] /\ z[p] = m
            /\ \A q \in Pantallas : q # p => z[q] = t[q]
        BY <1>8, <4>3
      <4> HIDE DEF z
      <4>5. g = [pila |-> pila, pant |-> z, llamadas |-> e.llamadas]
        BY <1>12, <4>1, PartesFirme
      <4>6. \A q \in Pantallas : z[q].fase = t[q].fase /\ z[q].nombre = t[q].nombre
        BY <4>3, <4>4 DEF y
      <4>7. Abiertas(pila, z)
        BY <1>11, <1>14, <4>4, <4>6 DEF Abiertas
      <4>8. Firme(g) /\ g.pila = pila /\ g.pant = z
        BY <4>5, <4>7, FirmePartes
      <4> QED BY <1>10, <1>13, <1>14, <1>15, <4>6, <4>8 DEF SinInicio
    <3> DEFINE h == Pide(g, "cuenta", actual, p)
    <3>2. ConUid(e, p) = Pide(h, "espera", actual, p)
      BY DEF ConUid
    <3>3. Quedan(ConUid(e, p)) /\ actual' = actual
      BY <2>2 DEF Muestra, sesion
    <3> HIDE DEF g
    <3>4. Firme(h) /\ Menos(g, h)
      BY <3>1, PideFirme
    <3> HIDE DEF h
    <3>5. Firme(ConUid(e, p)) /\ Menos(h, ConUid(e, p))
      BY <3>2, <3>4, PideFirme
    <3> QED BY <3>1, <3>3, <3>4, <3>5, MenosSinInicio, QuedanPuesta
  <2> QED BY <1>15, <2>1, <2>2 DEF CreaMenu
<1>16. CASE Muestra(OnStart(e, p))
  <2> DEFINE h == UpdateUI(e, p, actual)
  <2>1. /\ Firme(h) /\ Menos(e, h)
        /\ actual # Nada => \A q \in Pila(h.pila) : h.pant[q].fase = "activa" => q # p
    BY <1>12, UpdateUIFirme
  <2>2. SinInicio(h, actual)
    BY <1>10, <1>12, <1>14, <2>1 DEF SinInicio, Menos
  <2>3. OnStart(e, p) = UpdateUI(h, p, actual)
    BY DEF OnStart
  <2> HIDE DEF h
  <2>4. Firme(OnStart(e, p)) /\ SinInicio(OnStart(e, p), actual)
    BY <2>1, <2>2, <2>3, UpdateUIFirme, MenosSinInicio
  <2>5. Quedan(OnStart(e, p)) /\ actual' = actual
    BY <1>16 DEF Muestra, sesion
  <2> QED BY <2>4, <2>5, QuedanPuesta
<1>17. CASE Muestra(e) /\ pant[p].nombre # "main"
  <2>1. SinInicio(e, actual)
    BY <1>10, <1>12, <1>13, <1>14, <1>17 DEF SinInicio
  <2>2. Quedan(e) /\ actual' = actual
    BY <1>17 DEF Muestra, sesion
  <2> QED BY <1>12, <2>1, <2>2, QuedanPuesta
<1> QED BY <1>4, <1>15, <1>16, <1>17

LEMMA TocaPuesta ==
  ASSUME Puesta, NEW p \in Pantallas, Cubrir(p) \/ Toca(p) PROVE Puesta'
<1>1. Firme(Ahora) /\ SinInicio(Ahora, actual)
  BY AhoraFirme
<1>2. CASE Cubrir(p)
  <2>1. Firme(Detiene(Ahora, {p})) /\ Menos(Ahora, Detiene(Ahora, {p}))
    BY <1>1, DetieneFirme
  <2>2. Quedan(Detiene(Ahora, {p})) /\ UNCHANGED actual
    BY <1>2 DEF Cubrir, Muestra, sesion
  <2> QED BY <2>1, <2>2, QuedanMenos
<1>3. CASE Atras(p)
  <2> DEFINE s == [Ahora EXCEPT !.pila = <<>>]
             e == IF pant[p].nombre = "menu" THEN s ELSE Quita(Ahora, p)
             abiertas == {q \in Pantallas : pant[q].fase \notin {"fuera", "fin"}}
             f == IF e.pila = <<>> THEN Detiene(e, abiertas) ELSE e
  <2>1. Firme(s) /\ Menos(Ahora, s)
    <3>1. s = [pila |-> <<>>, pant |-> pant, llamadas |-> llamadas]
      BY DEF Ahora
    <3>2. s.pila = <<>> /\ Pila(<<>>) = {} /\ <<>> \in Seq(Pantallas) /\ Sec!IsInjective(<<>>)
      BY <3>1 DEF Pila, Sec!IsInjective
    <3>3. Abiertas(<<>>, pant)
      BY <3>2 DEF Puesta, Abiertas
    <3> HIDE DEF s
    <3> QED BY <3>1, <3>2, <3>3, FirmePartes DEF Menos
  <2>2. Firme(Quita(Ahora, p)) /\ Menos(Ahora, Quita(Ahora, p))
    BY <1>1, QuitaFirme
  <2>3. Firme(e) /\ Menos(Ahora, e)
    BY <2>1, <2>2
  <2>4. Quedan(f) /\ UNCHANGED actual
    BY <1>3 DEF Atras, Muestra, sesion
  <2> HIDE DEF e
  <2>5. Firme(Detiene(e, abiertas)) /\ Menos(e, Detiene(e, abiertas))
    BY <2>3, DetieneFirme
  <2>6. Firme(f) /\ Menos(Ahora, f)
    BY <2>3, <2>5, MenosMenos
  <2> HIDE DEF f
  <2> QED BY <2>4, <2>6, QuedanMenos
<1>4. ASSUME NEW nombre \in Nombres, AbrirFormulario(p, nombre) PROVE Puesta'
  BY <1>1, <1>4, IniciaFirme, QuedanMenos DEF AbrirFormulario, Muestra, sesion
<1>5. ASSUME NEW u, HandleFacebookAccessToken(p, u) PROVE Puesta'
  BY <1>1, <1>5, PideFirme, QuedanMenos DEF HandleFacebookAccessToken
<1>6. ASSUME NEW u, IniciarSesion(p, u) \/ CrearUsuario(p, u) PROVE Puesta'
  BY <1>1, <1>6, PideFirme, QuedanMenos DEF IniciarSesion, CrearUsuario, Muestra, sesion
<1>7. CASE Paga(p)
  BY <1>7, QuietasPuesta DEF Paga, sesion
<1>8. CASE Salir(p)
  <2> DEFINE i == Inicia(Ahora, "main")
             e == Quita(i, p)
  <2>1. Firme(i) /\ Menos(Ahora, i)
    BY <1>1, IniciaFirme DEF Nombres
  <2> HIDE DEF i
  <2>2. Firme(e)
    BY <2>1, QuitaFirme
  <2>3. Quedan(e) /\ actual' = Nada
    BY <1>8 DEF Salir, i
  <2> QED BY <2>2, <2>3, QuedanPuesta DEF SinInicio
<1> QED BY <1>2, <1>3, <1>4, <1>5, <1>6, <1>7, <1>8 DEF Toca

(* Whoever is signed in by an answer leaves the first screen. *)
LEMMA RespondePuesta ==
  ASSUME SInv, Puesta, NEW l \in llamadas, Responde(l) PROVE Puesta'
<1>1. l.u # Nada
  BY NadaSesionAssumption DEF SInv, LlamadasInv, Llamadas
<1>2. /\ Firme(Sin(l)) /\ Menos(Ahora, Sin(l))
      /\ Sin(l) = [pila |-> pila, pant |-> pant, llamadas |-> llamadas \ {l}]
  <2>1. Sin(l) = [pila |-> pila, pant |-> pant, llamadas |-> llamadas \ {l}]
    BY DEF Sin, Ahora
  <2>2. Sin(l).pila = Ahora.pila /\ Sin(l).pant = Ahora.pant
    BY <2>1 DEF Ahora
  <2> QED BY <2>1, <2>2, FirmePartes DEF Menos, Puesta
<1>3. Firme(Avisa(Sin(l), l.u)) /\ SinInicio(Avisa(Sin(l), l.u), l.u)
  BY <1>1, <1>2, AvisaFirme
<1>4. CASE Entra(l)
  <2> DEFINE a == Avisa(Sin(l), l.u)
             e == IF l.de = Nada THEN a ELSE AlMenu(a, l.de)
  <2>1. Firme(AlMenu(a, l.de)) /\ SinInicio(AlMenu(a, l.de), l.u)
    BY <1>3, AlMenuFirme, MenosSinInicio
  <2>2. Firme(e) /\ SinInicio(e, l.u)
    BY <1>3, <2>1
  <2>3. Quedan(e) /\ actual' = l.u
    BY <1>4 DEF Entra
  <2> HIDE DEF e
  <2> QED BY <2>2, <2>3, QuedanPuesta
<1>5. CASE Crea(l)
  BY <1>3, <1>5, QuedanPuesta DEF Crea
<1>6. CASE Falla(l) \/ PerfilSinRed(l)
  BY <1>2, <1>6, QuedanMenos DEF Falla, PerfilSinRed, sesion
<1>7. CASE PerfilLeido(l)
  <2>1. Firme(AlMenu(Sin(l), l.de)) /\ Menos(Ahora, AlMenu(Sin(l), l.de))
    BY <1>2, AlMenuFirme, MenosMenos
  <2> QED BY <1>7, <2>1, QuedanMenos DEF PerfilLeido, sesion
<1>8. CASE CuentaLeida(l)
  <2>1. CASE Caida
    BY <2>1, CaidaPuesta
  <2>2. CASE ~Caida
    <3> DEFINE s == Sin(l)
               e == [s EXCEPT !.pant[l.de].leida = TRUE]
               r == pant[l.de]
               n == [r EXCEPT !.leida = TRUE]
               t == [pant EXCEPT ![l.de] = n]
    <3>1. Quedan(e) /\ UNCHANGED actual
      BY <1>8, <2>2 DEF CuentaLeida, sesion
    <3>2. e = [pila |-> pila, pant |-> t, llamadas |-> llamadas \ {l}]
      <4>1. e = [s EXCEPT !.pant = t]
        BY <1>2
      <4> HIDE DEF e, t
      <4> QED BY <1>2, <4>1
    <3> HIDE DEF e
    <3>3. pant \in [Pantallas -> RegistrosPantalla]
      BY DEF Puesta, Abiertas
    <3>4. \A q \in Pantallas : t[q] \in RegistrosPantalla
                               /\ t[q].fase = pant[q].fase /\ t[q].nombre = pant[q].nombre
      <4>1. CASE l.de \in Pantallas
        <5>1. r \in RegistrosPantalla
          BY <3>3, <4>1
        <5> HIDE DEF r
        <5>2. n \in RegistrosPantalla /\ n.fase = r.fase /\ n.nombre = r.nombre
          BY <5>1 DEF RegistrosPantalla
        <5> HIDE DEF n
        <5>3. t[l.de] = n /\ \A q \in Pantallas : q # l.de => t[q] = pant[q]
          BY <3>3, <4>1
        <5> QED BY <3>3, <5>2, <5>3 DEF r
      <4>2. CASE l.de \notin Pantallas
        <5> HIDE DEF n
        <5>1. t = pant
          BY <3>3, <4>2
        <5> QED BY <3>3, <5>1
      <4> QED BY <4>1, <4>2
    <3>5. t \in [Pantallas -> RegistrosPantalla]
      <4>1. DOMAIN t = Pantallas /\ t = [q \in Pantallas |-> t[q]]
        BY <3>3
      <4> HIDE DEF t
      <4> QED BY <3>4, <4>1
    <3> HIDE DEF t
    <3>6. \A q \in Pila(pila) : q \in Pantallas
      BY DEF Puesta, Abiertas, Pila
    <3>7. Abiertas(pila, t)
      BY <3>4, <3>5, <3>6 DEF Puesta, Abiertas
    <3>8. Firme(e) /\ e.pila = pila /\ e.pant = t
      BY <3>2, <3>7, FirmePartes
    <3>9. SinInicio(e, actual)
      BY <3>4, <3>6, <3>8 DEF Puesta, SinInicio, Ahora
    <3> QED BY <3>1, <3>8, <3>9, QuedanPuesta
  <2> QED BY <2>1, <2>2
<1>9. CASE Mostrar(l)
  <2>1. CASE Caida
    BY <2>1, CaidaPuesta
  <2>2. CASE Muestra(Sin(l))
    BY <1>2, <2>2, QuedanMenos DEF Muestra, sesion
  <2> QED BY <1>9, <2>1, <2>2 DEF Mostrar
<1> QED BY <1>4, <1>5, <1>6, <1>7, <1>8, <1>9 DEF Responde

-----------------------------------------------------------------------------
LEMMA InitPila == Init => PilaInv
<1> SUFFICES ASSUME Init PROVE PilaInv
  OBVIOUS
<1>1. pila = <<>> /\ pant = [p \in Pantallas |-> SinAbrir] /\ Ahora.pila = <<>>
  BY DEF Init, Ahora
<1>2. Pila(pila) = {} /\ pila \in Seq(Pantallas) /\ Sec!IsInjective(pila)
  BY <1>1 DEF Pila, Sec!IsInjective
<1>3. SinAbrir \in RegistrosPantalla /\ SinAbrir.fase = "fuera"
  BY DEF SinAbrir, RegistrosPantalla, FasesPantalla
<1>4. Abiertas(pila, pant)
  BY <1>1, <1>2, <1>3 DEF Abiertas
<1>5. ValoresInv
  BY DEF Init, ValoresInv
<1> QED BY <1>1, <1>2, <1>4, <1>5 DEF PilaInv, Puesta, SinInicio

LEMMA NextPuesta == SInv /\ Puesta /\ [Next]_vars => Puesta'
<1> SUFFICES ASSUME SInv, Puesta, [Next]_vars PROVE Puesta'
  OBVIOUS
<1>1. Firme(Ahora)
  BY AhoraFirme
<1>2. CASE UNCHANGED vars
  BY <1>2, QuietasPuesta DEF vars, sesion
<1>3. CASE Lanzar
  BY <1>1, <1>3, IniciaFirme, QuedanMenos DEF Lanzar, Muestra, sesion, Nombres
<1>4. CASE Descartar \/ EnLinea
  BY <1>4, CaidaPuesta DEF Descartar, EnLinea
<1>5. CASE LlegaPerfil
  BY <1>5, QuietasPuesta DEF LlegaPerfil
<1>6. CASE Aplica
  <2> DEFINE w == Head(pend)
             e == IF w.de = Nada THEN Ahora ELSE AlMenu(Ahora, w.de)
  <2>1. Firme(AlMenu(Ahora, w.de)) /\ Menos(Ahora, AlMenu(Ahora, w.de))
    BY <1>1, AlMenuFirme
  <2>2. Firme(e) /\ Menos(Ahora, e)
    BY <1>1, <2>1 DEF Menos
  <2>3. Quedan(e) /\ UNCHANGED actual
    BY <1>6 DEF Aplica, sesion
  <2> HIDE DEF e
  <2> QED BY <2>2, <2>3, QuedanMenos
<1>7. ASSUME NEW p \in Pantallas, Arriba(p) \/ Cubrir(p) \/ Toca(p) PROVE Puesta'
  BY <1>7, ArribaPuesta, TocaPuesta
<1>8. ASSUME NEW l \in llamadas, Responde(l) PROVE Puesta'
  BY <1>8, RespondePuesta
<1> QED BY <1>2, <1>3, <1>4, <1>5, <1>6, <1>7, <1>8 DEF Next

LEMMA NextValores == SInv /\ ValoresInv /\ [Next]_vars => ValoresInv'
<1> SUFFICES ASSUME SInv, ValoresInv, [Next]_vars PROVE ValoresInv'
  OBVIOUS
<1>1. CASE Caida
  BY <1>1, CaidaValores
<1>2. CASE UNCHANGED vars
  BY <1>2 DEF vars, sesion, firestore, ValoresInv
<1>3. ASSUME NEW e, Muestra(e) PROVE ValoresInv'
  BY <1>3 DEF Muestra, sesion, firestore, ValoresInv
<1>4. CASE Lanzar
  BY <1>3, <1>4 DEF Lanzar
<1>5. CASE Descartar \/ EnLinea
  BY <1>1, <1>5 DEF Descartar, EnLinea
<1>6. CASE LlegaPerfil \/ Aplica
  BY <1>6 DEF LlegaPerfil, Aplica, firestore, sesion, ValoresInv
<1>7. ASSUME NEW p \in Pantallas, Arriba(p) PROVE ValoresInv'
  <2> DEFINE e == [Detiene(Ahora, {q \in Pantallas : pant[q].fase = "activa"})
                      EXCEPT !.pant[p].fase = "activa"]
  <2>1. CreaMenu(e, p) \/ Muestra(OnStart(e, p)) \/ Muestra(e)
    BY <1>7 DEF Arriba
  <2> HIDE DEF e
  <2> QED BY <1>1, <1>3, <2>1 DEF CreaMenu
<1>8. ASSUME NEW p \in Pantallas, Cubrir(p) \/ Atras(p) PROVE ValoresInv'
  BY <1>3, <1>8 DEF Cubrir, Atras
<1>9. ASSUME NEW p \in Pantallas, NEW x, AbrirFormulario(p, x) \/ IniciarSesion(p, x)
                                         \/ CrearUsuario(p, x)
      PROVE  ValoresInv'
  BY <1>3, <1>9 DEF AbrirFormulario, IniciarSesion, CrearUsuario
<1>10. ASSUME NEW p \in Pantallas, NEW u, HandleFacebookAccessToken(p, u) PROVE ValoresInv'
  BY <1>10 DEF HandleFacebookAccessToken, firestore, ValoresInv
<1>11. ASSUME NEW p \in Pantallas, Paga(p) \/ Salir(p) PROVE ValoresInv'
  BY <1>11 DEF Paga, Salir, sesion, firestore, ValoresInv
<1>12. ASSUME NEW l \in llamadas, Responde(l) PROVE ValoresInv'
  <2>1. l.u \in Usuarios
    BY DEF SInv, LlamadasInv, Llamadas
  <2>2. CASE Entra(l) \/ Crea(l)
    BY <2>2 DEF Entra, Crea, firestore, ValoresInv
  <2>3. CASE Falla(l) \/ PerfilLeido(l) \/ PerfilSinRed(l)
    BY <2>1, <2>3 DEF Falla, PerfilLeido, PerfilSinRed, sesion, ValoresInv
  <2>4. CASE CuentaLeida(l)
    BY <1>1, <2>1, <2>4 DEF CuentaLeida, sesion, ValoresInv
  <2>5. CASE Mostrar(l)
    BY <1>1, <1>3, <2>5 DEF Mostrar
  <2> QED BY <1>12, <2>2, <2>3, <2>4, <2>5 DEF Responde
<1> QED BY <1>2, <1>4, <1>5, <1>6, <1>7, <1>8, <1>9, <1>10, <1>11, <1>12 DEF Next, Toca

LEMMA SpecPila == Spec => [](SInv /\ PilaInv)
<1>1. SInv /\ PilaInv /\ [Next]_vars => (SInv /\ PilaInv)'
  BY NextInv, NextPuesta, NextValores DEF PilaInv
<1> QED BY InitInv, InitPila, <1>1, PTL DEF Spec

(* TipoSesion: over every order of the answers, the screens that open and     *)
(* close meanwhile and the ends of the application, nothing is asked for a    *)
(* null user, and the stack holds open screens, each once (startActivity,     *)
(* finish and onCreate of the menu, TransisionActivity:110).                  *)
THEOREM TipoSiempreSesion == Spec => []TipoSesion
<1>1. SInv /\ PilaInv => TipoSesion
  BY DEF SInv, SesionTipo, LlamadasInv, PilaInv, Puesta, Abiertas, ValoresInv, Pila, TipoSesion
<1> QED BY SpecPila, <1>1, PTL

(* InicioSinSesion: whoever is signed in is never left at the first screen,   *)
(* whichever answer signed them in and whichever screen they came back from   *)
(* (onStart and firebaseAuthListener, MainActivity:87-95, 229-243).           *)
THEOREM SiempreInicioSinSesion == Spec => []InicioSinSesion
<1>1. ASSUME Puesta, NEW p \in Pantallas, EsDe(p, "main") PROVE actual = Nada
  <2>1. pila \in Seq(Pantallas) /\ pila # <<>> /\ pila[Len(pila)] = p
    BY <1>1 DEF EsDe, EnPantalla, Sec!Last, Puesta, Abiertas
  <2>2. Len(pila) \in DOMAIN pila
    BY <2>1
  <2>3. p \in Pila(pila)
    BY <2>1, <2>2 DEF Pila
  <2> QED BY <1>1, <2>3 DEF EsDe, EnPantalla, Puesta, SinInicio, Ahora
<1>2. PilaInv => InicioSinSesion
  BY <1>1 DEF PilaInv, InicioSinSesion
<1> QED BY SpecPila, <1>2, PTL
=============================================================================
