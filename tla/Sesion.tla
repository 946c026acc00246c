-------------------------------- MODULE Sesion --------------------------------
(* MainActivity, LoginActivity and RegistoActivity, and of the menu what      *)
(* opens, reads the account and signs out: how the user of a phone signs in,  *)
(* registers, and comes to have an account.  Firebase Auth, Firestore, the    *)
(* Facebook SDK and the stack of screens are modelled from how those          *)
(* activities use them.  A call that a screen posts to itself is taken with   *)
(* what posts it, and so is the callback of an answer with the answer.        *)
EXTENDS Integers, Sequences, FiniteSets
Sec == INSTANCE SequencesExt

CONSTANTS
    Correo,         \* the users with an e-mail address
    Facebook,       \* the users of Facebook
    ConCuenta,      \* the users that exist, with an account, at first
    Nada,           \* no user, no screen
    MaxPantallas,   \* bound: screens, numbered as they are opened
    MaxPuntos,      \* bound: points of an account
    MaxPedidos,     \* bound: requests to sign in or register, at once
    MaxCola,        \* bound: writes of games queued after others
    MaxCaidas       \* bound: times the application ends and is opened again

Usuarios == Correo \cup Facebook
Pantallas == 1..MaxPantallas

ASSUME CorreoAssumption == Correo \cap Facebook = {} /\ ConCuenta \subseteq Usuarios
ASSUME CotasSesionAssumption ==
    /\ MaxPantallas \in Nat /\ MaxPuntos \in Nat \ {0} /\ MaxPedidos \in Nat
    /\ MaxCola \in Nat /\ MaxCaidas \in Nat
ASSUME NadaSesionAssumption == Nada \notin Usuarios \cup Nat

SinCuenta == -1

-----------------------------------------------------------------------------
(* A screen.  One that is over another that has not been created yet is       *)
(* created first; one that has been finished is active until it is stopped.   *)
Nombres == {"main", "login", "registro", "menu"}
FasesPantalla == {"fuera", "porCrear", "activa", "detenida", "fin"}
RegistrosPantalla ==
    [nombre : Nombres \cup {Nada}, fase : FasesPantalla, uid : Usuarios \cup {Nada},
     leida : BOOLEAN]
SinAbrir == [nombre |-> Nada, fase |-> "fuera", uid |-> Nada, leida |-> FALSE]

(* The calls not yet answered, for a user and by a screen: signing in by      *)
(* e-mail or with the credential of Facebook, creating a user, the account as *)
(* updateUI of MainActivity reads it and as the menu does, and the two        *)
(* seconds of the menu.                                                       *)
Pedidos == {"entrar", "credencial", "crear", "perfil", "cuenta", "espera"}
Llamadas == [pide : Pedidos, u : Usuarios, de : Pantallas \cup {Nada}]

(* The whole-account writes: of a registration, of updateUI of MainActivity,  *)
(* and of a game.                                                             *)
Escrituras == [tipo : {"alta", "facebook", "juego"}, u : Usuarios, puntos : 0..MaxPuntos,
               de : Pantallas \cup {Nada}]

VARIABLES
    actual,         \* getCurrentUser(), or Nada
    token, perfil,  \* Facebook: an access token, and the profile, are there
    creados,        \* the users that exist
    dejados,        \* users created when nobody listened to the answer
    cuentas,        \* cuentas[u]: the points of the account on the server
    copia,          \* the users whose account the phone has read
    pend,           \* the writes the server has not applied
    pila,           \* the stack of screens, the last on top
    pant,           \* pant[p]: the screen p
    llamadas,       \* the calls not yet answered
    caidas          \* times the application has ended (bound)

sesion == <<actual, token, perfil, creados, dejados>>
firestore == <<cuentas, copia, pend>>
pantallas == <<pila, pant, llamadas>>
vars == <<sesion, firestore, pantallas, caidas>>

Init ==
    /\ actual = Nada /\ token = FALSE /\ perfil = FALSE
    /\ creados = ConCuenta /\ dejados = {}
    /\ cuentas = [u \in Usuarios |-> IF u \in ConCuenta THEN 1 ELSE SinCuenta]
    /\ copia = {} /\ pend = <<>>
    /\ pila = <<>> /\ pant = [p \in Pantallas |-> SinAbrir] /\ llamadas = {}
    /\ caidas = 0

-----------------------------------------------------------------------------
(* The screens: e has the fields pila, pant and llamadas. *)
Ahora == [pila |-> pila, pant |-> pant, llamadas |-> llamadas]
Quedan(e) == pila' = e.pila /\ pant' = e.pant /\ llamadas' = e.llamadas

Quita(e, p) == [e EXCEPT !.pila = Sec!RemoveFirst(@, p)]
Pide(e, pide, u, p) == [e EXCEPT !.llamadas = @ \cup {[pide |-> pide, u |-> u, de |-> p]}]

(* startActivity (bound: with no number left, nothing is opened). *)
Libres(e) == {p \in Pantallas : e.pant[p].fase = "fuera"}
Inicia(e, nombre) ==
    IF Libres(e) = {} THEN e
    ELSE LET p == CHOOSE q \in Libres(e) : \A r \in Libres(e) : q <= r
         IN [e EXCEPT !.pila = Append(@, p),
                      !.pant[p] = [@ EXCEPT !.nombre = nombre, !.fase = "porCrear"]]

(* finish() and the menu. *)
AlMenu(e, p) == Inicia(Quita(e, p), "menu")

EnPantalla(p) == pila # <<>> /\ Sec!Last(pila) = p /\ pant[p].fase = "activa"
EsDe(p, nombre) == EnPantalla(p) /\ pant[p].nombre = nombre

(* Screens S are stopped: those finished are destroyed, and the listeners of  *)
(* an answer that are tied to a screen are removed, but not its call.         *)
Detiene(e, S) ==
    [e EXCEPT
        !.pant = [p \in Pantallas |->
            IF p \notin S THEN @[p]
            ELSE [@[p] EXCEPT !.fase = IF \E i \in DOMAIN e.pila : e.pila[i] = p
                                       THEN "detenida" ELSE "fin"]],
        !.llamadas =
            {l \in @ : ~(l.pide = "cuenta" /\ l.de \in S)
                       /\ ~(l.pide \in {"crear", "entrar"} /\ l.de \in S)}
            \cup {[l EXCEPT !.de = Nada] :
                     l \in {x \in @ : x.pide \in {"crear", "entrar"} /\ x.de \in S}}]

(* The application ends: a user that was being created may have been.         *)
Termina ==
    /\ \E S \in SUBSET {l.u : l \in {x \in llamadas : x.pide = "crear"}} :
          creados' = creados \cup S /\ dejados' = dejados \cup (S \ creados)
    /\ pila' = <<>> /\ llamadas' = {}
    /\ pant' = [p \in Pantallas |-> IF pant[p].fase = "fuera" THEN pant[p]
                                    ELSE [SinAbrir EXCEPT !.fase = "fin"]]
    /\ caidas' = caidas + 1
    /\ UNCHANGED <<actual, token, perfil, cuentas, copia>>
ColaPerdida == pend' = <<>>                                 \* mutant of ColaGuardada
(* The writes not yet applied are kept on the phone, but nobody waits.        *)
ColaGuardada == pend' = [i \in DOMAIN pend |-> [pend[i] EXCEPT !.de = Nada]]
Caida == Termina /\ ColaGuardada

-----------------------------------------------------------------------------
(* updateUI of MainActivity for user u: the menu at once, and again when the  *)
(* account of somebody with a Facebook profile is answered for.               *)
UpdateUI(e, p, u) ==
    IF u = Nada THEN e
    ELSE AlMenu(IF token /\ perfil THEN Pide(e, "perfil", u, p) ELSE e, p)

(* onStart: updateUI, and the listener it registers is called at once. *)
OnStart(e, p) == UpdateUI(UpdateUI(e, p, actual), p, actual)

AvisaNadie(e, u) == e                                       \* mutant of Avisa
(* firebaseAuthListener, while MainActivity is started. *)
Avisa(e, u) ==
    LET oyen == {p \in Pantallas : e.pant[p].nombre = "main" /\ e.pant[p].fase = "activa"}
    IN IF oyen = {} THEN e ELSE UpdateUI(e, CHOOSE p \in oyen : TRUE, u)

Muestra(e) == Quedan(e) /\ UNCHANGED <<sesion, firestore, caidas>>

(* onCreate of the menu, for the user signed in; with nobody, a null.         *)
ConUid(e, p) ==
    Pide(Pide([e EXCEPT !.pant[p].uid = actual], "cuenta", actual, p), "espera", actual, p)
CreaMenuSinUsuario(e, p) == Muestra(ConUid(e, p))           \* mutant of CreaMenu
CreaMenu(e, p) ==
    \/ actual = Nada /\ Caida
    \/ actual # Nada /\ Muestra(ConUid(e, p))

(* The screen on top of the stack comes to the screen, created if it has not  *)
(* been, and the others stop.                                                 *)
Arriba(p) ==
    /\ pila # <<>> /\ Sec!Last(pila) = p /\ pant[p].fase # "activa"
    /\ LET activas == {q \in Pantallas : pant[q].fase = "activa"}
           e == [Detiene(Ahora, activas) EXCEPT !.pant[p].fase = "activa"]
       IN CASE pant[p].nombre = "menu" /\ pant[p].fase = "porCrear" -> CreaMenu(e, p)
            [] pant[p].nombre = "main" -> Muestra(OnStart(e, p))
            [] OTHER -> Muestra(e)

(* Another application covers this one. *)
Cubrir(p) ==
    /\ EnPantalla(p)
    /\ Muestra(Detiene(Ahora, {p}))

(* The player dismisses the application while it is covered. *)
Descartar ==
    /\ pila # <<>> /\ \A p \in Pantallas : pant[p].fase # "activa"
    /\ Caida

Lanzar ==
    /\ pila = <<>> /\ \A p \in Pantallas : pant[p].fase # "activa"
    /\ caidas <= MaxCaidas
    /\ Muestra(Inicia(Ahora, "main"))

(* The back key: that of the menu finishes the screens below it too. *)
Atras(p) ==
    /\ EnPantalla(p)
    /\ LET e == IF pant[p].nombre = "menu" THEN [Ahora EXCEPT !.pila = <<>>]
                                           ELSE Quita(Ahora, p)
           abiertas == {q \in Pantallas : pant[q].fase \notin {"fuera", "fin"}}
       IN Muestra(IF e.pila = <<>> THEN Detiene(e, abiertas) ELSE e)

-----------------------------------------------------------------------------
(* The buttons of the first screen.  The Facebook button leaves an access     *)
(* token whatever Firebase then says of the credential.                       *)
AbrirFormulario(p, nombre) ==
    /\ EsDe(p, "main")
    /\ nombre \in {"login", "registro"}
    /\ Muestra(Inicia(Ahora, nombre))

PuedePedir ==
    Cardinality({l \in llamadas : l.pide \in {"entrar", "credencial", "crear"}}) < MaxPedidos

HandleFacebookAccessToken(p, u) ==
    /\ EsDe(p, "main")
    /\ u \in Facebook /\ ~token /\ PuedePedir
    /\ token' = TRUE
    /\ Quedan(Pide(Ahora, "credencial", u, Nada))
    /\ UNCHANGED <<actual, perfil, creados, dejados, firestore, caidas>>

(* fetchProfileForCurrentAccessToken, also asked for by the sign-in itself. *)
LlegaPerfil ==
    /\ token /\ ~perfil
    /\ perfil' = TRUE
    /\ UNCHANGED <<actual, token, creados, dejados, firestore, pantallas, caidas>>

IniciarSesion(p, u) ==
    /\ EsDe(p, "login")
    /\ u \in Correo /\ PuedePedir
    /\ Muestra(Pide(Ahora, "entrar", u, p))

(* The form is hidden until the answer. *)
CrearUsuario(p, u) ==
    /\ EsDe(p, "registro")
    /\ u \in Correo /\ PuedePedir
    /\ ~\E l \in llamadas : l.pide = "crear" /\ l.de = p
    /\ Muestra(Pide(Ahora, "crear", u, p))

Sin(l) == [Ahora EXCEPT !.llamadas = @ \ {l}]

(* signInWithEmailAndPassword and signInWithCredential succeed. *)
Entra(l) ==
    /\ l.pide \in {"entrar", "credencial"}
    /\ l.pide = "entrar" => l.u \in creados
    /\ actual' = l.u
    /\ creados' = creados \cup {l.u}
    /\ Quedan(LET e == Avisa(Sin(l), l.u) IN IF l.de = Nada THEN e ELSE AlMenu(e, l.de))
    /\ UNCHANGED <<token, perfil, dejados, firestore, caidas>>

Encola(tipo, u, puntos, p) ==
    pend' = Append(pend, [tipo |-> tipo, u |-> u, puntos |-> puntos, de |-> p])

(* createUserWithEmailAndPassword succeeds: updateUI sets a new account.      *)
Crea(l) ==
    /\ l.pide = "crear" /\ l.u \notin creados
    /\ actual' = l.u
    /\ creados' = creados \cup {l.u}
    /\ Quedan(Avisa(Sin(l), l.u))
    /\ IF l.de = Nada THEN dejados' = dejados \cup {l.u} /\ UNCHANGED pend
       ELSE Encola("alta", l.u, 0, l.de) /\ UNCHANGED dejados
    /\ UNCHANGED <<token, perfil, cuentas, copia, caidas>>

RechazadaConActual(l) ==                                    \* mutant of Rechazada
    IF l.pide = "crear" /\ l.de # Nada /\ actual # Nada
    THEN Encola("alta", actual, 0, l.de) ELSE UNCHANGED pend
(* updateUI(null) *)
Rechazada(l) == UNCHANGED pend

(* Any of the three fails: an address in use, a password, the network. *)
Falla(l) ==
    /\ l.pide \in {"entrar", "credencial", "crear"}
    /\ Quedan(Sin(l))
    /\ Rechazada(l)
    /\ UNCHANGED <<sesion, cuentas, copia, caidas>>

-----------------------------------------------------------------------------
(* What the phone sees of an account: its own last write, or the server's.    *)
Suyas(u) == {i \in DOMAIN pend : pend[i].u = u}
Ultima(u) == CHOOSE i \in Suyas(u) : \A k \in Suyas(u) : k <= i
Ve(u) == IF Suyas(u) = {} THEN cuentas[u] ELSE pend[Ultima(u)].puntos
Guardada(u) == u \in copia \/ Suyas(u) # {}

(* The account updateUI of MainActivity asked for is answered, be it there or *)
(* not.                                                                       *)
PerfilLeido(l) ==
    /\ l.pide = "perfil"
    /\ Quedan(AlMenu(Sin(l), l.de))
    /\ copia' = IF Ve(l.u) = SinCuenta THEN copia ELSE copia \cup {l.u}
    /\ UNCHANGED <<sesion, cuentas, pend, caidas>>

(* It is not, there being no network nor a copy: a new account is set.        *)
PerfilSinRed(l) ==
    /\ l.pide = "perfil"
    /\ ~Guardada(l.u)
    /\ Encola("facebook", l.u, 0, l.de)
    /\ Quedan(Sin(l))
    /\ UNCHANGED <<sesion, cuentas, copia, caidas>>

(* getnombrePuntos: a document that is not there has no name.                 *)
CuentaLeida(l) ==
    /\ l.pide = "cuenta"
    /\ \/ Ve(l.u) = SinCuenta /\ Caida
       \/ /\ Ve(l.u) # SinCuenta
          /\ Quedan([Sin(l) EXCEPT !.pant[l.de].leida = TRUE])
          /\ copia' = copia \cup {l.u}
          /\ UNCHANGED <<sesion, cuentas, pend, caidas>>

(* Two seconds after the menu was created its points are shown. *)
Mostrar(l) ==
    /\ l.pide = "espera"
    /\ \/ ~pant[l.de].leida /\ Caida
       \/ /\ pant[l.de].leida
          /\ Muestra(Sin(l))

(* A change of the players online: the list of the menu asks who is signed    *)
(* in, though the menu is gone.                                               *)
EnLinea ==
    /\ actual = Nada
    /\ \E p \in Pantallas : pant[p].nombre = "menu" /\ pant[p].uid # Nada
    /\ Caida

(* A game opened from the menu pays into the account. *)
Paga(p) ==
    /\ EsDe(p, "menu")
    /\ actual # Nada /\ Ve(actual) \in 0..(MaxPuntos - 1)
    /\ Len(pend) < MaxCola
    /\ Encola("juego", actual, Ve(actual) + 1, Nada)
    /\ UNCHANGED <<sesion, cuentas, copia, pantallas, caidas>>

(* The server applies the oldest write; whoever waits for it opens the menu.  *)
Aplica ==
    /\ pend # <<>>
    /\ LET w == Head(pend)
       IN /\ cuentas' = [cuentas EXCEPT ![w.u] = w.puntos]
          /\ Quedan(IF w.de = Nada THEN Ahora ELSE AlMenu(Ahora, w.de))
    /\ pend' = Tail(pend)
    /\ UNCHANGED <<sesion, copia, caidas>>

(* signOut, and the first screen in the place of the menu. *)
Salir(p) ==
    /\ EsDe(p, "menu")
    /\ actual' = Nada /\ token' = FALSE /\ perfil' = FALSE
    /\ Quedan(Quita(Inicia(Ahora, "main"), p))
    /\ UNCHANGED <<creados, dejados, firestore, caidas>>

-----------------------------------------------------------------------------
Responde(l) ==
    \/ Entra(l) \/ Crea(l) \/ Falla(l)
    \/ PerfilLeido(l) \/ PerfilSinRed(l) \/ CuentaLeida(l) \/ Mostrar(l)

Toca(p) ==
    \/ Atras(p) \/ \E nombre \in Nombres : AbrirFormulario(p, nombre)
    \/ \E u \in Usuarios : \/ HandleFacebookAccessToken(p, u) \/ IniciarSesion(p, u)
                           \/ CrearUsuario(p, u)
    \/ Paga(p) \/ Salir(p)

Next ==
    \/ Lanzar \/ Descartar \/ LlegaPerfil \/ EnLinea \/ Aplica
    \/ \E p \in Pantallas : Arriba(p) \/ Cubrir(p) \/ Toca(p)
    \/ \E l \in llamadas : Responde(l)

Spec == Init /\ [][Next]_vars

-----------------------------------------------------------------------------
(* Every variable holds a value of its kind: no menu is without a user, and   *)
(* the stack holds screens that are open, each once (onCreate of the menu,    *)
(* TransisionActivity:110).                                                   *)
TipoSesion ==
    /\ actual \in Usuarios \cup {Nada} /\ token \in BOOLEAN /\ perfil \in BOOLEAN
    /\ creados \subseteq Usuarios /\ dejados \subseteq creados /\ copia \subseteq Usuarios
    /\ cuentas \in [Usuarios -> -1..MaxPuntos]
    /\ pend \in Seq(Escrituras)
    /\ pila \in Seq(Pantallas) /\ Sec!IsInjective(pila)
    /\ pant \in [Pantallas -> RegistrosPantalla]
    /\ \A i \in DOMAIN pila : pant[pila[i]].fase \notin {"fuera", "fin"}
    /\ llamadas \subseteq Llamadas
    /\ caidas \in Nat

(* Whoever is signed in is not left at the first screen, however late the     *)
(* answer that signed them in, and through whichever screen they came back to *)
(* it (onStart and firebaseAuthListener, MainActivity:87-95, 229-243).        *)
InicioSinSesion == \A p \in Pantallas : EsDe(p, "main") => actual = Nada

(* A user of an e-mail address has an account, or its creation is on its way, *)
(* unless nobody listened when the user was created: over lost and late       *)
(* answers, screens left and the end of the application between the creation  *)
(* of the user and that of the account (RegistoActivity:72-121).              *)
CuentaOEnCamino ==
    \A u \in (creados \cap Correo) \ dejados :
        cuentas[u] # SinCuenta \/ Suyas(u) # {}

(* An account loses points only where a Facebook profile was there and the    *)
(* account could not be read: no registration, late or failed, starts the     *)
(* account of somebody else again, nor does a game pay from before one        *)
(* (updateUI of MainActivity:194-206 and of RegistoActivity:104-121).         *)
SoloFacebookReinicia ==
    [][\A u \in Usuarios : cuentas'[u] < cuentas[u] => Head(pend).tipo = "facebook"]_vars
=============================================================================
