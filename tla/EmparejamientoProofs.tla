------------------------ MODULE EmparejamientoProofs ------------------------
(* The theorems of matchmaking, for any players and any bounds: its types,    *)
(* and that it implements Sala.  What the second rests on is an invariant of  *)
(* the writes the phones have queued: every one keeps the host and the        *)
(* invitation the match was created with, a match has only one creation       *)
(* pending, and nothing but a creation leaves a match with no second player.  *)
EXTENDS Emparejamiento, TLAPS, SequenceTheorems, FiniteSetTheorems

-----------------------------------------------------------------------------
(* The searches.  One that was opened has a player. *)
Firme(a) == a.fase # "fuera" => a.quien \in Clientes
ActInv == /\ act \in [Busquedas -> Actividades]
          /\ \A b \in Busquedas : Firme(act[b])

(* A link to be answered was already there. *)
SinEnlaces == \A b \in Busquedas : act'[b].enlace # Nada => act'[b].enlace = act[b].enlace

LEMMA PasaAct ==
  ASSUME ActInv, NEW b \in Busquedas, NEW a \in Actividades, Firme(a),
         a.enlace # Nada => a.enlace = act[b].enlace, Pasa(b, a)
  PROVE  ActInv' /\ SinEnlaces
<1>1. act' \in [Busquedas -> Actividades]
  BY DEF ActInv, Pasa
<1>2. ASSUME NEW x \in Busquedas
      PROVE  Firme(act'[x]) /\ (act'[x].enlace # Nada => act'[x].enlace = act[x].enlace)
  BY <1>2 DEF ActInv, Pasa
<1> QED BY <1>1, <1>2 DEF ActInv, SinEnlaces

LEMMA CerradaTipo == Cerrada \in Actividades /\ Cerrada.enlace = Nada /\ Cerrada.fase = "fuera"
BY DEF Cerrada, Actividades, FasesBusqueda

LEMMA AbiertaTipo ==
  ASSUME NEW c \in Clientes
  PROVE  /\ Abierta(c) \in Actividades /\ Abierta(c).enlace = Nada
         /\ Abierta(c).quien = c /\ Abierta(c).fase = "activa"
<1> DEFINE z == Cerrada
<1>1. z \in Actividades /\ z.enlace = Nada
  BY CerradaTipo
<1>2. Abierta(c) = [z EXCEPT !.fase = "activa", !.quien = c]
  BY DEF Abierta
<1> HIDE DEF z
<1> QED BY <1>1, <1>2 DEF Actividades, FasesBusqueda

LEMMA CaidaAct ==
  ASSUME ActInv, NEW b \in Busquedas, Viva(b), Caida(b)
  PROVE  ActInv' /\ SinEnlaces
<1>1. ASSUME NEW x \in Busquedas
      PROVE  /\ act'[x] \in Actividades /\ Firme(act'[x])
             /\ act'[x].enlace # Nada => act'[x].enlace = act[x].enlace
  <2> DEFINE z == Cerrada
             q == act[b].quien
             v == act[x].abiertas
             y == [z EXCEPT !.fase = "caida", !.quien = q, !.abiertas = v]
  <2>1. z \in Actividades /\ z.enlace = Nada
    BY CerradaTipo
  <2>2. act[x] \in Actividades /\ Firme(act[x]) /\ q \in Clientes /\ v \in SUBSET Partidas
    BY <1>1 DEF ActInv, Firme, Viva, Actividades
  <2>3. act'[x] = IF act[x].quien # q THEN act[x] ELSE y
    BY <1>1 DEF Caida
  <2> HIDE DEF z, q, v
  <2>4. y \in Actividades /\ y.quien = q /\ y.enlace = Nada
    BY <2>1, <2>2 DEF Actividades, FasesBusqueda
  <2> HIDE DEF y
  <2> QED BY <2>2, <2>3, <2>4 DEF Firme
<1>2. act' \in [Busquedas -> Actividades]
  BY <1>1 DEF Caida
<1> QED BY <1>1, <1>2 DEF ActInv, SinEnlaces

LEMMA StarGameAct ==
  ASSUME ActInv, NEW b \in Busquedas, Viva(b), NEW a \in Actividades, Firme(a),
         a.enlace # Nada => a.enlace = act[b].enlace, StarGame(b, a)
  PROVE  ActInv' /\ SinEnlaces
<1>1. CASE a.jugadaId = Nada /\ Caida(b)
  BY <1>1, CaidaAct
<1>2. CASE a.jugadaId # Nada /\ Pasa(b, Abre(a))
  <2> DEFINE v == a.abiertas \cup {a.jugadaId}
             e == [a EXCEPT !.oye = Nada, !.jugadaId = Nada, !.abiertas = v]
  <2>1. Abre(a) = e
    BY DEF Abre, Actividades
  <2>2. v \in SUBSET Partidas
    BY <1>2 DEF Actividades
  <2> HIDE DEF v
  <2>3. e \in Actividades /\ e.fase = a.fase /\ e.quien = a.quien /\ e.enlace = a.enlace
    BY <2>2 DEF Actividades
  <2> HIDE DEF e
  <2> QED BY <1>2, <2>1, <2>3, PasaAct DEF Firme
<1> QED BY <1>1, <1>2 DEF StarGame

(* The steps that open a search; only that of a link leaves a link to answer. *)
LEMMA AbrirAct ==
  ASSUME ActInv, NEW b \in Busquedas, NEW c \in Clientes,
         \/ AbrirLibre(b, c)
         \/ \E inv \in Clientes : AbrirInvitando(b, c, inv)
         \/ \E j \in Partidas : AbrirInvitado(b, c, j)
  PROVE  ActInv' /\ SinEnlaces
<1> DEFINE z == Abierta(c)
<1>0. z \in Actividades /\ z.enlace = Nada /\ z.quien = c
  BY AbiertaTipo
<1>1. CASE AbrirLibre(b, c)
  <2> DEFINE a == [z EXCEPT !.consulta = TRUE]
  <2>1. Pasa(b, a)
    BY <1>1 DEF AbrirLibre
  <2> HIDE DEF z
  <2>2. a \in Actividades /\ a.quien = c /\ a.enlace = Nada
    BY <1>0 DEF Actividades
  <2> HIDE DEF a
  <2> QED BY <2>1, <2>2, PasaAct DEF Firme
<1>2. ASSUME NEW inv \in Clientes, AbrirInvitando(b, c, inv) PROVE ActInv' /\ SinEnlaces
  <2> DEFINE v == (inv = c)
             a == [z EXCEPT !.crearInv = v]
  <2>1. Pasa(b, a) /\ v \in BOOLEAN
    BY <1>2 DEF AbrirInvitando
  <2> HIDE DEF z, v
  <2>2. a \in Actividades /\ a.quien = c /\ a.enlace = Nada
    BY <1>0, <2>1 DEF Actividades
  <2> HIDE DEF a
  <2> QED BY <2>1, <2>2, PasaAct DEF Firme
<1>3. ASSUME NEW j \in Partidas, AbrirInvitado(b, c, j) PROVE ActInv' /\ SinEnlaces
  <2> DEFINE a == [z EXCEPT !.jugadaId = j]
  <2>1. Pasa(b, a)
    BY <1>3 DEF AbrirInvitado
  <2> HIDE DEF z
  <2>2. a \in Actividades /\ a.quien = c /\ a.enlace = Nada
    BY <1>0 DEF Actividades
  <2> HIDE DEF a
  <2> QED BY <2>1, <2>2, PasaAct DEF Firme
<1> QED BY <1>1, <1>2, <1>3

LEMMA AbrirEnlaceAct ==
  ASSUME ActInv, NEW b \in Busquedas, NEW c \in Clientes, NEW j \in Partidas,
         AbrirEnlace(b, c, j)
  PROVE  /\ ActInv'
         /\ \A x \in Busquedas : act'[x].enlace # Nada =>
                act'[x].enlace \in {act[x].enlace, j}
<1> DEFINE z == Abierta(c)
           a == [z EXCEPT !.enlace = j]
<1>1. z \in Actividades /\ z.quien = c
  BY AbiertaTipo
<1>2. Pasa(b, a)
  BY DEF AbrirEnlace
<1> HIDE DEF z
<1>3. a \in Actividades /\ a.quien = c /\ a.enlace = j
  BY <1>1 DEF Actividades
<1> HIDE DEF a
<1>4. act' \in [Busquedas -> Actividades]
  BY <1>2, <1>3 DEF ActInv, Pasa
<1> QED BY <1>2, <1>3, <1>4 DEF ActInv, Pasa, Firme

(* The other steps of a search. *)
LEMMA PasoAct ==
  ASSUME ActInv, NEW b \in Busquedas,
         \/ Enlace(b) \/ NingunaSirve(b)
         \/ \E j \in Partidas, antes \in SUBSET Partidas : Encuentra(b, j, antes)
         \/ \E j \in Partidas : Evento(b, j)
         \/ Empieza(b) \/ Volver(b) \/ \E atras \in BOOLEAN : Parar(b, atras)
  PROVE  ActInv' /\ SinEnlaces
<1> DEFINE z == act[b]
<1>0. z \in Actividades /\ Firme(z)
  BY DEF ActInv
<1>1. CASE Enlace(b)
  <2> DEFINE j == z.enlace
             a == [z EXCEPT !.enlace = Nada, !.jugadaId = j]
  <2>1. Pasa(b, a) /\ j \in Partidas
    BY <1>0, <1>1 DEF Enlace, Actividades
  <2> HIDE DEF z, j
  <2>2. a \in Actividades /\ Firme(a) /\ a.enlace = Nada
    BY <1>0, <2>1 DEF Actividades, Firme
  <2> HIDE DEF a
  <2> QED BY <2>1, <2>2, PasaAct
<1>2. CASE NingunaSirve(b)
  <2> DEFINE a == [z EXCEPT !.consulta = FALSE]
  <2>1. Pasa(b, a)
    BY <1>2 DEF NingunaSirve
  <2>2. a \in Actividades /\ Firme(a) /\ a.enlace = z.enlace
    BY <1>0 DEF Actividades, Firme
  <2> HIDE DEF a
  <2> QED BY <2>1, <2>2, PasaAct
<1>3. ASSUME NEW j \in Partidas, NEW antes \in SUBSET Partidas, Encuentra(b, j, antes)
      PROVE  ActInv' /\ SinEnlaces
  <2> DEFINE a == [z EXCEPT !.consulta = FALSE, !.jugadaId = j]
  <2>1. Pasa(b, a)
    BY <1>3 DEF Encuentra
  <2>2. a \in Actividades /\ Firme(a) /\ a.enlace = z.enlace
    BY <1>0 DEF Actividades, Firme
  <2> HIDE DEF a
  <2> QED BY <2>1, <2>2, PasaAct
<1>4. ASSUME NEW j \in Partidas, Evento(b, j) PROVE ActInv' /\ SinEnlaces
  <2>1. CASE Caida(b)
    BY <1>4, <2>1, CaidaAct DEF Evento
  <2>2. CASE UNCHANGED act
    BY <2>2 DEF ActInv, SinEnlaces
  <2>3. CASE Pasa(b, [z EXCEPT !.puestos = @ + 1])
    <3> DEFINE k == z.puestos + 1
               a == [z EXCEPT !.puestos = k]
    <3>1. Pasa(b, a) /\ k \in Nat
      BY <1>0, <2>3 DEF Actividades
    <3> HIDE DEF k
    <3>2. a \in Actividades /\ Firme(a) /\ a.enlace = z.enlace
      BY <1>0, <3>1 DEF Actividades, Firme
    <3> HIDE DEF a
    <3> QED BY <3>1, <3>2, PasaAct
  <2> QED BY <1>4, <2>1, <2>2, <2>3 DEF Evento
<1>5. CASE Empieza(b)
  <2> DEFINE k == z.puestos - 1
             a == [z EXCEPT !.puestos = k]
  <2>1. Viva(b) /\ StarGame(b, a) /\ k \in Nat
    BY <1>0, <1>5 DEF Empieza, Actividades
  <2> HIDE DEF k
  <2>2. a \in Actividades /\ Firme(a) /\ a.enlace = z.enlace
    BY <1>0, <2>1 DEF Actividades, Firme
  <2> HIDE DEF a
  <2> QED BY <2>1, <2>2, StarGameAct
<1>6. CASE Volver(b)
  <2> DEFINE a == [z EXCEPT !.fase = "activa", !.volvio = TRUE]
  <2>1. Pasa(b, a) /\ z.quien \in Clientes
    BY <1>0, <1>6 DEF Volver, Firme
  <2>2. a \in Actividades /\ a.quien = z.quien /\ a.enlace = z.enlace
    BY <1>0 DEF Actividades, FasesBusqueda
  <2> HIDE DEF a
  <2> QED BY <2>1, <2>2, PasaAct DEF Firme
<1>7. ASSUME NEW atras \in BOOLEAN, Parar(b, atras) PROVE ActInv' /\ SinEnlaces
  <2> DEFINE v == z.crearInv /\ ~atras
             f == IF z.fase = "activa" /\ ~atras THEN "detenida" ELSE "fin"
             o == IF v THEN z.oye ELSE Nada
             a == [z EXCEPT !.fase = f, !.crearInv = v, !.oye = o, !.enlace = Nada]
  <2>1. Pasa(b, a)
    BY <1>0, <1>7 DEF Parar, Actividades
  <2>2. /\ v \in BOOLEAN /\ f \in FasesBusqueda /\ o \in Partidas \cup {Nada}
        /\ z.quien \in Clientes
    BY <1>0, <1>7 DEF Parar, Actividades, FasesBusqueda, Firme
  <2> HIDE DEF z, v, f, o
  <2>3. a \in Actividades /\ a.quien = z.quien /\ a.enlace = Nada
    BY <1>0, <2>2 DEF Actividades
  <2> HIDE DEF a
  <2> QED BY <2>1, <2>2, <2>3, PasaAct DEF Firme
<1> QED BY <1>1, <1>2, <1>3, <1>4, <1>5, <1>6, <1>7

-----------------------------------------------------------------------------
(* The documents and the queues.  A document is faithful to a match when it   *)
(* has its host and its invitation, and no seat too many for its host.        *)
Fiel(cre, j, d) == /\ cre[j] # Nada /\ d \in Docs
                   /\ d.uno = cre[j].uno /\ d.inv = cre[j].inv
                   /\ d.dos = d.uno => d.inv = d.uno
Buena(cre, sen, c, w) ==
    /\ w.tipo = "add" => /\ sen[w.j] = {} /\ cre[w.j] # Nada
                         /\ w.doc = cre[w.j] /\ w.doc.dos = Nada
    /\ w.tipo \in {"set", "juega"} =>
          sen[w.j] # {} /\ Fiel(cre, w.j, w.doc) /\ w.doc.dos # Nada
    /\ w.tipo \in {"update", "rechazo"} =>
          sen[w.j] # {} /\ (cre[w.j].uno = c => cre[w.j].inv = c)
EsAdd(c, i, j) == i \in 1..Len(pend[c]) /\ pend[c][i].tipo = "add" /\ pend[c][i].j = j

DatosTipo == /\ jugadas \in [Partidas -> Docs \cup {Nada}]
             /\ pend \in [Clientes -> Seq(Escrituras)]
             /\ creadas \in [Partidas -> Docs \cup {Nada}]
             /\ sentados \in [Partidas -> SUBSET Clientes]
DocsInv == \A j \in Partidas :
              /\ sentados[j] # {} => creadas[j] # Nada
              /\ jugadas[j] # Nada => sentados[j] # {} /\ Fiel(creadas, j, jugadas[j])
ColasInv == \A c \in Clientes : \A i \in 1..Len(pend[c]) : Buena(creadas, sentados, c, pend[c][i])
UnAdd == \A j \in Partidas : \A c, d \in Clientes : \A i, k \in Nat :
             EsAdd(c, i, j) /\ EsAdd(d, k, j) => c = d /\ i = k
DatosInv == DatosTipo /\ DocsInv /\ ColasInv /\ UnAdd

(* A step that only creates matches and queues writes that are good, each     *)
(* creation of a match that is new.                                           *)
CreaMas == \A j \in Partidas : creadas[j] # Nada => creadas'[j] = creadas[j]

LEMMA EncolaInv ==
  ASSUME DatosInv, NEW c \in Clientes, NEW ops \in Seq(Escrituras), Encola(c, ops),
         UNCHANGED <<jugadas, sentados>>, CreaMas,
         creadas' \in [Partidas -> Docs \cup {Nada}],
         \A i \in 1..Len(ops) : Buena(creadas', sentados, c, ops[i]),
         \A i \in 1..Len(ops) : ops[i].tipo = "add" => creadas[ops[i].j] = Nada,
         \A i, k \in 1..Len(ops) :
            ops[i].tipo = "add" /\ ops[k].tipo = "add" /\ ops[i].j = ops[k].j => i = k
  PROVE  DatosInv'
<1> USE DEF DatosInv
<1>1. /\ pend[c] \in Seq(Escrituras) /\ Len(pend[c]) \in Nat /\ Len(ops) \in Nat
      /\ pend'[c] = pend[c] \o ops
      /\ \A d \in Clientes : d # c => pend'[d] = pend[d]
  BY DEF DatosTipo, Encola
<1>2. /\ Len(pend'[c]) = Len(pend[c]) + Len(ops)
      /\ \A i \in 1..Len(pend[c]) : pend'[c][i] = pend[c][i]
      /\ \A i \in 1..Len(pend'[c]) : i > Len(pend[c]) =>
            i - Len(pend[c]) \in 1..Len(ops) /\ pend'[c][i] = ops[i - Len(pend[c])]
  BY <1>1
<1>3. DatosTipo'
  BY <1>1 DEF DatosTipo, Encola
<1>4. ASSUME NEW j \in Partidas, NEW d, Fiel(creadas, j, d) PROVE Fiel(creadas', j, d)
  BY <1>4 DEF Fiel, CreaMas
<1>5. DocsInv'
  BY <1>4 DEF DocsInv, CreaMas
<1>6. ASSUME NEW d \in Clientes, NEW w \in Escrituras, Buena(creadas, sentados, d, w)
      PROVE  Buena(creadas', sentados, d, w)
  <2>1. w.j \in Partidas
    BY DEF Escrituras
  <2>2. w.tipo = "add" => Buena(creadas', sentados, d, w)
    BY <1>6, <2>1 DEF Buena, CreaMas
  <2>3. w.tipo \in {"set", "juega"} => Buena(creadas', sentados, d, w)
    BY <1>4, <1>6, <2>1 DEF Buena
  <2>4. w.tipo \in {"update", "rechazo"} => Buena(creadas', sentados, d, w)
    BY <1>6, <2>1 DEF Buena, CreaMas, DocsInv
  <2> QED BY <2>2, <2>3, <2>4 DEF Buena
<1>7. ColasInv'
  <2> SUFFICES ASSUME NEW d \in Clientes, NEW i \in 1..Len(pend'[d])
               PROVE  Buena(creadas', sentados, d, pend'[d][i])
    BY DEF ColasInv
  <2>1. CASE d # c
    BY <1>1, <1>6, <2>1 DEF ColasInv, DatosTipo
  <2>2. CASE d = c /\ i \in 1..Len(pend[c])
    BY <1>1, <1>2, <1>6, <2>2 DEF ColasInv
  <2>3. CASE d = c /\ i > Len(pend[c])
    BY <1>2, <2>3
  <2> QED BY <1>1, <2>1, <2>2, <2>3
<1>8. UnAdd'
  <2> SUFFICES ASSUME NEW j \in Partidas, NEW d \in Clientes, NEW e \in Clientes,
                      NEW i \in Nat, NEW k \in Nat, EsAdd(d, i, j)', EsAdd(e, k, j)'
               PROVE  d = e /\ i = k
    BY DEF UnAdd
  <2> DEFINE Antes(x, m) == x # c \/ m <= Len(pend[c])
  <2>1. ASSUME NEW x \in Clientes, NEW m \in Nat, EsAdd(x, m, j)'
        PROVE  IF Antes(x, m) THEN EsAdd(x, m, j) /\ creadas[j] # Nada
               ELSE x = c /\ m - Len(pend[c]) \in 1..Len(ops)
                    /\ ops[m - Len(pend[c])].tipo = "add"
                    /\ ops[m - Len(pend[c])].j = j /\ creadas[j] = Nada
    <3>1. CASE Antes(x, m)
      <4>1. EsAdd(x, m, j)
        BY <1>1, <1>2, <2>1, <3>1 DEF EsAdd
      <4>2. creadas[j] # Nada
        BY <4>1 DEF EsAdd, ColasInv, Buena
      <4> QED BY <3>1, <4>1, <4>2
    <3>2. CASE ~Antes(x, m)
      <4>1. x = c /\ m > Len(pend[c])
        BY <1>1, <3>2
      <4>2. m \in 1..Len(pend'[c])
        BY <2>1, <4>1 DEF EsAdd
      <4>3. m - Len(pend[c]) \in 1..Len(ops) /\ pend'[c][m] = ops[m - Len(pend[c])]
        BY <1>2, <4>1, <4>2
      <4> QED BY <2>1, <3>2, <4>1, <4>3 DEF EsAdd
    <3> QED BY <3>1, <3>2
  <2>2. CASE Antes(d, i) /\ Antes(e, k)
    BY <2>1, <2>2 DEF UnAdd
  <2>3. CASE ~Antes(d, i) /\ ~Antes(e, k)
    <3>1. i - Len(pend[c]) = k - Len(pend[c]) /\ d = e
      BY <2>1, <2>3
    <3> QED BY <1>1, <3>1
  <2> QED BY <2>1, <2>2, <2>3
<1> QED BY <1>3, <1>5, <1>7, <1>8

-----------------------------------------------------------------------------
(* What the creations of a search queue. *)
LEMMA AddsBuenos ==
  ASSUME DatosInv, NEW k \in Nat, NEW ids \in PorCrear(k), NEW b \in Busquedas,
         NEW doc \in Docs, doc.dos = Nada, Crea(ids, doc), NEW c \in Clientes
  PROVE  LET ops == Adds(b, ids, doc)
         IN /\ ops \in Seq(Escrituras) /\ Len(ops) = k
            /\ \A i \in 1..k : /\ Buena(creadas', sentados, c, ops[i])
                               /\ ops[i].tipo = "add" /\ creadas[ops[i].j] = Nada
            /\ \A i, m \in 1..k : ops[i].j = ops[m].j => i = m
            /\ CreaMas /\ creadas' \in [Partidas -> Docs \cup {Nada}]
<1> DEFINE ops == Adds(b, ids, doc)
<1>1. ids \in [1..k -> SinUsar] /\ DOMAIN ids = 1..k
  BY DEF PorCrear
<1>2. \A i \in 1..k : ids[i] \in Partidas /\ creadas[ids[i]] = Nada
  BY <1>1 DEF SinUsar
<1>3. \A i \in 1..k : ops[i] = [tipo |-> "add", j |-> ids[i], doc |-> doc, de |-> b]
  BY <1>1 DEF Adds
<1>4. ops \in Seq(Escrituras) /\ Len(ops) = k
  <2>1. ops \in [1..k -> Escrituras]
    BY <1>1, <1>2 DEF Adds, Escrituras, Tipos
  <2> QED BY <2>1
<1>5. CreaMas /\ creadas' \in [Partidas -> Docs \cup {Nada}]
  <2>1. ASSUME NEW j \in Partidas
        PROVE  /\ creadas'[j] \in Docs \cup {Nada}
               /\ creadas[j] # Nada => creadas'[j] = creadas[j]
    BY <1>1, <1>2 DEF Crea, DatosInv, DatosTipo
  <2>2. creadas' = [j \in Partidas |-> creadas'[j]]
    BY DEF Crea
  <2> QED BY <2>1, <2>2 DEF CreaMas
<1>6. \A i \in 1..k : creadas'[ids[i]] = doc /\ sentados[ids[i]] = {}
  BY <1>1, <1>2 DEF Crea, DatosInv, DocsInv
<1>7. doc # Nada
  BY NuloDocAssumption
<1>8. \A i \in 1..k : Buena(creadas', sentados, c, ops[i])
  <2> SUFFICES ASSUME NEW i \in 1..k PROVE Buena(creadas', sentados, c, ops[i])
    OBVIOUS
  <2> DEFINE w == ops[i]
  <2>0. w = [tipo |-> "add", j |-> ids[i], doc |-> doc, de |-> b]
    BY <1>3
  <2> HIDE DEF w, ops
  <2>1. w.tipo = "add" /\ w.j = ids[i] /\ w.doc = doc
    BY <2>0
  <2>2. Buena(creadas', sentados, c, w)
    BY <1>6, <1>7, <2>1 DEF Buena
  <2> QED BY <2>2 DEF w
<1>9. ASSUME NEW i \in 1..k, NEW m \in 1..k, ids[i] = ids[m] PROVE i = m
  <2>1. ASSUME NEW x \in 1..k, NEW y \in 1..k, ids[x] = ids[y], x < y PROVE FALSE
    <3>1. x \in 1..(y - 1)
      BY <2>1
    <3>2. ids[x] \in SinUsar /\ ids[x] < ids[y]
      BY <1>1, <2>1, <3>1 DEF PorCrear
    <3>3. ids[x] \in Nat
      BY <1>2 DEF Partidas
    <3> QED BY <2>1, <3>2, <3>3
  <2> QED BY <1>9, <2>1
<1> QED BY <1>2, <1>3, <1>4, <1>5, <1>8, <1>9

LEMMA NuevaTipo ==
  ASSUME NEW c \in Clientes, NEW inv \in Clientes \cup {Nada}
  PROVE  Nueva(c, inv) \in Docs /\ Nueva(c, inv).dos = Nada
BY DEF Nueva, Docs

LEMMA LibresFinito ==
  ASSUME DatosInv, NEW c \in Clientes, NEW antes \in SUBSET Partidas
  PROVE  Cardinality(antes) \in Nat /\ Cardinality(Libres(c)) \in Nat
<1>1. IsFiniteSet(Partidas)
  BY FS_Interval, CotasBusquedaAssumption DEF Partidas
<1>2. Libres(c) \subseteq Partidas
  <2>1. \A i \in 1..Len(pend[c]) : pend[c][i].j \in Partidas
    <3>1. pend[c] \in Seq(Escrituras)
      BY DEF DatosInv, DatosTipo
    <3>2. \A i \in 1..Len(pend[c]) : pend[c][i] \in Escrituras
      BY <3>1
    <3> QED BY <3>2 DEF Escrituras
  <2>2. LibresPropias(c) \subseteq Partidas
    BY <2>1 DEF LibresPropias
  <2> QED BY <2>2 DEF Libres, LibresServidor
<1> QED BY <1>1, <1>2, FS_Subset, FS_CardinalityType

(* One write that is good and creates nothing. *)
LEMMA EncolaUna ==
  ASSUME DatosInv, NEW c \in Clientes, NEW w \in Escrituras, w.tipo # "add",
         Buena(creadas, sentados, c, w), Encola(c, <<w>>),
         UNCHANGED <<jugadas, sentados, creadas>>
  PROVE  DatosInv'
<1> DEFINE ops == <<w>>
<1>1. ops \in Seq(Escrituras) /\ Len(ops) = 1 /\ \A i \in 1..Len(ops) : ops[i] = w
  OBVIOUS
<1>2. CreaMas /\ creadas' \in [Partidas -> Docs \cup {Nada}]
  BY DEF CreaMas, DatosInv, DatosTipo
<1>3. Encola(c, ops)
  OBVIOUS
<1> HIDE DEF ops
<1> QED BY <1>1, <1>2, <1>3, EncolaInv

(* Only creations. *)
LEMMA EncolaAdds ==
  ASSUME DatosInv, NEW c \in Clientes, NEW k \in Nat, NEW ids \in PorCrear(k),
         NEW b \in Busquedas, NEW doc \in Docs, doc.dos = Nada, Crea(ids, doc),
         Encola(c, Adds(b, ids, doc)), UNCHANGED <<jugadas, sentados>>
  PROVE  DatosInv' /\ CreaMas
<1> DEFINE ops == Adds(b, ids, doc)
<1>1. /\ ops \in Seq(Escrituras) /\ Len(ops) = k
      /\ \A i \in 1..k : /\ Buena(creadas', sentados, c, ops[i])
                         /\ ops[i].tipo = "add" /\ creadas[ops[i].j] = Nada
      /\ \A i, m \in 1..k : ops[i].j = ops[m].j => i = m
      /\ CreaMas /\ creadas' \in [Partidas -> Docs \cup {Nada}]
  BY AddsBuenos
<1>2. Encola(c, ops)
  OBVIOUS
<1> HIDE DEF ops
<1> QED BY <1>1, <1>2, EncolaInv

-----------------------------------------------------------------------------
EnlaceInv == \A b \in Busquedas : act[b].enlace # Nada =>
                LET j == act[b].enlace
                IN sentados[j] # {} /\ creadas[j].inv = creadas[j].uno
Inv == /\ ActInv /\ DatosInv /\ EnlaceInv
       /\ debe \in [Busquedas -> SUBSET Partidas] /\ extras \in Nat

LEMMA EnlaceSigue ==
  ASSUME Inv, SinEnlaces, CreaMas, \A j \in Partidas : sentados[j] # {} => sentados'[j] # {}
  PROVE  EnlaceInv'
<1> SUFFICES ASSUME NEW b \in Busquedas, act'[b].enlace # Nada
             PROVE  /\ sentados'[act'[b].enlace] # {}
                    /\ creadas'[act'[b].enlace].inv = creadas'[act'[b].enlace].uno
  BY DEF EnlaceInv
<1> DEFINE j == act[b].enlace
<1>1. act'[b].enlace = j /\ j # Nada
  BY DEF SinEnlaces
<1>2. j \in Partidas
  BY <1>1 DEF Inv, ActInv, Actividades
<1>3. sentados[j] # {} /\ creadas[j].inv = creadas[j].uno /\ creadas[j] # Nada
  BY <1>1, <1>2 DEF Inv, EnlaceInv, DatosInv, DocsInv
<1> QED BY <1>1, <1>2, <1>3 DEF CreaMas

LEMMA AvisosTipo ==
  ASSUME NEW nuevos \in [Busquedas -> SUBSET Partidas], Avisos(nuevos)
  PROVE  debe' \in [Busquedas -> SUBSET Partidas]
BY DEF Avisos

-----------------------------------------------------------------------------
(* The server's step, taken apart: which document it leaves.  The invariant   *)
(* says what that is for each kind of write, and Sala what it means.          *)
LEMMA SeqCola ==
  ASSUME NEW q \in Seq(Escrituras), q # <<>>
  PROVE  /\ Head(q) \in Escrituras /\ Head(q) = q[1] /\ 1 \in 1..Len(q)
         /\ Tail(q) \in Seq(Escrituras) /\ Len(q) \in Nat
         /\ \A i \in 1..Len(Tail(q)) : i + 1 \in 1..Len(q) /\ Tail(q)[i] = q[i + 1]
OBVIOUS

LEMMA AplicaDoc ==
  ASSUME Inv, NEW c \in Clientes, pend[c] # <<>>,
         NEW w, w = Head(pend[c]), NEW d, d = Tras(c, w, jugadas[w.j])
  PROVE  /\ w \in Escrituras /\ w.j \in Partidas /\ d \in Docs \cup {Nada}
         /\ Asientos(d) \in SUBSET Clientes
         /\ d # Nada => Fiel(creadas, w.j, d) /\ Asientos(d) # {}
         /\ d # Nada => \/ w.tipo = "add" /\ d = creadas[w.j] /\ d.dos = Nada
                           /\ sentados[w.j] = {}
                        \/ w.tipo # "add" /\ d.dos # Nada /\ sentados[w.j] # {}
         /\ w.tipo = "add" => d # Nada
         /\ w.tipo # "add" => sentados[w.j] # {} \/ w.tipo = "delete"
<1>1. pend[c] \in Seq(Escrituras)
  BY DEF Inv, DatosInv, DatosTipo
<1>2. w \in Escrituras /\ w = pend[c][1] /\ 1 \in 1..Len(pend[c])
  BY <1>1, SeqCola
<1>3. /\ w.j \in Partidas /\ w.tipo \in Tipos /\ w.doc \in Docs \cup {Nada}
      /\ Buena(creadas, sentados, c, w)
  BY <1>2 DEF Escrituras, Inv, DatosInv, ColasInv
<1> DEFINE o == jugadas[w.j]
<1>4. /\ o \in Docs \cup {Nada} /\ creadas[w.j] \in Docs \cup {Nada}
      /\ o # Nada => sentados[w.j] # {} /\ Fiel(creadas, w.j, o)
  BY <1>3 DEF Inv, DatosInv, DatosTipo, DocsInv
<1> HIDE DEF o
<1>5. CASE w.tipo = "add"
  <2>1. d = w.doc
    BY <1>5 DEF Tras, o
  <2>2. d = creadas[w.j] /\ d \in Docs /\ d.dos = Nada /\ sentados[w.j] = {}
    BY <1>3, <1>4, <1>5, <2>1 DEF Buena
  <2>3. Fiel(creadas, w.j, d) /\ d.uno \in Clientes /\ d.uno # Nada
    BY <2>2, NadaAssumption, NuloDocAssumption DEF Fiel, Docs
  <2>4. Asientos(d) \in SUBSET Clientes /\ Asientos(d) # {} /\ d # Nada
    BY <2>2, <2>3, NuloDocAssumption DEF Asientos, Docs
  <2> QED BY <1>2, <1>3, <1>5, <2>2, <2>3, <2>4
<1>6. CASE w.tipo \in {"set", "juega"}
  <2>1. d = w.doc
    BY <1>6 DEF Tras, o
  <2>2. d \in Docs /\ d.dos # Nada /\ sentados[w.j] # {} /\ Fiel(creadas, w.j, d)
    BY <1>3, <1>6, <2>1 DEF Buena, Fiel
  <2>3. d.uno \in Clientes /\ d.uno # Nada /\ d.dos \in Clientes
    BY <2>2, NadaAssumption DEF Docs
  <2>4. Asientos(d) \in SUBSET Clientes /\ (d # Nada => Asientos(d) # {})
    BY <2>3 DEF Asientos
  <2> QED BY <1>2, <1>3, <1>6, <2>2, <2>4
<1>7. CASE w.tipo = "delete"
  <2>1. d = Nada
    BY <1>7 DEF Tras, o
  <2> QED BY <1>2, <1>3, <1>7, <2>1 DEF Asientos
<1>8. CASE w.tipo \in {"update", "rechazo"}
  <2>1. d = IF o = Nada THEN Nada ELSE ConSegundo(o, c)
    BY <1>8 DEF Tras, o
  <2>2. sentados[w.j] # {} /\ (creadas[w.j].uno = c => creadas[w.j].inv = c)
    BY <1>3, <1>8 DEF Buena
  <2>3. CASE o = Nada
    BY <1>2, <1>3, <1>8, <2>1, <2>2, <2>3 DEF Asientos
  <2>4. CASE o # Nada
    <3>1. o \in Docs /\ Fiel(creadas, w.j, o)
      BY <1>4, <2>4
    <3>2. d \in Docs /\ d.uno = o.uno /\ d.inv = o.inv /\ d.dos = c /\ c # Nada
      BY <2>1, <2>4, <3>1, NadaAssumption DEF ConSegundo, Docs
    <3>3. Fiel(creadas, w.j, d)
      BY <2>2, <3>1, <3>2 DEF Fiel
    <3>4. Asientos(d) \in SUBSET Clientes /\ Asientos(d) # {}
      <4>1. d # Nada /\ d.uno \in Clientes
        BY <3>2, NuloDocAssumption DEF Docs
      <4> QED BY <3>2, <4>1 DEF Asientos
    <3> QED BY <1>2, <1>3, <1>8, <2>2, <3>2, <3>3, <3>4
  <2> QED BY <2>3, <2>4
<1> QED BY <1>3, <1>5, <1>6, <1>7, <1>8 DEF Tipos

LEMMA AplicaDatos ==
  ASSUME Inv, NEW c \in Clientes, Aplica(c)
  PROVE  DatosInv' /\ \A j \in Partidas : sentados[j] # {} => sentados'[j] # {}
<1> DEFINE w == Head(pend[c])
           d == Tras(c, w, jugadas[w.j])
<1>1. /\ pend[c] # <<>> /\ pend' = [pend EXCEPT ![c] = Tail(@)]
      /\ jugadas' = [jugadas EXCEPT ![w.j] = d]
      /\ sentados' = [sentados EXCEPT ![w.j] = @ \cup Asientos(d)]
      /\ creadas' = creadas
  BY DEF Aplica
<1>2. /\ w \in Escrituras /\ w.j \in Partidas /\ d \in Docs \cup {Nada}
      /\ Asientos(d) \in SUBSET Clientes
      /\ d # Nada => Fiel(creadas, w.j, d) /\ Asientos(d) # {}
      /\ d # Nada => \/ w.tipo = "add" /\ sentados[w.j] = {}
                     \/ w.tipo # "add" /\ d.dos # Nada /\ sentados[w.j] # {}
  BY <1>1, AplicaDoc
<1>3. pend[c] \in Seq(Escrituras)
  BY DEF Inv, DatosInv, DatosTipo
<1>4. /\ w = pend[c][1] /\ 1 \in 1..Len(pend[c]) /\ Len(pend[c]) \in Nat
      /\ Tail(pend[c]) \in Seq(Escrituras)
      /\ \A i \in 1..Len(Tail(pend[c])) :
            i + 1 \in 1..Len(pend[c]) /\ Tail(pend[c])[i] = pend[c][i + 1]
  BY <1>1, <1>3, SeqCola
<1>5. d = Nada => Asientos(d) = {}
  BY DEF Asientos
<1> HIDE DEF w, d
<1>6. DatosTipo'
  BY <1>1, <1>2, <1>4 DEF Inv, DatosInv, DatosTipo
<1>7. /\ \A j \in Partidas : j # w.j => sentados'[j] = sentados[j] /\ jugadas'[j] = jugadas[j]
      /\ sentados'[w.j] = sentados[w.j] \cup Asientos(d) /\ jugadas'[w.j] = d
  BY <1>1, <1>2 DEF Inv, DatosInv, DatosTipo
<1>8. DocsInv'
  <2>1. ASSUME NEW j \in Partidas, j # w.j
        PROVE  /\ sentados'[j] # {} => creadas'[j] # Nada
               /\ jugadas'[j] # Nada => sentados'[j] # {} /\ Fiel(creadas', j, jugadas'[j])
    BY <1>1, <1>7, <2>1 DEF Inv, DatosInv, DocsInv
  <2>2. /\ sentados'[w.j] # {} => creadas'[w.j] # Nada
        /\ jugadas'[w.j] # Nada => sentados'[w.j] # {} /\ Fiel(creadas', w.j, jugadas'[w.j])
    BY <1>1, <1>2, <1>5, <1>7 DEF Inv, DatosInv, DocsInv, Fiel
  <2> QED BY <2>1, <2>2 DEF DocsInv
(* Every write left in a queue was there, one place behind in that of c. *)
<1>9. ASSUME NEW e \in Clientes, NEW i \in 1..Len(pend'[e])
      PROVE  LET m == IF e = c THEN i + 1 ELSE i
             IN m \in 1..Len(pend[e]) /\ pend'[e][i] = pend[e][m] /\ (e = c => m # 1)
  <2>1. CASE e = c
    BY <1>1, <1>4, <1>9, <2>1 DEF Inv, DatosInv, DatosTipo
  <2>2. CASE e # c
    BY <1>1, <1>9, <2>2 DEF Inv, DatosInv, DatosTipo
  <2> QED BY <2>1, <2>2
<1>10. ColasInv'
  <2> SUFFICES ASSUME NEW e \in Clientes, NEW i \in 1..Len(pend'[e])
               PROVE  Buena(creadas', sentados', e, pend'[e][i])
    BY DEF ColasInv
  <2> DEFINE m == IF e = c THEN i + 1 ELSE i
             v == pend[e][m]
  <2>1. m \in 1..Len(pend[e]) /\ pend'[e][i] = v /\ (e = c => m # 1)
    BY <1>9
  <2>2. Buena(creadas, sentados, e, v)
    BY <2>1 DEF Inv, DatosInv, ColasInv
  <2>3. v \in Escrituras
    BY <2>1 DEF Inv, DatosInv, DatosTipo
  <2>4. ~(v.tipo = "add" /\ w.tipo = "add" /\ v.j = w.j)
    <3>1. SUFFICES ASSUME v.tipo = "add" /\ w.tipo = "add" /\ v.j = w.j PROVE FALSE
      OBVIOUS
    <3>2. m \in Nat /\ EsAdd(e, m, w.j) /\ EsAdd(c, 1, w.j)
      BY <1>4, <2>1, <3>1 DEF EsAdd, Inv, DatosInv, DatosTipo
    <3>3. e = c /\ m = 1
      BY <1>2, <3>2 DEF Inv, DatosInv, UnAdd
    <3> QED BY <2>1, <3>3
  <2> HIDE DEF v, m
  <2>5. v.j \in Partidas
    BY <2>3 DEF Escrituras
  <2>6. v.tipo = "add" => sentados'[v.j] = {}
    BY <1>2, <1>5, <1>7, <2>2, <2>4, <2>5 DEF Buena
  <2>7. sentados[v.j] # {} => sentados'[v.j] # {}
    BY <1>7, <2>5
  <2>8. Buena(creadas', sentados', e, v)
    BY <1>1, <2>2, <2>6, <2>7 DEF Buena
  <2> QED BY <2>1, <2>8
<1>11. UnAdd'
  <2> SUFFICES ASSUME NEW j \in Partidas, NEW e \in Clientes, NEW f \in Clientes,
                      NEW i \in Nat, NEW k \in Nat, EsAdd(e, i, j)', EsAdd(f, k, j)'
               PROVE  e = f /\ i = k
    BY DEF UnAdd
  <2> DEFINE m(x, y) == IF x = c THEN y + 1 ELSE y
  <2>1. EsAdd(e, m(e, i), j) /\ EsAdd(f, m(f, k), j)
    BY <1>9 DEF EsAdd
  <2>2. m(e, i) \in Nat /\ m(f, k) \in Nat
    OBVIOUS
  <2>3. e = f /\ m(e, i) = m(f, k)
    BY <2>1, <2>2 DEF Inv, DatosInv, UnAdd
  <2> QED BY <2>3
<1>12. \A j \in Partidas : sentados[j] # {} => sentados'[j] # {}
  BY <1>7
<1> QED BY <1>6, <1>8, <1>10, <1>11, <1>12 DEF DatosInv

-----------------------------------------------------------------------------
LEMMA AplicaAct ==
  ASSUME Inv, NEW c \in Clientes, Aplica(c)
  PROVE  ActInv' /\ SinEnlaces
<1> DEFINE w == Head(pend[c])
           b == w.de
           z == act[b]
<1>1. pend[c] \in Seq(Escrituras) /\ pend[c] # <<>>
  BY DEF Inv, DatosInv, DatosTipo, Aplica
<1>2. w \in Escrituras
  BY <1>1, SeqCola
<1>3. w.j \in Partidas /\ b \in Busquedas \cup {Nada}
  BY <1>2 DEF Escrituras
<1>4. ActInv
  BY DEF Inv
<1>5. \/ SinRespuesta(w)
      \/ b # Nada /\ Viva(b) /\ (Creada(w) \/ Unida(w) \/ YaNoExiste(w) \/ Borrada(w))
  BY DEF Aplica
<1> HIDE DEF w
<1>6. CASE SinRespuesta(w)
  BY <1>4, <1>6 DEF SinRespuesta, ActInv, SinEnlaces
<1>7. CASE b # Nada /\ Viva(b) /\ (Creada(w) \/ Unida(w) \/ YaNoExiste(w) \/ Borrada(w))
  <2>1. b \in Busquedas /\ Viva(b)
    BY <1>3, <1>7
  <2>2. z \in Actividades /\ Firme(z) /\ z.quien \in Clientes
    BY <1>4, <2>1 DEF ActInv, Viva, Firme
  <2>3. CASE Creada(w)
    <3> DEFINE j == w.j
               o == Oye(b)
               a == [z EXCEPT !.jugadaId = j, !.oye = j, !.sueltas = o]
    <3>1. Pasa(b, a)
      BY <2>3 DEF Creada
    <3>2. o \in SUBSET Partidas
      BY <2>2 DEF Oye, Actividades
    <3> HIDE DEF o, j, z
    <3>3. a \in Actividades /\ a.quien = z.quien /\ a.enlace = z.enlace
      BY <1>3, <2>2, <3>2 DEF Actividades, j
    <3> HIDE DEF a
    <3> QED BY <1>4, <2>1, <2>2, <3>1, <3>3, PasaAct DEF Firme, z
  <2>4. CASE Unida(w)
    <3>1. StarGame(b, z)
      BY <2>4 DEF Unida
    <3> QED BY <1>4, <2>1, <2>2, <3>1, StarGameAct
  <2>5. CASE YaNoExiste(w)
    <3> DEFINE f == CASE z.fase = "activa" -> "saliendo"
                      [] z.fase = "detenida" -> "fin"
                      [] OTHER -> z.fase
               a == [z EXCEPT !.fase = f]
    <3>1. Pasa(b, a)
      BY <2>2, <2>5 DEF YaNoExiste, Actividades
    <3>2. f \in FasesBusqueda
      BY <2>2 DEF Actividades, FasesBusqueda
    <3> HIDE DEF f, z
    <3>3. a \in Actividades /\ a.quien = z.quien /\ a.enlace = z.enlace
      BY <2>2, <3>2 DEF Actividades
    <3> HIDE DEF a
    <3> QED BY <1>4, <2>1, <2>2, <3>1, <3>3, PasaAct DEF Firme, z
  <2>6. CASE Borrada(w)
    <3> DEFINE a == [z EXCEPT !.jugadaId = Nada]
    <3>1. Pasa(b, a)
      BY <2>6 DEF Borrada
    <3> HIDE DEF z
    <3>2. a \in Actividades /\ a.quien = z.quien /\ a.enlace = z.enlace
      BY <2>2 DEF Actividades
    <3> HIDE DEF a
    <3> QED BY <1>4, <2>1, <2>2, <3>1, <3>2, PasaAct DEF Firme, z
  <2> QED BY <1>7, <2>3, <2>4, <2>5, <2>6
<1> QED BY <1>5, <1>6, <1>7

LEMMA AplicaInv ==
  ASSUME Inv, NEW c \in Clientes, Aplica(c)
  PROVE  Inv'
<1> DEFINE w == Head(pend[c])
           nuevos == [b \in Busquedas |-> debe[b] \cup {w.j}]
<1>1. pend[c] \in Seq(Escrituras) /\ pend[c] # <<>>
  BY DEF Inv, DatosInv, DatosTipo, Aplica
<1>2. w.j \in Partidas
  BY <1>1, SeqCola DEF Escrituras
<1>3. nuevos \in [Busquedas -> SUBSET Partidas] /\ Avisos(nuevos)
  BY <1>2 DEF Inv, Aplica
<1> HIDE DEF nuevos
<1>4. debe' \in [Busquedas -> SUBSET Partidas]
  BY <1>3, AvisosTipo
<1>5. CreaMas /\ extras' \in Nat
  BY DEF Aplica, Inv, CreaMas
<1>6. /\ ActInv' /\ SinEnlaces /\ DatosInv'
      /\ \A j \in Partidas : sentados[j] # {} => sentados'[j] # {}
  BY AplicaAct, AplicaDatos
<1>7. EnlaceInv'
  BY <1>5, <1>6, EnlaceSigue
<1> QED BY <1>4, <1>5, <1>6, <1>7 DEF Inv

-----------------------------------------------------------------------------
(* A step of a search that leaves the data alone. *)
LEMMA SinDatos ==
  ASSUME Inv, ActInv', UNCHANGED <<jugadas, pend, creadas, sentados>>
  PROVE  /\ DatosInv' /\ CreaMas
         /\ \A j \in Partidas : sentados[j] # {} => sentados'[j] # {}
BY DEF Inv, DatosInv, DatosTipo, DocsInv, ColasInv, UnAdd, EsAdd, CreaMas

LEMMA EncuentraDatos ==
  ASSUME Inv, NEW b \in Busquedas, NEW j \in Partidas, NEW antes \in SUBSET Partidas,
         Encuentra(b, j, antes)
  PROVE  DatosInv' /\ CreaMas
<1> DEFINE c == act[b].quien
           k == Cardinality(antes)
           doc == Nueva(c, Nada)
           w == [tipo |-> "set", j |-> j, doc |-> ConSegundo(jugadas[j], c), de |-> b]
<1>1. c \in Clientes /\ DatosInv
  BY DEF Inv, ActInv, Firme, Encuentra, Consultada, Viva
<1>2. k \in Nat /\ doc \in Docs /\ doc.dos = Nada
  BY <1>1, LibresFinito, NuevaTipo
<1>3. PICK ids \in PorCrear(k) :
         Encola(c, Append(Adds(b, ids, doc), w)) /\ Crea(ids, doc)
  BY DEF Encuentra
<1>4. jugadas[j] # Nada /\ jugadas[j].inv = Nada /\ jugadas[j].uno # c
  BY DEF Encuentra, Elegibles, Elegible, LibresServidor
<1> DEFINE ops == Adds(b, ids, doc)
<1>5. /\ ops \in Seq(Escrituras) /\ Len(ops) = k
      /\ \A i \in 1..k : /\ Buena(creadas', sentados, c, ops[i])
                         /\ ops[i].tipo = "add" /\ creadas[ops[i].j] = Nada
      /\ \A i, m \in 1..k : ops[i].j = ops[m].j => i = m
      /\ CreaMas /\ creadas' \in [Partidas -> Docs \cup {Nada}]
  BY <1>1, <1>2, <1>3, AddsBuenos
<1>6. w \in Escrituras /\ w.tipo = "set" /\ Buena(creadas', sentados, c, w)
  <2> DEFINE o == jugadas[j]
             d == ConSegundo(o, c)
  <2>1. o \in Docs /\ sentados[j] # {} /\ Fiel(creadas, j, o)
    BY <1>1, <1>4 DEF DatosInv, DatosTipo, DocsInv
  <2>2. creadas'[j] = creadas[j] /\ creadas[j] # Nada
    BY <1>5, <2>1 DEF CreaMas, Fiel
  <2>3. o.uno # c
    BY <1>4
  <2> HIDE DEF o
  <2>4. d \in Docs /\ d.uno = o.uno /\ d.inv = o.inv /\ d.dos = c
    BY <1>1, <2>1 DEF ConSegundo, Docs
  <2>5. d.dos # Nada /\ Fiel(creadas', j, d)
    BY <1>1, <2>1, <2>2, <2>3, <2>4, NadaAssumption DEF Fiel
  <2>6. w = [tipo |-> "set", j |-> j, doc |-> d, de |-> b]
    BY DEF o
  <2> HIDE DEF d, w
  <2>7. w \in Escrituras
    BY <2>4, <2>6 DEF Escrituras, Tipos
  <2>8. w.tipo = "set" /\ w.j = j /\ w.doc = d
    BY <2>6
  <2> QED BY <2>1, <2>5, <2>7, <2>8 DEF Buena
<1> DEFINE todas == Append(ops, w)
<1>7. Encola(c, todas)
  BY <1>3
<1> HIDE DEF ops, w, k, doc, c
<1>8. /\ todas \in Seq(Escrituras) /\ Len(todas) = k + 1
      /\ \A i \in 1..k : todas[i] = ops[i]
      /\ todas[k + 1] = w
  BY <1>2, <1>5, <1>6
<1> HIDE DEF todas
<1>9. \A i \in 1..(k + 1) : i \in 1..k \/ i = k + 1
  BY <1>2
<1>10. \A i \in 1..Len(todas) : Buena(creadas', sentados, c, todas[i])
  BY <1>5, <1>6, <1>8, <1>9
<1>11. \A i \in 1..Len(todas) : todas[i].tipo = "add" => i \in 1..k /\ todas[i] = ops[i]
  BY <1>6, <1>8, <1>9
<1>12. \A i \in 1..Len(todas) : todas[i].tipo = "add" => creadas[todas[i].j] = Nada
  BY <1>5, <1>11
<1>13. \A i, m \in 1..Len(todas) :
          todas[i].tipo = "add" /\ todas[m].tipo = "add" /\ todas[i].j = todas[m].j => i = m
  BY <1>5, <1>11
<1>14. UNCHANGED <<jugadas, sentados>>
  BY DEF Encuentra
<1> QED BY <1>1, <1>5, <1>7, <1>8, <1>10, <1>12, <1>13, <1>14, EncolaInv

(* The steps of a search that queue writes, or may. *)
LEMMA PasoDatos ==
  ASSUME Inv, ActInv', NEW b \in Busquedas, Paso(b)
  PROVE  /\ DatosInv' /\ CreaMas
         /\ \A j \in Partidas : sentados[j] # {} => sentados'[j] # {}
<1>0. DatosInv /\ ActInv /\ act[b] \in Actividades
  BY DEF Inv, ActInv
<1>a. CASE UNCHANGED <<creadas, sentados>> /\ DatosInv'
  BY <1>a DEF CreaMas
<1>1. ASSUME NEW c \in Clientes, AbrirLibre(b, c) \/ \E j \in Partidas : AbrirEnlace(b, c, j)
      PROVE  UNCHANGED <<jugadas, pend, creadas, sentados>>
  BY <1>1 DEF AbrirLibre, AbrirEnlace
<1>2. ASSUME NEW c \in Clientes, NEW inv \in Clientes, AbrirInvitando(b, c, inv)
      PROVE  DatosInv' /\ CreaMas /\ sentados' = sentados
  <2> DEFINE doc == Nueva(c, inv)
  <2>1. doc \in Docs /\ doc.dos = Nada
    BY NuevaTipo
  <2>2. PICK ids \in PorCrear(1) : Encola(c, Adds(b, ids, doc)) /\ Crea(ids, doc)
    BY <1>2 DEF AbrirInvitando
  <2>3. UNCHANGED <<jugadas, sentados>>
    BY <1>2 DEF AbrirInvitando
  <2> HIDE DEF doc
  <2> QED BY <1>0, <2>1, <2>2, <2>3, EncolaAdds
<1>3. ASSUME NEW c \in Clientes, NEW j \in Partidas, sentados[j] # {},
             creadas[j].uno = c => creadas[j].inv = c, Acepta(b, c, j),
             UNCHANGED <<jugadas, creadas, sentados>>
      PROVE  DatosInv'
  <2> DEFINE w == [tipo |-> "update", j |-> j, doc |-> Nada, de |-> b]
  <2>1. w \in Escrituras /\ w.tipo # "add"
    BY DEF Escrituras, Tipos
  <2>2. Buena(creadas, sentados, c, w) /\ Encola(c, <<w>>)
    BY <1>3 DEF Buena, Acepta
  <2> HIDE DEF w
  <2> QED BY <1>0, <1>3, <2>1, <2>2, EncolaUna
<1>4. ASSUME NEW c \in Clientes, NEW j \in Partidas, AbrirInvitado(b, c, j)
      PROVE  DatosInv' /\ UNCHANGED <<creadas, sentados>>
  BY <1>3, <1>4 DEF AbrirInvitado
<1>5. CASE Enlace(b)
  <2> DEFINE j == act[b].enlace
  <2>1. j \in Partidas /\ act[b].quien \in Clientes
    BY <1>0, <1>5 DEF Enlace, ActInv, Firme, Actividades
  <2>2. sentados[j] # {} /\ creadas[j].inv = creadas[j].uno
    BY <1>5 DEF Inv, EnlaceInv, Enlace
  <2>3. Acepta(b, act[b].quien, j) /\ UNCHANGED <<jugadas, creadas, sentados>>
    BY <1>5 DEF Enlace
  <2>4. DatosInv'
    BY <1>3, <2>1, <2>2, <2>3
  <2> QED BY <1>a, <2>3, <2>4
<1>6. CASE NingunaSirve(b)
  <2> DEFINE c == act[b].quien
             doc == Nueva(c, Nada)
             k == IF Libres(c) = {} THEN 1 ELSE Cardinality(Libres(c))
  <2>1. c \in Clientes
    BY <1>0, <1>6 DEF NingunaSirve, Consultada, Viva, ActInv, Firme
  <2>2. doc \in Docs /\ doc.dos = Nada /\ k \in Nat
    BY <1>0, <2>1, NuevaTipo, LibresFinito
  <2>3. PICK ids \in PorCrear(k) : Encola(c, Adds(b, ids, doc)) /\ Crea(ids, doc)
    BY <1>6 DEF NingunaSirve
  <2>4. UNCHANGED <<jugadas, sentados>>
    BY <1>6 DEF NingunaSirve
  <2> HIDE DEF doc, k, c
  <2> QED BY <1>0, <2>1, <2>2, <2>3, <2>4, EncolaAdds
<1>7. ASSUME NEW j \in Partidas, NEW antes \in SUBSET Partidas, Encuentra(b, j, antes)
      PROVE  DatosInv' /\ CreaMas /\ sentados' = sentados
  BY <1>7, EncuentraDatos DEF Encuentra
<1>8. CASE (\E j \in Partidas : Evento(b, j)) \/ Empieza(b) \/ Volver(b)
  BY <1>8, SinDatos DEF Evento, Empieza, Volver
<1>9. ASSUME NEW atras \in BOOLEAN, Parar(b, atras)
      PROVE  DatosInv' /\ UNCHANGED <<creadas, sentados>>
  <2> DEFINE j == act[b].jugadaId
             c == act[b].quien
             w == [tipo |-> "delete", j |-> j, doc |-> Nada, de |-> b]
  <2>1. c \in Clientes
    BY <1>0, <1>9 DEF Parar, ActInv, Firme
  <2>2. UNCHANGED <<jugadas, creadas, sentados>>
    BY <1>9 DEF Parar
  <2>3. CASE UNCHANGED pend
    BY <2>2, <2>3, SinDatos
  <2>4. CASE j # Nada /\ Encola(c, Borra(b, j))
    <3>1. j \in Partidas
      BY <1>0, <2>4 DEF Actividades
    <3>2. w \in Escrituras /\ w.tipo # "add"
      BY <3>1 DEF Escrituras, Tipos
    <3>3. Buena(creadas, sentados, c, w) /\ Encola(c, <<w>>)
      BY <2>4 DEF Buena, Borra
    <3> HIDE DEF w, c
    <3> QED BY <1>0, <2>1, <2>2, <3>2, <3>3, EncolaUna
  <2> QED BY <1>9, <2>2, <2>3, <2>4 DEF Parar
<1> QED
  BY <1>a, <1>1, <1>2, <1>4, <1>5, <1>6, <1>7, <1>8, <1>9, SinDatos
  DEF Paso, Abrir, Avanza

LEMMA PasoAvisos ==
  ASSUME Inv, NEW b \in Busquedas, Paso(b)
  PROVE  debe' \in [Busquedas -> SUBSET Partidas] /\ extras' \in Nat
<1>1. debe \in [Busquedas -> SUBSET Partidas] /\ extras \in Nat
  BY DEF Inv
<1>2. CASE debe' = debe /\ extras' = extras
  BY <1>1, <1>2
<1>3. CASE Avisos(debe) /\ extras' = extras
  BY <1>1, <1>3, AvisosTipo
<1>4. ASSUME NEW j \in Partidas, Evento(b, j) PROVE debe' \in [Busquedas -> SUBSET Partidas]
  <2> DEFINE nuevos == [debe EXCEPT ![b] = @ \ {j}]
  <2>1. nuevos \in [Busquedas -> SUBSET Partidas] /\ Avisos(nuevos)
    BY <1>1, <1>4 DEF Evento
  <2> HIDE DEF nuevos
  <2> QED BY <2>1, AvisosTipo
<1>5. CASE Volver(b)
  BY <1>1, <1>5 DEF Volver, Extra
<1>6. CASE \E j \in Partidas : Evento(b, j)
  BY <1>1, <1>4, <1>6 DEF Evento
<1>7. CASE Empieza(b) \/ \E atras \in BOOLEAN : Parar(b, atras)
  BY <1>3, <1>7 DEF Empieza, Parar
<1>8. CASE \/ \E c \in Clientes :
                \/ AbrirLibre(b, c)
                \/ \E inv \in Clientes : AbrirInvitando(b, c, inv)
                \/ \E j \in Partidas : AbrirInvitado(b, c, j) \/ AbrirEnlace(b, c, j)
           \/ Enlace(b) \/ NingunaSirve(b)
           \/ \E j \in Partidas, antes \in SUBSET Partidas : Encuentra(b, j, antes)
  BY <1>2, <1>8 DEF AbrirLibre, AbrirInvitando, AbrirInvitado, AbrirEnlace, Enlace,
                    NingunaSirve, Encuentra
<1> QED BY <1>5, <1>6, <1>7, <1>8 DEF Paso, Abrir, Avanza

LEMMA PasoInv ==
  ASSUME Inv, NEW b \in Busquedas, Paso(b)
  PROVE  Inv'
<1>0. ActInv
  BY DEF Inv
<1>1. ASSUME NEW c \in Clientes, NEW j \in Partidas, AbrirEnlace(b, c, j)
      PROVE  ActInv' /\ EnlaceInv'
  <2>1. /\ ActInv'
        /\ \A x \in Busquedas : act'[x].enlace # Nada => act'[x].enlace \in {act[x].enlace, j}
    BY <1>0, <1>1, AbrirEnlaceAct
  <2>2. /\ sentados[j] # {} /\ creadas[j].inv = creadas[j].uno
        /\ UNCHANGED <<creadas, sentados>>
    BY <1>1 DEF AbrirEnlace
  <2>3. ASSUME NEW x \in Busquedas, act'[x].enlace # Nada
        PROVE  /\ sentados'[act'[x].enlace] # {}
               /\ creadas'[act'[x].enlace].inv = creadas'[act'[x].enlace].uno
    <3>1. CASE act'[x].enlace = j
      BY <2>2, <3>1
    <3>2. CASE act'[x].enlace = act[x].enlace
      BY <2>2, <2>3, <3>2 DEF Inv, EnlaceInv
    <3> QED BY <2>1, <2>3, <3>1, <3>2
  <2> QED BY <2>1, <2>3 DEF EnlaceInv
<1>2. CASE \E c \in Clientes, j \in Partidas : AbrirEnlace(b, c, j)
  <2>1. ActInv' /\ EnlaceInv'
    BY <1>1, <1>2
  <2>2. DatosInv'
    BY <2>1, PasoDatos
  <2> QED BY <2>1, <2>2, PasoAvisos DEF Inv
<1>3. CASE ~\E c \in Clientes, j \in Partidas : AbrirEnlace(b, c, j)
  <2>1. ASSUME NEW c \in Clientes,
               \/ AbrirLibre(b, c)
               \/ \E inv \in Clientes : AbrirInvitando(b, c, inv)
               \/ \E j \in Partidas : AbrirInvitado(b, c, j)
        PROVE  ActInv' /\ SinEnlaces
    BY <1>0, <2>1, AbrirAct
  <2>2. ASSUME \/ Enlace(b) \/ NingunaSirve(b)
               \/ \E j \in Partidas, antes \in SUBSET Partidas : Encuentra(b, j, antes)
               \/ \E j \in Partidas : Evento(b, j)
               \/ Empieza(b) \/ Volver(b) \/ \E atras \in BOOLEAN : Parar(b, atras)
        PROVE  ActInv' /\ SinEnlaces
    BY <1>0, <2>2, PasoAct
  <2>3. ActInv' /\ SinEnlaces
    BY <1>3, <2>1, <2>2 DEF Paso, Abrir, Avanza
  <2>4. /\ DatosInv' /\ CreaMas
        /\ \A j \in Partidas : sentados[j] # {} => sentados'[j] # {}
    BY <2>3, PasoDatos
  <2>5. EnlaceInv'
    BY <2>3, <2>4, EnlaceSigue
  <2> QED BY <2>3, <2>4, <2>5, PasoAvisos DEF Inv
<1> QED BY <1>2, <1>3

(* The writes of the other screens. *)
LEMMA AjenaInv ==
  ASSUME Inv, NEW c \in Clientes, NEW j \in Partidas, NEW tipo \in {"juega", "rechazo"},
         NEW doc \in Docs \cup {Nada},
         tipo = "juega" => Fiel(creadas, j, doc) /\ doc.dos # Nada,
         tipo = "rechazo" => (creadas[j].uno = c => creadas[j].inv = c),
         sentados[j] # {}, Ajena(c, tipo, j, doc), extras' \in Nat
  PROVE  Inv'
<1> DEFINE w == [tipo |-> tipo, j |-> j, doc |-> doc, de |-> Nada]
<1>1. w \in Escrituras /\ w.tipo # "add"
  BY DEF Escrituras, Tipos
<1>2. Buena(creadas, sentados, c, w) /\ Encola(c, <<w>>)
  BY DEF Buena, Ajena
<1>3. UNCHANGED <<jugadas, act, debe, creadas, sentados>> /\ extras' \in Nat
  BY DEF Ajena
<1> HIDE DEF w
<1>4. DatosInv'
  BY <1>1, <1>2, <1>3, EncolaUna DEF Inv
<1>5. ActInv' /\ EnlaceInv'
  BY <1>3 DEF Inv, ActInv, EnlaceInv
<1> QED BY <1>3, <1>4, <1>5 DEF Inv

LEMMA JuegaInv ==
  ASSUME Inv, NEW c \in Clientes, NEW j \in Partidas, Juega(c, j) \/ Rechaza(c, j)
  PROVE  Inv'
<1> DEFINE o == jugadas[j]
<1>1. CASE Juega(c, j)
  <2>1. o # Nada /\ o.dos # Nada /\ Ajena(c, "juega", j, o)
    BY <1>1 DEF Juega
  <2>3. extras' \in Nat
    BY <1>1 DEF Juega, Extra, Inv
  <2>2. o \in Docs /\ Fiel(creadas, j, o) /\ sentados[j] # {}
    BY <2>1 DEF Inv, DatosInv, DatosTipo, DocsInv
  <2> HIDE DEF o
  <2> QED BY <2>1, <2>2, <2>3, AjenaInv
<1>2. CASE Rechaza(c, j)
  <2>1. /\ sentados[j] # {} /\ creadas[j].inv = c
        /\ Ajena(c, "rechazo", j, Nada)
    BY <1>2 DEF Rechaza, Declina
  <2>2. extras' \in Nat
    BY <1>2 DEF Rechaza, Extra, Inv
  <2> QED BY <2>1, <2>2, AjenaInv
<1> QED BY <1>1, <1>2

LEMMA InitInv == Init => Inv
<1> SUFFICES ASSUME Init PROVE Inv
  OBVIOUS
<1> DEFINE z == Cerrada
<1>1. z \in Actividades /\ z.enlace = Nada /\ z.fase = "fuera"
  BY CerradaTipo
<1>2. act = [b \in Busquedas |-> z]
  BY DEF Init
<1> HIDE DEF z
<1>3. ActInv /\ EnlaceInv
  BY <1>1, <1>2 DEF ActInv, EnlaceInv, Firme
<1>4. \A c \in Clientes : pend[c] = <<>> /\ Len(pend[c]) = 0
  BY DEF Init
<1>5. DatosTipo /\ DocsInv
  BY DEF Init, DatosTipo, DocsInv
<1>6. ColasInv /\ UnAdd
  BY <1>4 DEF ColasInv, UnAdd, EsAdd
<1>7. debe \in [Busquedas -> SUBSET Partidas] /\ extras \in Nat
  BY DEF Init
<1> QED BY <1>3, <1>5, <1>6, <1>7 DEF Inv, DatosInv

LEMMA NextInv == Inv /\ [Next]_vars => Inv'
<1> SUFFICES ASSUME Inv, [Next]_vars PROVE Inv'
  OBVIOUS
<1>1. CASE UNCHANGED vars
  <2>1. ActInv' /\ EnlaceInv'
    BY <1>1 DEF vars, Inv, ActInv, EnlaceInv
  <2>2. DatosInv'
    BY <1>1, <2>1, SinDatos DEF vars
  <2> QED BY <1>1, <2>1, <2>2 DEF vars, Inv
<1>2. ASSUME NEW b \in Busquedas, Paso(b) PROVE Inv'
  BY <1>2, PasoInv
<1>3. ASSUME NEW c \in Clientes, Aplica(c) PROVE Inv'
  BY <1>3, AplicaInv
<1>4. ASSUME NEW c \in Clientes, NEW j \in Partidas, Juega(c, j) \/ Rechaza(c, j)
      PROVE  Inv'
  BY <1>4, JuegaInv
<1> QED BY <1>1, <1>2, <1>3, <1>4 DEF Next

(* The invariant, in every reachable state. *)
LEMMA SpecInv == Spec => []Inv
BY InitInv, NextInv, PTL DEF Spec

-----------------------------------------------------------------------------
(* Type correctness, for any players and bounds: nothing but a match with an  *)
(* id is ever open, and every write queued by a search carries what its kind  *)
(* needs.                                                                     *)
THEOREM TipoEmparejamiento == Spec => []TypeOK
<1>1. Inv => TypeOK
  BY DEF Inv, ActInv, DatosInv, DatosTipo, TypeOK
<1> QED BY <1>1, SpecInv, PTL

(* Only the server's step changes what a match has become. *)
LEMMA SalaQuieta ==
  ASSUME Inv, NEW j \in Partidas, UNCHANGED <<jugadas, sentados>>, CreaMas
  PROVE  UNCHANGED SalaDe(j)
<1>1. sentados[j] # {} => creadas'[j] = creadas[j]
  BY DEF Inv, DatosInv, DocsInv, CreaMas
<1> QED BY <1>1 DEF SalaDe

LEMMA AplicaSala ==
  ASSUME Inv, NEW c \in Clientes, Aplica(c), NEW j \in Partidas
  PROVE  UNCHANGED SalaDe(j) \/ S(j)!Next
<1> DEFINE w == Head(pend[c])
           d == Tras(c, w, jugadas[w.j])
           o == jugadas[j]
           cre == creadas[j]
<1>1. /\ pend[c] # <<>>
      /\ jugadas' = [jugadas EXCEPT ![w.j] = d]
      /\ sentados' = [sentados EXCEPT ![w.j] = @ \cup Asientos(d)]
      /\ creadas' = creadas
  BY DEF Aplica
<1>2. /\ w \in Escrituras /\ w.j \in Partidas /\ d \in Docs \cup {Nada}
      /\ d # Nada => Fiel(creadas, w.j, d) /\ Asientos(d) # {}
      /\ d # Nada => \/ d = creadas[w.j] /\ d.dos = Nada /\ sentados[w.j] = {}
                     \/ d.dos # Nada /\ sentados[w.j] # {}
  BY <1>1, AplicaDoc
<1>3. d = Nada => Asientos(d) = {}
  BY DEF Asientos
<1>4. /\ o # Nada => o \in Docs /\ Fiel(creadas, j, o) /\ sentados[j] # {}
      /\ sentados[j] # {} => creadas[j] # Nada
  BY DEF Inv, DatosInv, DatosTipo, DocsInv
<1> HIDE DEF w, d
<1>5. CASE w.j # j
  <2>1. jugadas'[j] = jugadas[j] /\ sentados'[j] = sentados[j]
    BY <1>1, <1>5
  <2> QED BY <1>1, <2>1 DEF SalaDe
<1>6. CASE w.j = j
  <2>1. jugadas'[j] = d /\ sentados'[j] = sentados[j] \cup Asientos(d)
    BY <1>1, <1>2, <1>6 DEF Inv, DatosInv, DatosTipo
  <2> HIDE DEF o
  <2>2. CASE d = Nada
    <3>1. CASE o = Nada
      BY <1>1, <1>3, <2>1, <2>2, <3>1 DEF SalaDe, o
    <3>2. CASE o # Nada
      <4> DEFINE e == IF o.dos = Nada THEN "libre" ELSE "ocupada"
      <4>1. SalaDe(j) = [estado |-> e, uno |-> o.uno, dos |-> o.dos, inv |-> o.inv]
        BY <3>2 DEF SalaDe, o
      <4>2. SalaDe(j)' = [estado |-> "borrada", uno |-> cre.uno, dos |-> Nada,
                          inv |-> cre.inv]
        BY <1>1, <1>3, <1>4, <2>1, <2>2, <3>2 DEF SalaDe
      <4>3. cre.uno = o.uno /\ cre.inv = o.inv
        BY <1>4, <3>2 DEF Fiel
      <4>4. e \in {"libre", "ocupada"}
        OBVIOUS
      <4> HIDE DEF e, cre
      <4>5. S(j)!Borrar
        BY <4>1, <4>2, <4>3, <4>4 DEF S!Borrar
      <4> QED BY <4>5 DEF S!Next
    <3> QED BY <3>1, <3>2
  <2>3. CASE d # Nada
    <3> DEFINE e == IF d.dos = Nada THEN "libre" ELSE "ocupada"
    <3>1. SalaDe(j)' = [estado |-> e, uno |-> d.uno, dos |-> d.dos, inv |-> d.inv]
      BY <2>1, <2>3 DEF SalaDe
    <3>2. /\ d.uno \in Clientes /\ d.inv \in Clientes \cup {Nada}
          /\ d.dos \in Clientes \cup {Nada} /\ d.uno = cre.uno /\ d.inv = cre.inv
          /\ d.dos = d.uno => d.inv = d.uno
      BY <1>2, <1>6, <2>3 DEF Fiel, Docs
    <3>3. CASE d.dos = Nada /\ sentados[j] = {}
      <4>1. o = Nada
        BY <1>4, <3>3
      <4>2. SalaDe(j) = S(j)!PorCrear
        BY <3>3, <4>1 DEF SalaDe, S!PorCrear, o
      <4>3. S(j)!Crear(d.uno, d.inv)
        BY <3>1, <3>3, <4>2 DEF S!Crear
      <4> QED BY <3>2, <4>3 DEF S!Next
    <3>4. CASE d.dos # Nada /\ sentados[j] # {}
      <4> DEFINE f == IF o # Nada THEN IF o.dos = Nada THEN "libre" ELSE "ocupada"
                      ELSE "borrada"
                 v == IF o # Nada THEN o.dos ELSE Nada
      <4>1. SalaDe(j) = [estado |-> f, uno |-> cre.uno, dos |-> v, inv |-> cre.inv]
        <5>1. CASE o = Nada
          BY <3>4, <5>1 DEF SalaDe, o
        <5>2. CASE o # Nada
          <6>1. o.uno = cre.uno /\ o.inv = cre.inv
            BY <1>4, <5>2 DEF Fiel
          <6>2. SalaDe(j) = [estado |-> f, uno |-> o.uno, dos |-> v, inv |-> o.inv]
            BY <5>2 DEF SalaDe, o
          <6> QED BY <6>1, <6>2
        <5> QED BY <5>1, <5>2
      <4>2. f \in {"libre", "ocupada", "borrada"}
        OBVIOUS
      <4> HIDE DEF f, v, cre
      <4>3. SalaDe(j)' = [estado |-> "ocupada", uno |-> cre.uno, dos |-> d.dos,
                          inv |-> cre.inv]
        BY <3>1, <3>2, <3>4
      <4>4. S(j)!Ocupar(d.dos)
        BY <3>2, <4>1, <4>2, <4>3 DEF S!Ocupar
      <4> QED BY <3>2, <3>4, <4>4 DEF S!Next
    <3> QED BY <1>2, <1>6, <2>3, <3>3, <3>4
  <2> QED BY <2>2, <2>3
<1> QED BY <1>5, <1>6

LEMMA InitSala == Init => EmpiezaComoSala
<1> SUFFICES ASSUME Init, NEW j \in Partidas PROVE S(j)!Init
  BY DEF EmpiezaComoSala
<1>1. jugadas[j] = Nada /\ sentados[j] = {}
  BY DEF Init
<1> QED BY <1>1 DEF S!Init, S!PorCrear, SalaDe

LEMMA NextSala == Inv /\ [Next]_vars => PasoDeSala
<1> SUFFICES ASSUME Inv, [Next]_vars, NEW j \in Partidas
             PROVE  UNCHANGED SalaDe(j) \/ S(j)!Next
  BY DEF PasoDeSala
<1>1. CASE UNCHANGED vars
  BY <1>1 DEF vars, SalaDe
<1>2. CASE \E c \in Clientes : Aplica(c)
  BY <1>2, AplicaSala
<1>3. ASSUME NEW b \in Busquedas, Paso(b) PROVE UNCHANGED SalaDe(j)
  <2>1. UNCHANGED <<jugadas, sentados>>
    BY <1>3 DEF Paso, Abrir, Avanza, AbrirLibre, AbrirInvitando, AbrirInvitado,
       AbrirEnlace, Enlace,
       NingunaSirve, Encuentra, Evento, Empieza, Volver, Parar
  <2>2. ActInv'
    BY <1>3, PasoInv DEF Inv
  <2>3. CreaMas
    BY <1>3, <2>2, PasoDatos
  <2> QED BY <2>1, <2>3, SalaQuieta
<1>4. ASSUME NEW c \in Clientes, NEW k \in Partidas, Juega(c, k) \/ Rechaza(c, k)
      PROVE  UNCHANGED SalaDe(j)
  BY <1>4 DEF Juega, Rechaza, Declina, Ajena, SalaDe
<1> QED BY <1>1, <1>2, <1>3, <1>4 DEF Next

(* EsSala: whatever the joins, deletions and late answers, the life of every  *)
(* match is one Sala allows.                                                  *)
THEOREM SiempreSala == Spec => EsSala
<1>1. Init => EmpiezaComoSala
  BY InitSala
<1>2. Inv /\ [Next]_vars => [PasoDeSala]_vars
  BY NextSala
<1> QED BY <1>1, <1>2, SpecInv, PTL DEF Spec, EsSala

(* Seen from one match: matchmaking implements the specification of Sala,     *)
(* under the refinement mapping SalaDe.                                       *)
THEOREM ImplementaSala == ASSUME NEW j \in Partidas PROVE Spec => S(j)!Spec
<1>1. Init => S(j)!Init
  BY InitSala DEF EmpiezaComoSala
<1>2. Inv /\ [Next]_vars => [S(j)!Next]_(SalaDe(j))
  BY NextSala DEF PasoDeSala
<1> QED BY <1>1, <1>2, SpecInv, PTL DEF Spec, S!Spec
=============================================================================
