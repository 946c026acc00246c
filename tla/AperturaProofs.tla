--------------------------- MODULE AperturaProofs ---------------------------
(* The theorems about what a search opens (AbreLoSuyo) and about who answers  *)
(* for a free match (LibreAtendida), for any players and any bounds.  A       *)
(* search starts the match jugadaId refers to at the moment of an answer or   *)
(* of a posted start, so the first invariant tells what may still start it:   *)
(* while jugadaId refers to a match the player has no seat in, no start is    *)
(* posted, no listener is left to post one, and the only join on its way is   *)
(* of that very match.                                                        *)
EXTENDS EmparejamientoProofs

-----------------------------------------------------------------------------
Oidas(a) == a.sueltas \cup ({a.oye} \ {Nada})
EnCola(c, w) == \E i \in 1..Len(pend[c]) : pend[c][i] = w

(* The writes a search has on their way, and the search that fits them. *)
Suyas(b) == {w \in Escrituras : w.de = b /\ \E c \in Clientes : EnCola(c, w)}
Callada(a) == a.puestos = 0 /\ Oidas(a) = {}
Suya(a, ws, sen) ==
    /\ a.fase = "fuera" => a = Cerrada
    /\ a.consulta => a.enlace = Nada
    /\ a.consulta \/ a.enlace # Nada =>
          Callada(a) /\ \A w \in ws : w.tipo \notin {"add", "set", "update"}
    /\ a.jugadaId # Nada /\ a.quien \notin sen[a.jugadaId] =>
          Callada(a) /\ \A w \in ws : w.tipo \in {"set", "update"} => w.j = a.jugadaId
    /\ \A j \in a.abiertas : a.quien \in sen[j]
SuyaInv == \A b \in Busquedas : Suya(act[b], Suyas(b), sentados)

(* A write a search waits for is of its own player, and gives it its seat.    *)
Propia(c, w) == /\ w.tipo = "add" => w.doc.uno = c
                /\ w.tipo = "set" => w.doc.dos = c
FirmasInv == \A c \in Clientes, w \in Escrituras :
                EnCola(c, w) /\ w.de # Nada => act[w.de].quien = c /\ Propia(c, w)

(* An event is only due to a listener. *)
DebeInv == \A b \in Busquedas : debe[b] \subseteq Oye(b)

AperturaInv == Inv /\ SuyaInv /\ FirmasInv /\ DebeInv

-----------------------------------------------------------------------------
(* The queues, without their order: all that is new in them are the writes N  *)
(* of phone c.                                                                *)
Nuevas(c, N) == \A d \in Clientes, w \in Escrituras :
                   EnCola(d, w)' => EnCola(d, w) \/ (d = c /\ w \in N)

LEMMA EncolaNuevas ==
  ASSUME Inv, NEW c \in Clientes, NEW ops \in Seq(Escrituras), Encola(c, ops), NEW N,
         \A i \in 1..Len(ops) : ops[i] \in N
  PROVE  Nuevas(c, N)
<1> SUFFICES ASSUME NEW d \in Clientes, NEW w \in Escrituras, NEW i \in 1..Len(pend'[d]),
                    pend'[d][i] = w
             PROVE  EnCola(d, w) \/ (d = c /\ w \in N)
  BY DEF Nuevas, EnCola
<1>1. pend[c] \in Seq(Escrituras) /\ pend[d] \in Seq(Escrituras)
  BY DEF Inv, DatosInv, DatosTipo
<1>2. CASE d # c
  BY <1>2 DEF Encola, Inv, DatosInv, DatosTipo, EnCola
<1>3. CASE d = c
  <2>1. pend'[c] = pend[c] \o ops
    BY DEF Encola, Inv, DatosInv, DatosTipo
  <2>2. CASE i <= Len(pend[c])
    BY <1>1, <1>3, <2>1, <2>2 DEF EnCola
  <2>3. CASE i > Len(pend[c])
    <3>1. i - Len(pend[c]) \in 1..Len(ops) /\ pend'[c][i] = ops[i - Len(pend[c])]
      BY <1>1, <1>3, <2>1, <2>3
    <3> QED BY <1>3, <3>1
  <2> QED BY <1>1, <1>3, <2>2, <2>3
<1> QED BY <1>2, <1>3

LEMMA QuietaNuevas ==
  ASSUME NEW c, UNCHANGED pend
  PROVE  Nuevas(c, {})
BY DEF Nuevas, EnCola

LEMMA AplicaNuevas ==
  ASSUME Inv, NEW c \in Clientes, pend[c] # <<>>,
         pend' = [pend EXCEPT ![c] = Tail(@)]
  PROVE  /\ Nuevas(c, {})
         /\ Head(pend[c]) \in Escrituras /\ EnCola(c, Head(pend[c]))
<1>1. pend[c] \in Seq(Escrituras)
  BY DEF Inv, DatosInv, DatosTipo
<1>2. Head(pend[c]) \in Escrituras /\ EnCola(c, Head(pend[c]))
  BY <1>1 DEF EnCola
<1>3. ASSUME NEW d \in Clientes, NEW i \in 1..Len(pend'[d])
      PROVE  \E k \in 1..Len(pend[d]) : pend[d][k] = pend'[d][i]
  <2>1. CASE d # c
    BY <1>3, <2>1 DEF Inv, DatosInv, DatosTipo
  <2>2. CASE d = c
    <3>1. pend'[d] = Tail(pend[c])
      BY <2>2 DEF Inv, DatosInv, DatosTipo
    <3>2. i + 1 \in 1..Len(pend[c]) /\ Tail(pend[c])[i] = pend[c][i + 1]
      BY <1>1, <1>3, <2>2, <3>1, SeqCola
    <3> QED BY <2>2, <3>1, <3>2
  <2> QED BY <2>1, <2>2
<1> QED BY <1>2, <1>3 DEF Nuevas, EnCola

(* Fewer writes and more seats leave a search fit. *)
Crecen == \A j \in Partidas : sentados[j] \subseteq sentados'[j]

LEMMA SuyaMenos ==
  ASSUME NEW a \in Actividades, NEW ws, NEW vs, vs \subseteq ws, Crecen, Suya(a, ws, sentados)
  PROVE  Suya(a, vs, sentados')
BY DEF Suya, Crecen, Actividades

(* A search that only lost calls to wait for, or the id it referred to. *)
LEMMA SuyaComo ==
  ASSUME NEW z \in Actividades, NEW a \in Actividades, NEW ws, NEW sen,
         Suya(z, ws, sen), a.fase # "fuera", a.quien = z.quien,
         a.consulta => z.consulta, a.enlace \in {z.enlace, Nada},
         a.jugadaId \in {z.jugadaId, Nada}, a.abiertas = z.abiertas,
         Callada(z) => Callada(a), NEW N,
         \A w \in N : w.tipo \notin {"add", "set", "update"}
  PROVE  Suya(a, ws \cup N, sen)
<1> DEFINE vs == ws \cup N
<1>1. \A w \in vs : w \in ws \/ w.tipo \notin {"add", "set", "update"}
  OBVIOUS
<1> HIDE DEF vs
<1>2. Suya(a, vs, sen)
  BY <1>1 DEF Suya, Actividades
<1> QED BY <1>2 DEF vs

(* A step in which search b becomes a and queues the writes N. *)
LEMMA PasaSuya ==
  ASSUME AperturaInv, NEW b \in Busquedas, NEW a \in Actividades, Pasa(b, a),
         NEW c \in Clientes, a.quien = c, act[b].quien \in {c, Nada},
         NEW N \in SUBSET Escrituras, Nuevas(c, N), Crecen,
         \A w \in N : w.de = b /\ Propia(c, w),
         Suya(a, Suyas(b) \cup N, sentados')
  PROVE  SuyaInv' /\ FirmasInv'
<1>0. /\ \A x \in Busquedas : act[x] \in Actividades
      /\ act'[b] = a /\ \A x \in Busquedas : x # b => act'[x] = act[x]
  BY DEF AperturaInv, Inv, ActInv, Pasa
<1>1. ASSUME NEW x \in Busquedas PROVE Suya(act'[x], Suyas(x)', sentados')
  <2>1. CASE x = b
    <3>1. Suyas(x)' \subseteq Suyas(b) \cup N
      BY <2>1 DEF Suyas, Nuevas
    <3>2. Suya(a, Suyas(x)', sentados')
      BY <3>1 DEF Suya
    <3> QED BY <1>0, <2>1, <3>2
  <2>2. CASE x # b
    <3>1. Suyas(x)' \subseteq Suyas(x)
      BY <2>2 DEF Suyas, Nuevas
    <3>2. Suya(act[x], Suyas(x), sentados)
      BY DEF AperturaInv, SuyaInv
    <3> QED BY <1>0, <2>2, <3>1, <3>2, SuyaMenos
  <2> QED BY <2>1, <2>2
<1>2. ASSUME NEW d \in Clientes, NEW w \in Escrituras, EnCola(d, w)', w.de # Nada
      PROVE  act'[w.de].quien = d /\ Propia(d, w)
  <2>1. w.de \in Busquedas
    BY <1>2 DEF Escrituras
  <2>2. CASE d = c /\ w \in N
    BY <1>0, <2>2
  <2>3. CASE EnCola(d, w)
    <3>1. act[w.de].quien = d /\ Propia(d, w)
      BY <1>2, <2>3 DEF AperturaInv, FirmasInv
    <3>2. d # Nada
      BY NadaAssumption
    <3> QED BY <1>0, <2>1, <3>1, <3>2
  <2> QED BY <1>2, <2>2, <2>3 DEF Nuevas
<1> QED BY <1>1, <1>2 DEF SuyaInv, FirmasInv

(* The same, of a step that queues nothing. *)
LEMMA PasaSuyaSola ==
  ASSUME AperturaInv, NEW b \in Busquedas, NEW a \in Actividades, Pasa(b, a),
         NEW c \in Clientes, a.quien = c, act[b].quien \in {c, Nada},
         Nuevas(c, {}), Crecen, Suya(a, Suyas(b) \cup {}, sentados')
  PROVE  SuyaInv' /\ FirmasInv'
<1>1. {} \in SUBSET Escrituras /\ \A w \in {} : w.de = b /\ Propia(c, w)
  OBVIOUS
<1> QED BY <1>1, PasaSuya

(* A step that ends the application of the player of b. *)
LEMMA CaidaSuya ==
  ASSUME AperturaInv, NEW b \in Busquedas, Caida(b), NEW c \in Clientes,
         Nuevas(c, {}), Crecen
  PROVE  SuyaInv' /\ FirmasInv'
<1>1. ASSUME NEW x \in Busquedas
      PROVE  Suya(act'[x], Suyas(x)', sentados') /\ act'[x].quien = act[x].quien
  <2> DEFINE z == Cerrada
             q == act[b].quien
             v == act[x].abiertas
             y == [z EXCEPT !.fase = "caida", !.quien = q, !.abiertas = v]
  <2>0. act[x] \in Actividades /\ Suya(act[x], Suyas(x), sentados)
    BY DEF AperturaInv, Inv, ActInv, SuyaInv
  <2>1. /\ z \in Actividades /\ z.enlace = Nada /\ ~z.consulta /\ z.jugadaId = Nada
    BY CerradaTipo DEF Cerrada
  <2>2. act'[x] = IF act[x].quien # q THEN act[x] ELSE y
    BY DEF Caida
  <2>3. Suyas(x)' \subseteq Suyas(x)
    BY DEF Suyas, Nuevas
  <2>4. CASE act[x].quien # q
    BY <2>0, <2>2, <2>3, <2>4, SuyaMenos
  <2>5. CASE act[x].quien = q
    <3> HIDE DEF z
    <3>1. /\ y.fase = "caida" /\ y.quien = q /\ y.abiertas = v /\ y.enlace = Nada
          /\ ~y.consulta /\ y.jugadaId = Nada
      BY <2>1 DEF Actividades
    <3>2. \A j \in v : q \in sentados'[j]
      BY <2>0, <2>5 DEF Suya, Crecen, Actividades
    <3> HIDE DEF y, q, v
    <3>3. Suya(y, Suyas(x)', sentados')
      BY <3>1, <3>2 DEF Suya
    <3> QED BY <2>2, <2>5, <3>1, <3>3 DEF q
  <2> QED BY <2>4, <2>5
<1>2. FirmasInv'
  <2> SUFFICES ASSUME NEW d \in Clientes, NEW w \in Escrituras, EnCola(d, w)', w.de # Nada
               PROVE  act'[w.de].quien = d /\ Propia(d, w)
    BY DEF FirmasInv
  <2>1. EnCola(d, w) /\ w.de \in Busquedas
    BY DEF Nuevas, Escrituras
  <2> QED BY <1>1, <2>1 DEF AperturaInv, FirmasInv
<1> QED BY <1>1, <1>2 DEF SuyaInv

(* starGame, with a match the player has a seat in. *)
LEMMA StarGameSuya ==
  ASSUME AperturaInv, NEW b \in Busquedas, NEW a \in Actividades, StarGame(b, a),
         NEW c \in Clientes, a.quien = c, act[b].quien = c, a.fase # "fuera",
         Nuevas(c, {}), Crecen, ~a.consulta, a.enlace = Nada,
         \A j \in a.abiertas : c \in sentados'[j],
         a.jugadaId # Nada => c \in sentados'[a.jugadaId]
  PROVE  SuyaInv' /\ FirmasInv'
<1>1. CASE a.jugadaId = Nada /\ Caida(b)
  BY <1>1, CaidaSuya
<1>2. CASE a.jugadaId # Nada /\ Pasa(b, Abre(a))
  <2> DEFINE v == a.abiertas \cup {a.jugadaId}
             e == [a EXCEPT !.oye = Nada, !.jugadaId = Nada, !.abiertas = v]
  <2>1. Abre(a) = e
    BY DEF Abre, Actividades
  <2>2. v \in SUBSET Partidas /\ \A j \in v : c \in sentados'[j]
    BY <1>2 DEF Actividades
  <2> HIDE DEF v
  <2>3. /\ e \in Actividades /\ e.fase = a.fase /\ e.quien = c /\ e.enlace = Nada
        /\ ~e.consulta /\ e.jugadaId = Nada /\ e.abiertas = v
    BY <2>2 DEF Actividades
  <2> HIDE DEF e
  <2>4. Suya(e, Suyas(b) \cup {}, sentados')
    BY <2>2, <2>3 DEF Suya
  <2> QED BY <1>2, <2>1, <2>3, <2>4, PasaSuya
<1> QED BY <1>1, <1>2 DEF StarGame

-----------------------------------------------------------------------------
(* The server's step: an answer finds the player with its seat. *)
LEMMA AplicaSuya ==
  ASSUME AperturaInv, NEW c \in Clientes, Aplica(c)
  PROVE  SuyaInv' /\ FirmasInv'
<1> DEFINE w == Head(pend[c])
           b == w.de
           z == act[b]
           d == Tras(c, w, jugadas[w.j])
<1>1. /\ pend[c] # <<>> /\ pend' = [pend EXCEPT ![c] = Tail(@)]
      /\ sentados' = [sentados EXCEPT ![w.j] = @ \cup Asientos(d)]
      /\ \/ SinRespuesta(w)
         \/ b # Nada /\ Viva(b) /\ (Creada(w) \/ Unida(w) \/ YaNoExiste(w) \/ Borrada(w))
  BY DEF Aplica
<1>2. Nuevas(c, {}) /\ w \in Escrituras /\ EnCola(c, w)
  BY <1>1, AplicaNuevas DEF AperturaInv
<1>3. /\ w.j \in Partidas /\ b \in Busquedas \cup {Nada} /\ w.doc \in Docs \cup {Nada}
      /\ Asientos(d) \in SUBSET Clientes
      /\ w.tipo = "add" => d # Nada
  BY <1>1, <1>2, AplicaDoc DEF AperturaInv, Escrituras
<1>4. /\ Crecen /\ \A j \in Partidas : sentados'[j] \in SUBSET Clientes
      /\ Asientos(d) \subseteq sentados'[w.j]
  <2> DEFINE j == w.j
             n == Asientos(d)
  <2>1. /\ sentados' = [sentados EXCEPT ![j] = @ \cup n]
        /\ j \in Partidas /\ n \in SUBSET Clientes
        /\ sentados \in [Partidas -> SUBSET Clientes]
    BY <1>1, <1>3 DEF AperturaInv, Inv, DatosInv, DatosTipo
  <2> HIDE DEF j, n
  <2>2. /\ Crecen /\ \A k \in Partidas : sentados'[k] \in SUBSET Clientes
        /\ n \subseteq sentados'[j]
    BY <2>1 DEF Crecen
  <2> QED BY <2>2 DEF j, n
<1>5. CASE SinRespuesta(w)
  <2>1. ASSUME NEW x \in Busquedas PROVE Suya(act'[x], Suyas(x)', sentados')
    <3>1. Suyas(x)' \subseteq Suyas(x)
      BY <1>2 DEF Suyas, Nuevas
    <3>2. act[x] \in Actividades /\ Suya(act[x], Suyas(x), sentados) /\ act' = act
      BY <1>5 DEF AperturaInv, Inv, ActInv, SuyaInv, SinRespuesta
    <3> QED BY <1>4, <3>1, <3>2, SuyaMenos
  <2>2. FirmasInv'
    BY <1>2, <1>5 DEF SinRespuesta, AperturaInv, FirmasInv, Nuevas
  <2> QED BY <2>1, <2>2 DEF SuyaInv
<1>6. CASE b # Nada /\ Viva(b) /\ (Creada(w) \/ Unida(w) \/ YaNoExiste(w) \/ Borrada(w))
  <2>1. /\ b \in Busquedas /\ z \in Actividades /\ z.quien = c /\ Propia(c, w)
        /\ z.fase # "fuera" /\ Suya(z, Suyas(b), sentados) /\ w \in Suyas(b)
    BY <1>2, <1>3, <1>6
    DEF AperturaInv, FirmasInv, SuyaInv, Inv, ActInv, Viva, Suyas
  <2>2. w.tipo \in {"add", "set", "update"} => ~z.consulta /\ z.enlace = Nada
    BY <2>1 DEF Suya, Actividades
  <2>3. /\ Suya(z, Suyas(b), sentados')
        /\ \A j \in z.abiertas : c \in sentados'[j]
    <3>1. Suya(z, Suyas(b), sentados')
      BY <1>4, <2>1, SuyaMenos
    <3>2. \A j \in z.abiertas : z.quien \in sentados'[j]
      BY <3>1 DEF Suya
    <3> QED BY <2>1, <3>1, <3>2
  <2>4. CASE Creada(w)
    <3> DEFINE j == w.j
               o == Oye(b)
               a == [z EXCEPT !.jugadaId = j, !.oye = j, !.sueltas = o]
    <3>1. Pasa(b, a) /\ w.tipo = "add"
      BY <2>4 DEF Creada
    <3>2. c \in sentados'[j]
      <4>0. d = w.doc
        BY <3>1 DEF Tras
      <4>1. d # Nada /\ d.uno = c
        BY <1>3, <2>1, <3>1, <4>0 DEF Propia
      <4>2. c \in Asientos(d)
        BY <4>1, NadaAssumption DEF Asientos
      <4> QED BY <1>4, <4>2
    <3>3. o \in SUBSET Partidas
      BY <2>1 DEF Oye, Actividades
    <3> HIDE DEF o, j, z
    <3>4. /\ a \in Actividades /\ a.quien = c /\ a.enlace = Nada /\ ~a.consulta
          /\ a.fase = z.fase /\ a.jugadaId = j /\ a.abiertas = z.abiertas
      BY <1>3, <2>1, <2>2, <3>1, <3>3 DEF Actividades, j
    <3> HIDE DEF a
    <3>5. Suya(a, Suyas(b) \cup {}, sentados')
      BY <2>1, <2>3, <3>2, <3>4 DEF Suya
    <3> QED BY <1>2, <1>4, <2>1, <3>1, <3>4, <3>5, PasaSuyaSola DEF z
  <2>5. CASE Unida(w)
    <3>1. /\ StarGame(b, z) /\ SeHizo(w, jugadas[w.j])
          /\ w.tipo \in {"set", "update"}
      BY <2>5 DEF Unida
    <3>2. c \in sentados'[w.j]
      <4>1. CASE w.tipo = "set"
        <5>1. d = w.doc /\ d.dos = c
          BY <2>1, <4>1 DEF Tras, Propia
        <5>2. d # Nada
          <6>1. Buena(creadas, sentados, c, w)
            BY <1>2 DEF AperturaInv, Inv, DatosInv, ColasInv, EnCola
          <6> QED BY <4>1, <5>1, <6>1, NuloDocAssumption DEF Buena, Fiel
        <5> QED BY <1>4, <5>1, <5>2, NadaAssumption DEF Asientos
      <4>2. CASE w.tipo = "update"
        <5>1. jugadas[w.j] # Nada /\ jugadas[w.j] \in Docs
          BY <1>3, <3>1, <4>2 DEF SeHizo, AperturaInv, Inv, DatosInv, DatosTipo
        <5>2. d = ConSegundo(jugadas[w.j], c)
          BY <4>2, <5>1 DEF Tras
        <5>3. d \in Docs /\ d.dos = c
          BY <5>1, <5>2 DEF ConSegundo, Docs
        <5> QED BY <1>4, <5>3, NadaAssumption, NuloDocAssumption DEF Asientos
      <4> QED BY <3>1, <4>1, <4>2
    <3>3. z.jugadaId # Nada => c \in sentados'[z.jugadaId]
      <4>1. CASE c \in sentados[z.jugadaId]
        BY <1>4, <2>1, <4>1 DEF Crecen, Actividades
      <4>2. CASE z.jugadaId # Nada /\ c \notin sentados[z.jugadaId]
        BY <2>1, <3>1, <3>2, <4>2 DEF Suya
      <4> QED BY <4>1, <4>2
    <3> QED BY <1>2, <1>4, <2>1, <2>2, <2>3, <3>1, <3>3, StarGameSuya
  <2>6. CASE YaNoExiste(w)
    <3> DEFINE f == CASE z.fase = "activa" -> "saliendo"
                      [] z.fase = "detenida" -> "fin"
                      [] OTHER -> z.fase
               a == [z EXCEPT !.fase = f]
    <3>1. Pasa(b, a)
      BY <2>1, <2>6 DEF YaNoExiste, Actividades
    <3>2. f \in FasesBusqueda /\ f # "fuera"
      BY <2>1 DEF Actividades, FasesBusqueda
    <3> HIDE DEF f, z
    <3>3. /\ a \in Actividades /\ a.quien = c /\ a.enlace = z.enlace
          /\ a.consulta = z.consulta /\ a.fase = f /\ a.jugadaId = z.jugadaId
          /\ a.abiertas = z.abiertas /\ Oidas(a) = Oidas(z) /\ a.puestos = z.puestos
      BY <2>1, <3>2 DEF Actividades, Oidas
    <3> HIDE DEF a
    <3>4. Suya(a, Suyas(b) \cup {}, sentados')
      BY <2>1, <2>3, <3>2, <3>3, SuyaComo DEF Callada, z
    <3>5. a \in Actividades /\ a.quien = c /\ act[b].quien \in {c, Nada}
      BY <2>1, <3>3 DEF z
    <3> QED BY <1>2, <1>4, <2>1, <3>1, <3>4, <3>5, PasaSuyaSola
  <2>7. CASE Borrada(w)
    <3> DEFINE a == [z EXCEPT !.jugadaId = Nada]
    <3>1. Pasa(b, a)
      BY <2>7 DEF Borrada
    <3> HIDE DEF z
    <3>2. /\ a \in Actividades /\ a.quien = c /\ a.enlace = z.enlace
          /\ a.consulta = z.consulta /\ a.fase = z.fase /\ a.jugadaId = Nada
          /\ a.abiertas = z.abiertas /\ Oidas(a) = Oidas(z) /\ a.puestos = z.puestos
      BY <2>1 DEF Actividades, Oidas
    <3> HIDE DEF a
    <3>3. Suya(a, Suyas(b) \cup {}, sentados')
      BY <2>1, <2>3, <3>2, SuyaComo DEF Callada, z
    <3>5. a \in Actividades /\ a.quien = c /\ act[b].quien \in {c, Nada}
      BY <2>1, <3>2 DEF z
    <3> QED BY <1>2, <1>4, <2>1, <3>1, <3>3, <3>5, PasaSuyaSola
  <2> QED BY <1>6, <2>4, <2>5, <2>6, <2>7
<1> QED BY <1>1, <1>5, <1>6

-----------------------------------------------------------------------------
(* A search that opens had nothing: no write, no listener. *)
LEMMA AbreSuya ==
  ASSUME AperturaInv, NEW b \in Busquedas, NEW c \in Clientes, act[b].fase = "fuera",
         NEW a \in Actividades, Pasa(b, a), a.quien = c, a.fase = "activa",
         a.puestos = 0, Oidas(a) = {}, a.abiertas = {}, a.consulta => a.enlace = Nada,
         NEW N \in SUBSET Escrituras, Nuevas(c, N), UNCHANGED sentados,
         \A w \in N : w.de = b /\ Propia(c, w),
         a.consulta \/ a.enlace # Nada => N = {},
         \A w \in N : w.tipo \in {"set", "update"} => w.j = a.jugadaId
  PROVE  SuyaInv' /\ FirmasInv'
<1>1. act[b] = Cerrada
  BY DEF AperturaInv, SuyaInv, Suya
<1>2. act[b].quien = Nada
  BY <1>1 DEF Cerrada
<1>3. Suyas(b) = {}
  <2> SUFFICES ASSUME NEW w \in Escrituras, NEW d \in Clientes, EnCola(d, w), w.de = b
               PROVE  FALSE
    BY DEF Suyas
  <2>1. w.de # Nada
    BY NadaAssumption DEF Busquedas
  <2>2. act[b].quien = d
    BY <2>1 DEF AperturaInv, FirmasInv
  <2> QED BY <1>2, <2>2, NadaAssumption
<1>4. Suya(a, Suyas(b) \cup N, sentados') /\ Crecen
  <2>1. Suyas(b) \cup N = N
    BY <1>3
  <2>2. Suya(a, N, sentados')
    BY DEF Suya, Callada
  <2> QED BY <2>1, <2>2 DEF Crecen
<1> QED BY <1>2, <1>4, PasaSuya

LEMMA AbiertaSuya ==
  ASSUME NEW c \in Clientes
  PROVE  LET z == Abierta(c)
         IN /\ z \in Actividades /\ z.quien = c /\ z.fase = "activa" /\ z.puestos = 0
            /\ z.oye = Nada /\ z.sueltas = {} /\ z.abiertas = {} /\ ~z.consulta
            /\ z.enlace = Nada /\ z.jugadaId = Nada
<1>1. Abierta(c) \in Actividades
  BY AbiertaTipo
<1> QED BY <1>1 DEF Abierta, Cerrada

(* The writes of a creation are those of its search and of its player. *)
LEMMA AddsPropias ==
  ASSUME Inv, NEW k \in Nat, NEW ids \in PorCrear(k), NEW b \in Busquedas,
         NEW c \in Clientes, NEW inv \in Clientes \cup {Nada}, Crea(ids, Nueva(c, inv))
  PROVE  LET ops == Adds(b, ids, Nueva(c, inv))
         IN /\ ops \in Seq(Escrituras) /\ Len(ops) = k
            /\ \A i \in 1..k : ops[i].de = b /\ ops[i].tipo = "add" /\ Propia(c, ops[i])
<1> DEFINE doc == Nueva(c, inv)
           ops == Adds(b, ids, doc)
<1>1. doc \in Docs /\ doc.dos = Nada /\ doc.uno = c
  BY NuevaTipo DEF Nueva
<1>2. DatosInv /\ Crea(ids, doc)
  BY DEF Inv
<1>3. ids \in [1..k -> SinUsar] /\ DOMAIN ids = 1..k
  BY DEF PorCrear
<1>4. \A i \in 1..k : ops[i] = [tipo |-> "add", j |-> ids[i], doc |-> doc, de |-> b]
  BY <1>3 DEF Adds
<1> HIDE DEF doc
<1>5. ops \in Seq(Escrituras) /\ Len(ops) = k
  BY <1>1, <1>2, AddsBuenos
<1>6. ASSUME NEW i \in 1..k PROVE ops[i].de = b /\ ops[i].tipo = "add" /\ ops[i].doc = doc
  <2> DEFINE w == ops[i]
  <2>1. w = [tipo |-> "add", j |-> ids[i], doc |-> doc, de |-> b]
    BY <1>4
  <2> HIDE DEF w, ops
  <2>2. w.de = b /\ w.tipo = "add" /\ w.doc = doc
    BY <2>1
  <2> QED BY <2>2 DEF w
<1> HIDE DEF ops
<1>7. \A i \in 1..k : ops[i].de = b /\ ops[i].tipo = "add" /\ Propia(c, ops[i])
  BY <1>1, <1>6 DEF Propia
<1> QED BY <1>5, <1>7 DEF ops, doc

LEMMA AceptaTipo ==
  ASSUME NEW b \in Busquedas, NEW c \in Clientes, NEW j \in Partidas
  PROVE  LET w == [tipo |-> "update", j |-> j, doc |-> Nada, de |-> b]
         IN w \in Escrituras /\ w.tipo = "update" /\ w.j = j /\ w.de = b /\ Propia(c, w)
BY DEF Escrituras, Tipos, Propia

LEMMA AbrirSuya ==
  ASSUME AperturaInv, NEW b \in Busquedas, NEW c \in Clientes, Abrir(b, c)
  PROVE  SuyaInv' /\ FirmasInv'
<1> DEFINE z == Abierta(c)
<1>0. /\ z \in Actividades /\ z.quien = c /\ z.fase = "activa" /\ z.puestos = 0
      /\ z.oye = Nada /\ z.sueltas = {} /\ z.abiertas = {} /\ ~z.consulta
      /\ z.enlace = Nada /\ z.jugadaId = Nada
  BY AbiertaSuya
<1>1. CASE AbrirLibre(b, c)
  <2> DEFINE a == [z EXCEPT !.consulta = TRUE]
  <2>1. Pasa(b, a) /\ act[b].fase = "fuera" /\ UNCHANGED <<pend, sentados>>
    BY <1>1 DEF AbrirLibre, PuedeAbrir
  <2> HIDE DEF z
  <2>2. /\ a \in Actividades /\ a.quien = c /\ a.fase = "activa" /\ a.puestos = 0
        /\ Oidas(a) = {} /\ a.abiertas = {} /\ a.enlace = Nada
    BY <1>0 DEF Actividades, Oidas
  <2> HIDE DEF a
  <2>3. Nuevas(c, {})
    BY <2>1, QuietaNuevas
  <2> QED BY <2>1, <2>2, <2>3, AbreSuya
<1>2. ASSUME NEW inv \in Clientes, AbrirInvitando(b, c, inv) PROVE SuyaInv' /\ FirmasInv'
  <2> DEFINE v == (inv = c)
             a == [z EXCEPT !.crearInv = v]
  <2>1. /\ Pasa(b, a) /\ act[b].fase = "fuera" /\ UNCHANGED sentados /\ v \in BOOLEAN
        /\ \E ids \in PorCrear(1) : /\ Encola(c, Adds(b, ids, Nueva(c, inv)))
                                    /\ Crea(ids, Nueva(c, inv))
    BY <1>2 DEF AbrirInvitando, PuedeAbrir
  <2>2. PICK ids \in PorCrear(1) : /\ Encola(c, Adds(b, ids, Nueva(c, inv)))
                                   /\ Crea(ids, Nueva(c, inv))
    BY <2>1
  <2> DEFINE ops == Adds(b, ids, Nueva(c, inv))
             N == {w \in Escrituras : w.de = b /\ w.tipo = "add" /\ Propia(c, w)}
  <2>3. /\ ops \in Seq(Escrituras) /\ Encola(c, ops)
        /\ \A i \in 1..Len(ops) : ops[i].de = b /\ ops[i].tipo = "add" /\ Propia(c, ops[i])
    BY <2>2, AddsPropias DEF AperturaInv
  <2> HIDE DEF z, v, ops
  <2>4. /\ a \in Actividades /\ a.quien = c /\ a.fase = "activa" /\ a.puestos = 0
        /\ Oidas(a) = {} /\ a.abiertas = {} /\ a.enlace = Nada /\ ~a.consulta
    BY <1>0, <2>1 DEF Actividades, Oidas
  <2> HIDE DEF a
  <2>5. \A i \in 1..Len(ops) : ops[i] \in N
    BY <2>3
  <2>6. Nuevas(c, N)
    BY <2>3, <2>5, EncolaNuevas DEF AperturaInv
  <2>7. /\ N \in SUBSET Escrituras
        /\ \A w \in N : w.de = b /\ Propia(c, w) /\ w.tipo \notin {"set", "update"}
    OBVIOUS
  <2> HIDE DEF N
  <2> QED BY <2>1, <2>4, <2>6, <2>7, AbreSuya
<1>3. ASSUME NEW j \in Partidas, AbrirInvitado(b, c, j) PROVE SuyaInv' /\ FirmasInv'
  <2> DEFINE a == [z EXCEPT !.jugadaId = j]
             w == [tipo |-> "update", j |-> j, doc |-> Nada, de |-> b]
             ops == <<w>>
  <2>1. /\ Pasa(b, a) /\ act[b].fase = "fuera" /\ UNCHANGED sentados /\ Encola(c, ops)
    BY <1>3 DEF AbrirInvitado, PuedeAbrir, Acepta
  <2>2. /\ w \in Escrituras /\ w.tipo = "update" /\ w.j = j /\ w.de = b /\ Propia(c, w)
    BY AceptaTipo
  <2> HIDE DEF z, w
  <2>3. /\ a \in Actividades /\ a.quien = c /\ a.fase = "activa" /\ a.puestos = 0
        /\ Oidas(a) = {} /\ a.abiertas = {} /\ a.enlace = Nada /\ ~a.consulta
        /\ a.jugadaId = j
    BY <1>0 DEF Actividades, Oidas
  <2> HIDE DEF a
  <2>4. ops \in Seq(Escrituras) /\ \A i \in 1..Len(ops) : ops[i] \in {w}
    BY <2>2
  <2> HIDE DEF ops
  <2>5. Nuevas(c, {w})
    BY <2>1, <2>4, EncolaNuevas DEF AperturaInv
  <2> QED BY <2>1, <2>2, <2>3, <2>5, AbreSuya
<1>4. ASSUME NEW j \in Partidas, AbrirEnlace(b, c, j) PROVE SuyaInv' /\ FirmasInv'
  <2> DEFINE a == [z EXCEPT !.enlace = j]
  <2>1. Pasa(b, a) /\ act[b].fase = "fuera" /\ UNCHANGED <<pend, sentados>>
    BY <1>4 DEF AbrirEnlace, PuedeAbrir
  <2> HIDE DEF z
  <2>2. /\ a \in Actividades /\ a.quien = c /\ a.fase = "activa" /\ a.puestos = 0
        /\ Oidas(a) = {} /\ a.abiertas = {} /\ ~a.consulta
    BY <1>0 DEF Actividades, Oidas
  <2> HIDE DEF a
  <2>3. Nuevas(c, {})
    BY <2>1, QuietaNuevas
  <2> QED BY <2>1, <2>2, <2>3, AbreSuya
<1> QED BY <1>1, <1>2, <1>3, <1>4 DEF Abrir

-----------------------------------------------------------------------------
(* The steps of a search that was opened. *)
LEMMA DeAbierta ==
  ASSUME AperturaInv, NEW b \in Busquedas, act[b].fase # "fuera"
  PROVE  /\ act[b] \in Actividades /\ act[b].quien \in Clientes
         /\ Suya(act[b], Suyas(b), sentados)
BY DEF AperturaInv, Inv, ActInv, Firme, SuyaInv

LEMMA AvanzaSuya ==
  ASSUME AperturaInv, NEW b \in Busquedas, act[b].fase # "fuera", Avanza(b) \/ Volver(b)
  PROVE  SuyaInv' /\ FirmasInv'
<1> DEFINE z == act[b]
           c == z.quien
<1>0. /\ z \in Actividades /\ c \in Clientes /\ z.fase # "fuera"
      /\ Suya(z, Suyas(b), sentados)
  BY DeAbierta
<1>a. UNCHANGED sentados => Crecen
  BY DEF Crecen
<1>1. CASE Enlace(b)
  <2> DEFINE j == z.enlace
             a == [z EXCEPT !.enlace = Nada, !.jugadaId = j]
             w == [tipo |-> "update", j |-> j, doc |-> Nada, de |-> b]
             ops == <<w>>
  <2>1. Pasa(b, a) /\ j \in Partidas /\ UNCHANGED sentados /\ Encola(c, ops) /\ j # Nada
    BY <1>0, <1>1 DEF Enlace, Actividades, Acepta
  <2>2. w \in Escrituras /\ w.tipo = "update" /\ w.j = j /\ w.de = b /\ Propia(c, w)
    BY <1>0, <2>1, AceptaTipo
  <2>3. /\ Callada(z) /\ ~z.consulta
        /\ \A x \in Suyas(b) : x.tipo \notin {"add", "set", "update"}
    BY <1>0, <2>1 DEF Suya, Actividades
  <2> HIDE DEF w, j, c, z
  <2>4. /\ a \in Actividades /\ a.quien = c /\ a.fase = z.fase /\ a.jugadaId = j
        /\ Callada(a) /\ a.abiertas = z.abiertas /\ a.enlace = Nada /\ ~a.consulta
    BY <1>0, <2>1, <2>3 DEF Actividades, Callada, Oidas, c
  <2> HIDE DEF a
  <2>5. ops \in Seq(Escrituras) /\ \A i \in 1..Len(ops) : ops[i] \in {w}
    BY <2>2
  <2> HIDE DEF ops
  <2>6. Nuevas(c, {w})
    BY <1>0, <2>1, <2>5, EncolaNuevas DEF AperturaInv
  <2>7. Suya(a, Suyas(b) \cup {w}, sentados')
    <3>1. \A x \in Suyas(b) \cup {w} : x.tipo \in {"set", "update"} => x.j = a.jugadaId
      BY <2>2, <2>3, <2>4
    <3>2. \A k \in a.abiertas : a.quien \in sentados'[k]
      BY <1>0, <2>1, <2>4 DEF Suya, c
    <3> QED BY <1>0, <2>4, <3>1, <3>2 DEF Suya
  <2>8. c \in Clientes /\ act[b].quien \in {c, Nada} /\ Crecen
    BY <1>0, <1>a, <2>1 DEF c, z
  <2>9. {w} \in SUBSET Escrituras /\ \A x \in {w} : x.de = b /\ Propia(c, x)
    BY <2>2
  <2> QED BY <2>1, <2>4, <2>6, <2>7, <2>8, <2>9, PasaSuya
<1>2. CASE NingunaSirve(b)
  <2> DEFINE k == IF Libres(c) = {} THEN 1 ELSE Cardinality(Libres(c))
             a == [z EXCEPT !.consulta = FALSE]
  <2>1. /\ Pasa(b, a) /\ UNCHANGED sentados /\ z.consulta
        /\ \E ids \in PorCrear(k) : /\ Encola(c, Adds(b, ids, Nueva(c, Nada)))
                                    /\ Crea(ids, Nueva(c, Nada))
    BY <1>2 DEF NingunaSirve, Consultada
  <2>2. PICK ids \in PorCrear(k) : /\ Encola(c, Adds(b, ids, Nueva(c, Nada)))
                                   /\ Crea(ids, Nueva(c, Nada))
    BY <2>1
  <2>3. k \in Nat
    BY <1>0, LibresFinito DEF AperturaInv, Inv
  <2> DEFINE ops == Adds(b, ids, Nueva(c, Nada))
             N == {w \in Escrituras : w.de = b /\ w.tipo = "add" /\ Propia(c, w)}
  <2>4. /\ ops \in Seq(Escrituras) /\ Encola(c, ops)
        /\ \A i \in 1..Len(ops) : ops[i].de = b /\ ops[i].tipo = "add" /\ Propia(c, ops[i])
    BY <1>0, <2>2, <2>3, AddsPropias DEF AperturaInv
  <2> HIDE DEF ops, k
  <2>5. \A i \in 1..Len(ops) : ops[i] \in N
    BY <2>4
  <2>6. Nuevas(c, N)
    BY <1>0, <2>4, <2>5, EncolaNuevas DEF AperturaInv
  <2>7. N \in SUBSET Escrituras /\ \A w \in N : w.de = b /\ Propia(c, w) /\ w.tipo = "add"
    OBVIOUS
  <2> HIDE DEF N, z
  <2>8. /\ a \in Actividades /\ a.quien = c /\ a.fase = z.fase /\ a.jugadaId = z.jugadaId
        /\ a.puestos = z.puestos /\ Oidas(a) = Oidas(z) /\ a.abiertas = z.abiertas
        /\ a.enlace = Nada /\ ~a.consulta
    BY <1>0, <2>1 DEF Actividades, Oidas, Suya
  <2> HIDE DEF a
  <2>9. Suya(a, Suyas(b) \cup N, sentados')
    <3> DEFINE ws == Suyas(b) \cup N
    <3>1. \A x \in ws : x \in Suyas(b) \/ x.tipo = "add"
      BY <2>7
    <3> HIDE DEF ws
    <3>2. Suya(a, ws, sentados)
      BY <1>0, <2>8, <3>1 DEF Suya, Callada
    <3> QED BY <2>1, <3>2 DEF ws
  <2>10. act[b].quien \in {c, Nada} /\ Crecen
    BY <1>a, <2>1 DEF z
  <2> QED BY <1>0, <2>1, <2>6, <2>7, <2>8, <2>9, <2>10, PasaSuya
<1>3. ASSUME NEW j \in Partidas, NEW antes \in SUBSET Partidas, Encuentra(b, j, antes)
      PROVE  SuyaInv' /\ FirmasInv'
  <2> DEFINE k == Cardinality(antes)
             w == [tipo |-> "set", j |-> j, doc |-> ConSegundo(jugadas[j], c), de |-> b]
             a == [z EXCEPT !.consulta = FALSE, !.jugadaId = j]
  <2>1. /\ Pasa(b, a) /\ UNCHANGED sentados /\ z.consulta /\ j \in Elegibles(c)
        /\ \E ids \in PorCrear(k) : /\ Encola(c, Append(Adds(b, ids, Nueva(c, Nada)), w))
                                    /\ Crea(ids, Nueva(c, Nada))
    BY <1>3 DEF Encuentra, Consultada
  <2>2. PICK ids \in PorCrear(k) : /\ Encola(c, Append(Adds(b, ids, Nueva(c, Nada)), w))
                                   /\ Crea(ids, Nueva(c, Nada))
    BY <2>1
  <2>3. k \in Nat
    BY <1>0, LibresFinito DEF AperturaInv, Inv
  <2> DEFINE cre == Adds(b, ids, Nueva(c, Nada))
             ops == Append(cre, w)
             N == {x \in Escrituras : /\ x.de = b /\ Propia(c, x)
                                      /\ x.tipo = "add" \/ x = w}
  <2>4. /\ cre \in Seq(Escrituras)
        /\ \A i \in 1..Len(cre) : cre[i].de = b /\ cre[i].tipo = "add" /\ Propia(c, cre[i])
    BY <1>0, <2>2, <2>3, AddsPropias DEF AperturaInv
  <2>5. w \in Escrituras /\ w.tipo = "set" /\ w.j = j /\ w.de = b /\ Propia(c, w)
    <3> DEFINE o == ConSegundo(jugadas[j], c)
    <3>1. jugadas[j] \in Docs
      BY <2>1 DEF Elegibles, LibresServidor, AperturaInv, Inv, DatosInv, DatosTipo
    <3>2. o \in Docs /\ o.dos = c
      BY <1>0, <3>1 DEF ConSegundo, Docs
    <3>3. w = [tipo |-> "set", j |-> j, doc |-> o, de |-> b]
      OBVIOUS
    <3> HIDE DEF o, c, w
    <3>4. w.tipo = "set" /\ w.j = j /\ w.de = b /\ w.doc = o /\ w \in Escrituras
      BY <3>2, <3>3 DEF Escrituras, Tipos
    <3> QED BY <3>2, <3>4 DEF Propia
  <2> HIDE DEF cre, w, k
  <2>6. ops \in Seq(Escrituras) /\ \A i \in 1..Len(ops) : ops[i] \in N
    <3>1. /\ ops \in Seq(Escrituras) /\ Len(ops) = Len(cre) + 1 /\ ops[Len(cre) + 1] = w
          /\ \A i \in 1..Len(cre) : ops[i] = cre[i] /\ cre[i] \in Escrituras
      BY <2>4, <2>5
    <3>2. \A i \in 1..Len(cre) : ops[i] \in N
      BY <2>4, <3>1
    <3>3. w \in N
      BY <2>5
    <3> HIDE DEF N, ops
    <3>4. \A i \in 1..Len(ops) : i \in 1..Len(cre) \/ i = Len(cre) + 1
      BY <2>4, <3>1
    <3> QED BY <3>1, <3>2, <3>3, <3>4
  <2>7. Encola(c, ops)
    BY <2>2 DEF cre
  <2> HIDE DEF ops
  <2>8. Nuevas(c, N)
    BY <1>0, <2>6, <2>7, EncolaNuevas DEF AperturaInv
  <2>9. /\ N \in SUBSET Escrituras
        /\ \A x \in N : x.de = b /\ Propia(c, x) /\ (x.tipo = "add" \/ x = w)
    OBVIOUS
  <2> HIDE DEF N, z
  <2>10. /\ a \in Actividades /\ a.quien = c /\ a.fase = z.fase /\ a.jugadaId = j
         /\ a.puestos = z.puestos /\ Oidas(a) = Oidas(z) /\ a.abiertas = z.abiertas
         /\ a.enlace = Nada /\ ~a.consulta
    BY <1>0, <2>1 DEF Actividades, Oidas, Suya
  <2> HIDE DEF a
  <2>11. Suya(a, Suyas(b) \cup N, sentados')
    <3> DEFINE ws == Suyas(b) \cup N
    <3>1. \A x \in ws : x.tipo \in {"set", "update"} => x.j = j
      <4>1. \A x \in Suyas(b) : x.tipo \notin {"set", "update"}
        BY <1>0, <2>1 DEF Suya
      <4> QED BY <2>5, <2>9, <4>1
    <3>2. Callada(a)
      BY <1>0, <2>1, <2>10 DEF Suya, Callada
    <3> HIDE DEF ws
    <3>3. Suya(a, ws, sentados)
      BY <1>0, <2>10, <3>1, <3>2 DEF Suya
    <3> QED BY <2>1, <3>3 DEF ws
  <2>12. act[b].quien \in {c, Nada} /\ Crecen
    BY <1>a, <2>1 DEF z
  <2> QED BY <1>0, <2>1, <2>8, <2>9, <2>10, <2>11, <2>12, PasaSuya
<1>4. ASSUME NEW j \in Partidas, Evento(b, j) PROVE SuyaInv' /\ FirmasInv'
  <2>1. Nuevas(c, {}) /\ UNCHANGED sentados
    BY <1>4, QuietaNuevas DEF Evento
  <2>2. CASE Caida(b)
    BY <1>0, <1>a, <2>1, <2>2, CaidaSuya
  <2>3. CASE UNCHANGED act
    <3>1. UNCHANGED <<act, pend, sentados>>
      BY <1>4, <2>3 DEF Evento
    <3>2. \A d, x : EnCola(d, x)' <=> EnCola(d, x)
      BY <3>1 DEF EnCola
    <3>3. \A x : Suyas(x)' = Suyas(x)
      BY <3>2 DEF Suyas
    <3>4. SuyaInv'
      BY <3>1, <3>3 DEF AperturaInv, SuyaInv
    <3>5. FirmasInv'
      BY <3>1, <3>2 DEF AperturaInv, FirmasInv
    <3> QED BY <3>4, <3>5
  <2>4. CASE Pasa(b, [z EXCEPT !.puestos = @ + 1])
    <3> DEFINE p == z.puestos + 1
               a == [z EXCEPT !.puestos = p]
    <3>1. Pasa(b, a) /\ p \in Nat
      BY <1>0, <2>4 DEF Actividades
    <3>2. Oidas(z) # {}
      BY <1>4 DEF Evento, AperturaInv, DebeInv, Oye, Oidas
    <3>3. ~z.consulta /\ z.enlace = Nada /\ (z.jugadaId # Nada => c \in sentados[z.jugadaId])
      BY <1>0, <3>2 DEF Suya, Callada, Actividades
    <3>4. \A k \in z.abiertas : c \in sentados[k]
      BY <1>0 DEF Suya
    <3> HIDE DEF p, z
    <3>5. /\ a \in Actividades /\ a.quien = c /\ a.fase = z.fase /\ a.jugadaId = z.jugadaId
          /\ a.abiertas = z.abiertas /\ a.enlace = Nada /\ ~a.consulta
      BY <1>0, <3>1, <3>3 DEF Actividades
    <3> HIDE DEF a
    <3>6. Suya(a, Suyas(b) \cup {}, sentados')
      BY <1>0, <2>1, <3>3, <3>4, <3>5 DEF Suya
    <3>7. act[b].quien \in {c, Nada} /\ Crecen
      BY <1>a, <2>1 DEF z
    <3> QED BY <1>0, <2>1, <3>1, <3>5, <3>6, <3>7, PasaSuyaSola
  <2> QED BY <1>4, <2>2, <2>3, <2>4 DEF Evento
<1>5. CASE Empieza(b)
  <2> DEFINE p == z.puestos - 1
             a == [z EXCEPT !.puestos = p]
  <2>1. StarGame(b, a) /\ p \in Nat /\ z.puestos > 0 /\ UNCHANGED <<pend, sentados>>
    BY <1>0, <1>5 DEF Empieza, Actividades
  <2>2. /\ ~z.consulta /\ z.enlace = Nada /\ (z.jugadaId # Nada => c \in sentados[z.jugadaId])
        /\ \A k \in z.abiertas : c \in sentados[k]
    BY <1>0, <2>1 DEF Suya, Callada, Actividades
  <2>3. Nuevas(c, {}) /\ Crecen /\ act[b].quien = c
    BY <1>a, <2>1, QuietaNuevas
  <2> HIDE DEF p, z
  <2>4. /\ a \in Actividades /\ a.quien = c /\ a.fase = z.fase /\ a.jugadaId = z.jugadaId
        /\ a.abiertas = z.abiertas /\ a.enlace = Nada /\ ~a.consulta
    BY <1>0, <2>1, <2>2 DEF Actividades
  <2> HIDE DEF a
  <2>5. /\ \A k \in a.abiertas : c \in sentados'[k]
        /\ a.jugadaId # Nada => c \in sentados'[a.jugadaId]
    BY <2>1, <2>2, <2>4
  <2> QED BY <1>0, <2>1, <2>3, <2>4, <2>5, StarGameSuya
<1>6. ASSUME NEW atras \in BOOLEAN, Parar(b, atras) PROVE SuyaInv' /\ FirmasInv'
  <2> DEFINE v == z.crearInv /\ ~atras
             f == IF z.fase = "activa" /\ ~atras THEN "detenida" ELSE "fin"
             o == IF v THEN z.oye ELSE Nada
             a == [z EXCEPT !.fase = f, !.crearInv = v, !.oye = o, !.enlace = Nada]
             w == [tipo |-> "delete", j |-> z.jugadaId, doc |-> Nada, de |-> b]
             N == {x \in Escrituras : x.de = b /\ x.tipo = "delete"}
  <2>1. /\ Pasa(b, a) /\ UNCHANGED sentados
        /\ \/ UNCHANGED pend
           \/ z.jugadaId # Nada /\ Encola(c, Borra(b, z.jugadaId))
    BY <1>0, <1>6 DEF Parar, Actividades
  <2>2. /\ v \in BOOLEAN /\ f \in FasesBusqueda /\ f # "fuera" /\ o \in Partidas \cup {Nada}
        /\ o \in {z.oye, Nada}
    BY <1>0, <1>6 DEF Parar, Actividades, FasesBusqueda
  <2>3. Nuevas(c, N)
    <3>1. CASE UNCHANGED pend
      BY <3>1 DEF Nuevas, EnCola
    <3>2. CASE z.jugadaId # Nada /\ Encola(c, Borra(b, z.jugadaId))
      <4> DEFINE ops == <<w>>
      <4>1. w \in N /\ Encola(c, ops)
        BY <1>0, <3>2 DEF Escrituras, Tipos, Actividades, Borra
      <4> HIDE DEF w
      <4>2. ops \in Seq(Escrituras) /\ \A i \in 1..Len(ops) : ops[i] \in N
        BY <4>1
      <4> HIDE DEF ops, N
      <4> QED BY <1>0, <4>1, <4>2, EncolaNuevas DEF AperturaInv
    <3> QED BY <2>1, <3>1, <3>2
  <2>4. /\ N \in SUBSET Escrituras
        /\ \A x \in N : x.de = b /\ Propia(c, x) /\ x.tipo \notin {"add", "set", "update"}
    BY DEF Propia
  <2> HIDE DEF N, w, z, v, f, o
  <2>5. /\ a \in Actividades /\ a.quien = c /\ a.fase = f /\ a.jugadaId = z.jugadaId
        /\ a.puestos = z.puestos /\ Oidas(a) \subseteq Oidas(z) /\ a.abiertas = z.abiertas
        /\ a.enlace = Nada /\ a.consulta = z.consulta
    BY <1>0, <2>2 DEF Actividades, Oidas
  <2> HIDE DEF a
  <2>6. Callada(z) => Callada(a)
    BY <2>5 DEF Callada
  <2>7. Suya(a, Suyas(b) \cup N, sentados)
    BY <1>0, <2>2, <2>4, <2>5, <2>6, SuyaComo DEF c
  <2>8. act[b].quien \in {c, Nada} /\ Crecen
    BY <1>a, <2>1 DEF z
  <2> QED BY <1>0, <2>1, <2>3, <2>4, <2>5, <2>7, <2>8, PasaSuya
<1>7. CASE Volver(b)
  <2> DEFINE a == [z EXCEPT !.fase = "activa", !.volvio = TRUE]
  <2>1. Pasa(b, a) /\ UNCHANGED <<pend, sentados>>
    BY <1>7 DEF Volver
  <2>2. Nuevas(c, {})
    BY <2>1, QuietaNuevas
  <2> HIDE DEF z
  <2>3. /\ a \in Actividades /\ a.quien = c /\ a.fase = "activa" /\ a.jugadaId = z.jugadaId
        /\ a.puestos = z.puestos /\ Oidas(a) = Oidas(z) /\ a.abiertas = z.abiertas
        /\ a.enlace = z.enlace /\ a.consulta = z.consulta
    BY <1>0 DEF Actividades, Oidas, FasesBusqueda
  <2> HIDE DEF a
  <2>4. Callada(z) => Callada(a)
    BY <2>3 DEF Callada
  <2>5. Suya(a, Suyas(b) \cup {}, sentados)
    BY <1>0, <2>3, <2>4, SuyaComo DEF c
  <2>6. act[b].quien \in {c, Nada} /\ Crecen
    BY <1>a, <2>1 DEF z
  <2> QED BY <1>0, <2>1, <2>2, <2>3, <2>5, <2>6, PasaSuya
<1> QED BY <1>1, <1>2, <1>3, <1>4, <1>5, <1>6, <1>7 DEF Avanza

(* The writes of the other screens have no search to answer to. *)
LEMMA AjenaSuya ==
  ASSUME AperturaInv, NEW c \in Clientes, NEW j \in Partidas, Juega(c, j) \/ Declina(c, j)
  PROVE  SuyaInv' /\ FirmasInv' /\ DebeInv'
<1>1. PICK w \in Escrituras : Encola(c, <<w>>) /\ w.de = Nada
  <2>1. CASE Juega(c, j)
    <3> DEFINE w == [tipo |-> "juega", j |-> j, doc |-> jugadas[j], de |-> Nada]
    <3>1. Encola(c, <<w>>) /\ jugadas[j] \in Docs \cup {Nada}
      BY <2>1 DEF Juega, Ajena, AperturaInv, Inv, DatosInv, DatosTipo
    <3>2. w \in Escrituras /\ w.de = Nada
      BY <3>1 DEF Escrituras, Tipos
    <3> HIDE DEF w
    <3> QED BY <3>1, <3>2
  <2>2. CASE Declina(c, j)
    <3> DEFINE w == [tipo |-> "rechazo", j |-> j, doc |-> Nada, de |-> Nada]
    <3>1. Encola(c, <<w>>)
      BY <2>2 DEF Declina, Ajena
    <3>2. w \in Escrituras /\ w.de = Nada
      BY DEF Escrituras, Tipos
    <3> HIDE DEF w
    <3> QED BY <3>1, <3>2
  <2> QED BY <2>1, <2>2
<1>2. UNCHANGED <<act, debe, sentados>>
  BY DEF Juega, Declina, Ajena
<1> DEFINE ops == <<w>>
<1>3. ops \in Seq(Escrituras) /\ Encola(c, ops) /\ \A i \in 1..Len(ops) : ops[i] \in {w}
  BY <1>1
<1> HIDE DEF ops
<1>4. Nuevas(c, {w})
  BY <1>3, EncolaNuevas DEF AperturaInv
<1>5. ASSUME NEW b \in Busquedas PROVE Suya(act'[b], Suyas(b)', sentados')
  <2>1. b # Nada
    BY NadaAssumption DEF Busquedas
  <2>2. Suyas(b)' \subseteq Suyas(b)
    BY <1>1, <1>4, <2>1 DEF Suyas, Nuevas
  <2>3. act[b] \in Actividades /\ Suya(act[b], Suyas(b), sentados) /\ Crecen
    BY <1>2 DEF AperturaInv, Inv, ActInv, SuyaInv, Crecen
  <2> QED BY <1>2, <2>2, <2>3, SuyaMenos
<1>6. FirmasInv'
  <2> SUFFICES ASSUME NEW d \in Clientes, NEW x \in Escrituras, EnCola(d, x)', x.de # Nada
               PROVE  act'[x.de].quien = d /\ Propia(d, x)
    BY DEF FirmasInv
  <2>1. EnCola(d, x)
    BY <1>1, <1>4 DEF Nuevas
  <2> QED BY <1>2, <2>1 DEF AperturaInv, FirmasInv
<1>7. DebeInv'
  BY <1>2 DEF AperturaInv, DebeInv, Oye
<1> QED BY <1>5, <1>6, <1>7 DEF SuyaInv

-----------------------------------------------------------------------------
LEMMA AvisosDebe ==
  ASSUME NEW nuevos, Avisos(nuevos)
  PROVE  DebeInv'
<1>1. \A b \in Busquedas : debe'[b] = nuevos[b] \cap Oye(b)'
  BY DEF Avisos
<1> QED BY <1>1 DEF DebeInv

(* A step that asks for no event and keeps the listeners. *)
LEMMA QuietaDebe ==
  ASSUME AperturaInv, NEW b \in Busquedas, NEW a, Pasa(b, a), UNCHANGED debe,
         \/ act[b].fase = "fuera"
         \/ a.oye = act[b].oye /\ a.sueltas = act[b].sueltas
  PROVE  DebeInv'
<1>1. act'[b] = a /\ \A x \in Busquedas : x # b => act'[x] = act[x]
  BY DEF AperturaInv, Inv, ActInv, Pasa
<1>2. CASE act[b].fase = "fuera"
  <2>1. act[b] = Cerrada
    BY <1>2 DEF AperturaInv, SuyaInv, Suya
  <2>2. Oye(b) = {}
    BY <2>1 DEF Oye, Cerrada
  <2>3. debe[b] = {}
    BY <2>2 DEF AperturaInv, DebeInv
  <2> QED BY <1>1, <2>3 DEF AperturaInv, DebeInv, Oye
<1>3. CASE a.oye = act[b].oye /\ a.sueltas = act[b].sueltas
  BY <1>1, <1>3 DEF AperturaInv, DebeInv, Oye
<1> QED BY <1>2, <1>3

LEMMA PasoDebe ==
  ASSUME AperturaInv, NEW b \in Busquedas, Paso(b)
  PROVE  DebeInv'
<1> DEFINE z == act[b]
<1>0. z \in Actividades
  BY DEF AperturaInv, Inv, ActInv
<1>1. ASSUME NEW c \in Clientes, Abrir(b, c) PROVE DebeInv'
  <2>1. z.fase = "fuera" /\ UNCHANGED debe /\ \E a : Pasa(b, a)
    BY <1>1 DEF Abrir, AbrirLibre, AbrirInvitando, AbrirInvitado, AbrirEnlace, PuedeAbrir
  <2> QED BY <2>1, QuietaDebe
<1>2. CASE Enlace(b)
  <2> DEFINE a == [z EXCEPT !.enlace = Nada, !.jugadaId = z.enlace]
  <2>1. Pasa(b, a) /\ UNCHANGED debe
    BY <1>2 DEF Enlace
  <2>2. a.oye = z.oye /\ a.sueltas = z.sueltas
    BY <1>0 DEF Actividades
  <2> QED BY <2>1, <2>2, QuietaDebe
<1>3. CASE NingunaSirve(b)
  <2> DEFINE a == [z EXCEPT !.consulta = FALSE]
  <2>1. Pasa(b, a) /\ UNCHANGED debe
    BY <1>3 DEF NingunaSirve
  <2>2. a.oye = z.oye /\ a.sueltas = z.sueltas
    BY <1>0 DEF Actividades
  <2> QED BY <2>1, <2>2, QuietaDebe
<1>4. ASSUME NEW j \in Partidas, NEW antes \in SUBSET Partidas, Encuentra(b, j, antes)
      PROVE  DebeInv'
  <2> DEFINE a == [z EXCEPT !.consulta = FALSE, !.jugadaId = j]
  <2>1. Pasa(b, a) /\ UNCHANGED debe
    BY <1>4 DEF Encuentra
  <2>2. a.oye = z.oye /\ a.sueltas = z.sueltas
    BY <1>0 DEF Actividades
  <2> QED BY <2>1, <2>2, QuietaDebe
<1>5. CASE \/ \E j \in Partidas : Evento(b, j)
           \/ Empieza(b) \/ \E atras \in BOOLEAN : Parar(b, atras)
  BY <1>5, AvisosDebe DEF Evento, Empieza, Parar
<1>6. CASE Volver(b)
  <2> DEFINE a == [z EXCEPT !.fase = "activa", !.volvio = TRUE]
  <2>1. Pasa(b, a) /\ UNCHANGED debe
    BY <1>6 DEF Volver
  <2>2. a.oye = z.oye /\ a.sueltas = z.sueltas
    BY <1>0 DEF Actividades
  <2> QED BY <2>1, <2>2, QuietaDebe
<1> QED BY <1>1, <1>2, <1>3, <1>4, <1>5, <1>6 DEF Paso, Avanza

LEMMA PasoSuya ==
  ASSUME AperturaInv, NEW b \in Busquedas, Paso(b)
  PROVE  SuyaInv' /\ FirmasInv'
<1>1. CASE \E c \in Clientes : Abrir(b, c)
  BY <1>1, AbrirSuya
<1>2. CASE Avanza(b) \/ Volver(b)
  <2>1. act[b].fase # "fuera"
    <3>1. CASE Volver(b)
      BY <3>1 DEF Volver
    <3>2. CASE Avanza(b)
      <4>1. \/ act[b].fase \in {"activa", "saliendo"} \/ Viva(b)
        BY <3>2 DEF Avanza, Enlace, NingunaSirve, Encuentra, Consultada, Evento, Empieza, Parar
      <4> QED BY <4>1 DEF Viva
    <3> QED BY <1>2, <3>1, <3>2
  <2> QED BY <1>2, <2>1, AvanzaSuya
<1> QED BY <1>1, <1>2 DEF Paso

LEMMA InitApertura == Init => AperturaInv
<1> SUFFICES ASSUME Init PROVE AperturaInv
  OBVIOUS
<1>1. Inv
  BY InitInv
<1>2. \A c \in Clientes : \A w : ~EnCola(c, w)
  BY DEF Init, EnCola
<1>3. ASSUME NEW b \in Busquedas PROVE Suya(act[b], Suyas(b), sentados)
  <2>1. act[b] = Cerrada
    BY DEF Init
  <2>2. /\ act[b].consulta = FALSE /\ act[b].enlace = Nada /\ act[b].jugadaId = Nada
        /\ act[b].abiertas = {}
    BY <2>1 DEF Cerrada
  <2> QED BY <2>1, <2>2 DEF Suya
<1>4. DebeInv
  BY DEF Init, DebeInv
<1> QED BY <1>1, <1>2, <1>3, <1>4 DEF AperturaInv, SuyaInv, FirmasInv

LEMMA NextApertura == AperturaInv /\ [Next]_vars => AperturaInv'
<1> SUFFICES ASSUME AperturaInv, [Next]_vars PROVE AperturaInv'
  OBVIOUS
<1>1. Inv'
  BY NextInv DEF AperturaInv
<1>2. CASE UNCHANGED vars
  <2>1. UNCHANGED <<act, pend, sentados, debe>>
    BY <1>2 DEF vars
  <2>2. \A d, x : EnCola(d, x)' <=> EnCola(d, x)
    BY <2>1 DEF EnCola
  <2>3. \A x : Suyas(x)' = Suyas(x)
    BY <2>2 DEF Suyas
  <2>4. SuyaInv' /\ DebeInv'
    BY <2>1, <2>3 DEF AperturaInv, SuyaInv, DebeInv, Oye
  <2>5. FirmasInv'
    BY <2>1, <2>2 DEF AperturaInv, FirmasInv
  <2> QED BY <1>1, <2>4, <2>5 DEF AperturaInv
<1>3. ASSUME NEW b \in Busquedas, Paso(b) PROVE AperturaInv'
  BY <1>1, <1>3, PasoSuya, PasoDebe DEF AperturaInv
<1>4. ASSUME NEW c \in Clientes, Aplica(c) PROVE AperturaInv'
  <2>1. DebeInv'
    BY <1>4, AvisosDebe DEF Aplica
  <2> QED BY <1>1, <1>4, <2>1, AplicaSuya DEF AperturaInv
<1>5. ASSUME NEW c \in Clientes, NEW j \in Partidas, Juega(c, j) \/ Rechaza(c, j)
      PROVE  AperturaInv'
  BY <1>1, <1>5, AjenaSuya DEF AperturaInv, Rechaza
<1> QED BY <1>2, <1>3, <1>4, <1>5 DEF Next

LEMMA SuyaAbre == AperturaInv => AbreLoSuyo
BY DEF AperturaInv, SuyaInv, Suya, AbreLoSuyo

(* AbreLoSuyo: whatever the order of the answers, the deletions and the posted *)
(* starts, no search ever opens a match its player has had no seat in.         *)
THEOREM SoloAbreLoSuyo == Spec => []AbreLoSuyo
BY InitApertura, NextApertura, SuyaAbre, PTL DEF Spec

-----------------------------------------------------------------------------
(* Who answers for a free match: the search that created it listens to it     *)
(* until it opens it or is stopped; the deletion onStop queues, and the       *)
(* opening, are of the match jugadaId refers to, so that what must not happen *)
(* is that the field leaves the match listened to while the search is on the  *)
(* screen.                                                                    *)
EnPantalla == {"activa", "saliendo"}

(* Until it is stopped, a search refers to the match it listens to, and       *)
(* deletes nothing, whose answer would make it refer to none.                 *)
Atenta(a, ws) ==
    /\ a.oye # Nada => a.jugadaId \in {a.oye, Nada}
    /\ a.fase \in EnPantalla /\ ~a.volvio =>
          /\ a.oye # Nada => a.jugadaId = a.oye
          /\ \A w \in ws : w.tipo # "delete"
AtentasInv == \A b \in Busquedas : Atenta(act[b], Suyas(b))

(* What a match is created with is the answer of a search. *)
AddsInv == \A c \in Clientes, w \in Escrituras :
              EnCola(c, w) /\ w.tipo = "add" => w.de # Nada

(* LibreAtendida, of the searches that were opened and of writes in a queue.  *)
Atiende(a, j) == a.fase = "caida" \/ a.volvio \/ j \in Oidas(a) \/ j \in a.abiertas
Borran(c, j) == \E w \in Escrituras : EnCola(c, w) /\ w.tipo = "delete" /\ w.j = j
Libre(j) == jugadas[j] # Nada /\ jugadas[j].dos = Nada
LibresInv ==
    \A j \in Partidas : Libre(j) =>
        \/ Borran(jugadas[j].uno, j)
        \/ \E b \in De(jugadas[j].uno) : Atiende(act[b], j)

AtendidaInv == AtentasInv /\ AddsInv /\ LibresInv

-----------------------------------------------------------------------------
LEMMA UnoTipo ==
  ASSUME AperturaInv, NEW j \in Partidas, jugadas[j] # Nada
  PROVE  jugadas[j].uno \in Clientes
BY DEF AperturaInv, Inv, DatosInv, DatosTipo, Docs

LEMMA SinAbrirFuera ==
  ASSUME AperturaInv, NEW b \in Busquedas, act[b].fase = "fuera"
  PROVE  act[b].quien = Nada /\ Suyas(b) = {}
<1>1. act[b].quien = Nada
  BY DEF AperturaInv, SuyaInv, Suya, Cerrada
<1>2. ASSUME NEW w \in Escrituras, NEW d \in Clientes, EnCola(d, w), w.de = b PROVE FALSE
  <2>1. w.de # Nada
    BY <1>2, NadaAssumption DEF Busquedas
  <2>2. act[b].quien = d
    BY <1>2, <2>1 DEF AperturaInv, FirmasInv
  <2> QED BY <1>1, <2>2, NadaAssumption
<1> QED BY <1>1, <1>2 DEF Suyas

(* The queues only grow where the server applies nothing. *)
Crece == \A d \in Clientes, w \in Escrituras : EnCola(d, w) => EnCola(d, w)'

LEMMA EncolaCrece ==
  ASSUME Inv, NEW c \in Clientes, NEW ops \in Seq(Escrituras), Encola(c, ops)
  PROVE  Crece /\ \A i \in 1..Len(ops) : EnCola(c, ops[i])'
<1>1. /\ pend[c] \in Seq(Escrituras) /\ pend'[c] = pend[c] \o ops
      /\ \A d \in Clientes : d # c => pend'[d] = pend[d]
  BY DEF Encola, Inv, DatosInv, DatosTipo
<1>2. ASSUME NEW i \in 1..Len(pend[c])
      PROVE  i \in 1..Len(pend'[c]) /\ pend'[c][i] = pend[c][i]
  BY <1>1
<1>3. Crece
  BY <1>1, <1>2 DEF Crece, EnCola
<1>4. ASSUME NEW i \in 1..Len(ops) PROVE EnCola(c, ops[i])'
  <2>1. Len(pend[c]) + i \in 1..Len(pend'[c]) /\ pend'[c][Len(pend[c]) + i] = ops[i]
    BY <1>1
  <2> QED BY <2>1 DEF EnCola
<1> QED BY <1>3, <1>4

LEMMA QuietaCrece == ASSUME UNCHANGED pend PROVE Crece
BY DEF Crece, EnCola

-----------------------------------------------------------------------------
(* A search that has fewer writes on their way, and one that is still on the  *)
(* same match, or listens to nothing.                                         *)
LEMMA AtentaMenos ==
  ASSUME NEW a, NEW ws, NEW vs, vs \subseteq ws, Atenta(a, ws)
  PROVE  Atenta(a, vs)
BY DEF Atenta

LEMMA AtentaComo ==
  ASSUME NEW z, NEW a, NEW ws, Atenta(z, ws), a.fase \in EnPantalla => z.fase \in EnPantalla,
         a.volvio = z.volvio, a.oye = z.oye, a.jugadaId = z.jugadaId \/ a.oye = Nada,
         NEW N, \A w \in N : w.tipo # "delete"
  PROVE  Atenta(a, ws \cup N)
<1> DEFINE vs == ws \cup N
<1>1. \A w \in vs : w \in ws \/ w.tipo # "delete"
  OBVIOUS
<1> HIDE DEF vs
<1>2. Atenta(a, vs)
  BY <1>1 DEF Atenta
<1> QED BY <1>2 DEF vs

(* A step in which search b becomes a and queues the writes N. *)
LEMMA PasaAtentas ==
  ASSUME AperturaInv, AtendidaInv, NEW b \in Busquedas, NEW a, Pasa(b, a), NEW c,
         NEW N, Nuevas(c, N), \A w \in N : w.de = b, Atenta(a, Suyas(b) \cup N)
  PROVE  AtentasInv' /\ AddsInv'
<1>1. act'[b] = a /\ \A x \in Busquedas : x # b => act'[x] = act[x]
  BY DEF AperturaInv, Inv, ActInv, Pasa
<1>2. ASSUME NEW x \in Busquedas PROVE Atenta(act'[x], Suyas(x)')
  <2>1. CASE x = b
    <3>1. Suyas(x)' \subseteq Suyas(b) \cup N
      BY <2>1 DEF Suyas, Nuevas
    <3>2. Atenta(a, Suyas(x)')
      BY <3>1, AtentaMenos
    <3> QED BY <1>1, <2>1, <3>2
  <2>2. CASE x # b
    <3>1. Suyas(x)' \subseteq Suyas(x)
      BY <2>2 DEF Suyas, Nuevas
    <3>2. Atenta(act[x], Suyas(x)')
      BY <3>1, AtentaMenos DEF AtendidaInv, AtentasInv
    <3> QED BY <1>1, <2>2, <3>2
  <2> QED BY <2>1, <2>2
<1>3. b # Nada
  BY NadaAssumption DEF Busquedas
<1>4. AddsInv'
  BY <1>3 DEF AtendidaInv, AddsInv, Nuevas
<1> QED BY <1>2, <1>4 DEF AtentasInv

(* Whoever answers for a match goes on, or deletes it. *)
Sigue == \A c \in Clientes, x \in Busquedas : act[x].quien = c =>
            /\ act'[x].quien = c
            /\ \A j \in Partidas :
                  Atiende(act[x], j) => Atiende(act'[x], j) \/ Borran(c, j)'

LEMMA SigueLibres ==
  ASSUME AperturaInv, AtendidaInv, UNCHANGED jugadas, Crece, Sigue
  PROVE  LibresInv'
<1> SUFFICES ASSUME NEW j \in Partidas, Libre(j)
             PROVE  \/ Borran(jugadas[j].uno, j)'
                    \/ \E b \in De(jugadas[j].uno)' : Atiende(act[b], j)'
  BY DEF LibresInv, Libre
<1> DEFINE c == jugadas[j].uno
<1>1. c \in Clientes /\ c' = c
  BY UnoTipo DEF Libre
<1>2. CASE Borran(c, j)
  BY <1>1, <1>2 DEF Borran, Crece
<1>3. CASE \E b \in De(c) : Atiende(act[b], j)
  <2>1. PICK b \in Busquedas : act[b].quien = c /\ Atiende(act[b], j)
    BY <1>3 DEF De
  <2>2. act'[b].quien = c /\ (Atiende(act'[b], j) \/ Borran(c, j)')
    BY <1>1, <2>1 DEF Sigue
  <2> QED BY <1>1, <2>2 DEF De
<1> QED BY <1>2, <1>3 DEF AtendidaInv, LibresInv

LEMMA PasaSigue ==
  ASSUME AperturaInv, NEW b \in Busquedas, NEW a, Pasa(b, a),
         \/ act[b].quien = Nada
         \/ /\ a.quien = act[b].quien
            /\ \A c \in Clientes, j \in Partidas : act[b].quien = c /\ Atiende(act[b], j) =>
                  Atiende(a, j) \/ Borran(c, j)'
  PROVE  Sigue
<1>1. act'[b] = a /\ \A x \in Busquedas : x # b => act'[x] = act[x]
  BY DEF AperturaInv, Inv, ActInv, Pasa
<1> QED BY <1>1, NadaAssumption DEF Sigue

(* The end of an application answers for all its matches, as it is excused.   *)
LEMMA CaidaSigue ==
  ASSUME AperturaInv, AtendidaInv, NEW b \in Busquedas, Caida(b), NEW c, Nuevas(c, {})
  PROVE  AtentasInv' /\ AddsInv' /\ Sigue
<1>1. ASSUME NEW x \in Busquedas
      PROVE  /\ Atenta(act'[x], Suyas(x)') /\ act'[x].quien = act[x].quien
             /\ \A j \in Partidas : Atiende(act[x], j) => Atiende(act'[x], j)
  <2> DEFINE z == Cerrada
             q == act[b].quien
             v == act[x].abiertas
             y == [z EXCEPT !.fase = "caida", !.quien = q, !.abiertas = v]
  <2>1. z \in Actividades /\ z.oye = Nada
    BY CerradaTipo DEF Cerrada
  <2>2. act'[x] = IF act[x].quien # q THEN act[x] ELSE y
    BY DEF Caida
  <2>3. Suyas(x)' \subseteq Suyas(x)
    BY DEF Suyas, Nuevas
  <2>4. CASE act[x].quien # q
    BY <2>2, <2>3, <2>4, AtentaMenos DEF AtendidaInv, AtentasInv
  <2>5. CASE act[x].quien = q
    <3> HIDE DEF z
    <3>1. y.fase = "caida" /\ y.quien = q /\ y.oye = Nada
      BY <2>1 DEF Actividades
    <3> HIDE DEF y, q
    <3>2. Atenta(y, Suyas(x)') /\ \A j \in Partidas : Atiende(y, j)
      BY <3>1 DEF Atenta, Atiende, EnPantalla
    <3> QED BY <2>2, <2>5, <3>1, <3>2 DEF q
  <2> QED BY <2>4, <2>5
<1>2. AddsInv'
  BY DEF AtendidaInv, AddsInv, Nuevas
<1> QED BY <1>1, <1>2 DEF AtentasInv, Sigue

(* starGame: the match opened is the one listened to, if any. *)
LEMMA StarGameSigue ==
  ASSUME AperturaInv, AtendidaInv, NEW b \in Busquedas, NEW a \in Actividades,
         StarGame(b, a), Atenta(a, Suyas(b)), a.quien = act[b].quien, NEW c, Nuevas(c, {}),
         \A j \in Partidas : Atiende(act[b], j) => Atiende(a, j)
  PROVE  AtentasInv' /\ AddsInv' /\ Sigue
<1>1. CASE a.jugadaId = Nada /\ Caida(b)
  BY <1>1, CaidaSigue
<1>2. CASE a.jugadaId # Nada /\ Pasa(b, Abre(a))
  <2> DEFINE v == a.abiertas \cup {a.jugadaId}
             e == [a EXCEPT !.oye = Nada, !.jugadaId = Nada, !.abiertas = v]
  <2>1. Abre(a) = e
    BY DEF Abre, Actividades
  <2>2. /\ e.fase = a.fase /\ e.quien = a.quien /\ e.oye = Nada /\ e.jugadaId = Nada
        /\ e.volvio = a.volvio /\ e.sueltas = a.sueltas /\ e.abiertas = v
    BY DEF Actividades
  <2> HIDE DEF e
  <2>3. Atenta(e, Suyas(b) \cup {})
    BY <2>2 DEF Atenta
  <2>4. ASSUME NEW j \in Partidas, Atiende(a, j) PROVE Atiende(e, j)
    <3>1. j = a.oye /\ j # Nada => j \in v
      BY <1>2 DEF Atenta
    <3> HIDE DEF v
    <3>2. j \in a.abiertas => j \in v
      BY DEF v
    <3> QED BY <2>2, <2>4, <3>1, <3>2 DEF Atiende, Oidas
  <2>5. Sigue
    BY <1>2, <2>1, <2>2, <2>4, PasaSigue
  <2>6. \A w \in {} : w.de = b
    OBVIOUS
  <2>7. AtentasInv' /\ AddsInv'
    BY <1>2, <2>1, <2>3, <2>6, PasaAtentas
  <2> QED BY <2>5, <2>7
<1> QED BY <1>1, <1>2 DEF StarGame

-----------------------------------------------------------------------------
(* A search whose calls are answered, and that may queue writes that are not  *)
(* deletions of its own: it answers for what it answered for.                 *)
LEMMA ComoSigue ==
  ASSUME AperturaInv, AtendidaInv, NEW b \in Busquedas, NEW z, z = act[b], NEW a, Pasa(b, a),
         a.fase = z.fase, a.volvio = z.volvio, a.quien = z.quien,
         a.oye = z.oye, a.sueltas = z.sueltas, a.abiertas = z.abiertas,
         a.jugadaId = z.jugadaId \/ a.oye = Nada, NEW c, NEW N, Nuevas(c, N),
         \A w \in N : w.de = b /\ w.tipo # "delete"
  PROVE  AtentasInv' /\ AddsInv' /\ Sigue
<1>1. Atenta(z, Suyas(b))
  BY DEF AtendidaInv, AtentasInv
<1>2. Atenta(a, Suyas(b) \cup N)
  BY <1>1, AtentaComo
<1>3. \A j \in Partidas : Atiende(z, j) => Atiende(a, j)
  BY DEF Atiende, Oidas
<1> QED BY <1>2, <1>3, PasaAtentas, PasaSigue

(* A search that opens had answered for nothing. *)
LEMMA AbreSigue ==
  ASSUME AperturaInv, AtendidaInv, NEW b \in Busquedas, act[b].fase = "fuera",
         NEW a, Pasa(b, a), a.oye = Nada, NEW c, NEW N, Nuevas(c, N),
         \A w \in N : w.de = b /\ w.tipo # "delete"
  PROVE  AtentasInv' /\ AddsInv' /\ Sigue
<1>1. act[b].quien = Nada /\ Suyas(b) = {}
  BY SinAbrirFuera
<1>2. Atenta(a, Suyas(b) \cup N)
  BY <1>1 DEF Atenta
<1> QED BY <1>1, <1>2, PasaAtentas, PasaSigue

(* What the queues get from a step of a search that is not stopped.           *)
Otras(b) == {w \in Escrituras : w.de = b /\ w.tipo # "delete"}
Escribe(b, c) == Nuevas(c, Otras(b)) /\ Crece

LEMMA QuietaEscribe == ASSUME NEW b, NEW c, UNCHANGED pend PROVE Escribe(b, c)
BY DEF Escribe, Nuevas, Crece, EnCola

LEMMA EncolaEscribe ==
  ASSUME Inv, NEW b, NEW c \in Clientes, NEW ops \in Seq(Escrituras), Encola(c, ops),
         \A i \in 1..Len(ops) : ops[i].de = b /\ ops[i].tipo # "delete"
  PROVE  Escribe(b, c)
<1>1. \A i \in 1..Len(ops) : ops[i] \in Otras(b)
  BY DEF Otras
<1> QED BY <1>1, EncolaNuevas, EncolaCrece DEF Escribe

LEMMA AceptaEscribe ==
  ASSUME Inv, NEW b \in Busquedas, NEW c \in Clientes, NEW j \in Partidas, Acepta(b, c, j)
  PROVE  Escribe(b, c)
<1> DEFINE w == [tipo |-> "update", j |-> j, doc |-> Nada, de |-> b]
           ops == <<w>>
<1>1. w \in Escrituras /\ w.tipo = "update" /\ w.de = b
  BY AceptaTipo
<1>2. Encola(c, ops)
  BY DEF Acepta
<1> HIDE DEF w
<1>3. ops \in Seq(Escrituras) /\ \A i \in 1..Len(ops) : ops[i] = w
  BY <1>1
<1> HIDE DEF ops
<1> QED BY <1>1, <1>2, <1>3, EncolaEscribe

LEMMA AddsEscribe ==
  ASSUME Inv, NEW k \in Nat, NEW ids \in PorCrear(k), NEW b \in Busquedas,
         NEW c \in Clientes, NEW inv \in Clientes \cup {Nada}, Crea(ids, Nueva(c, inv)),
         Encola(c, Adds(b, ids, Nueva(c, inv)))
  PROVE  Escribe(b, c)
<1> DEFINE ops == Adds(b, ids, Nueva(c, inv))
<1>1. /\ ops \in Seq(Escrituras)
      /\ \A i \in 1..Len(ops) : ops[i].de = b /\ ops[i].tipo = "add"
  BY AddsPropias
<1>2. Encola(c, ops)
  OBVIOUS
<1> HIDE DEF ops
<1> QED BY <1>1, <1>2, EncolaEscribe

LEMMA EncuentraEscribe ==
  ASSUME Inv, NEW b \in Busquedas, NEW c \in Clientes, c = act[b].quien, NEW j \in Partidas,
         NEW antes \in SUBSET Partidas, Encuentra(b, j, antes)
  PROVE  Escribe(b, c)
<1> DEFINE k == Cardinality(antes)
           w == [tipo |-> "set", j |-> j, doc |-> ConSegundo(jugadas[j], c), de |-> b]
<1>1. PICK ids \in PorCrear(k) : /\ Encola(c, Append(Adds(b, ids, Nueva(c, Nada)), w))
                                 /\ Crea(ids, Nueva(c, Nada))
  BY DEF Encuentra
<1>2. k \in Nat
  BY LibresFinito DEF Inv
<1> DEFINE cre == Adds(b, ids, Nueva(c, Nada))
           ops == Append(cre, w)
<1>3. /\ cre \in Seq(Escrituras)
      /\ \A i \in 1..Len(cre) : cre[i].de = b /\ cre[i].tipo = "add"
  BY <1>1, <1>2, AddsPropias
<1>4. w \in Escrituras /\ w.tipo = "set" /\ w.de = b
  <2> DEFINE o == ConSegundo(jugadas[j], c)
  <2>1. jugadas[j] \in Docs
    BY DEF Encuentra, Elegibles, LibresServidor, Inv, DatosInv, DatosTipo
  <2>2. o \in Docs
    BY <2>1 DEF ConSegundo, Docs
  <2> HIDE DEF o
  <2> QED BY <2>2 DEF Escrituras, Tipos, o
<1>5. Encola(c, ops)
  BY <1>1
<1> HIDE DEF cre, w, k
<1>6. ops \in Seq(Escrituras) /\ \A i \in 1..Len(ops) : ops[i].de = b /\ ops[i].tipo # "delete"
  <2>1. /\ ops \in Seq(Escrituras) /\ Len(ops) = Len(cre) + 1 /\ ops[Len(cre) + 1] = w
        /\ \A i \in 1..Len(cre) : ops[i] = cre[i]
    BY <1>3, <1>4
  <2> HIDE DEF ops
  <2>2. \A i \in 1..Len(ops) : i \in 1..Len(cre) \/ i = Len(cre) + 1
    BY <1>3, <2>1
  <2> QED BY <1>3, <1>4, <2>1, <2>2
<1> HIDE DEF ops
<1> QED BY <1>5, <1>6, EncolaEscribe

LEMMA AbrirSigue ==
  ASSUME AperturaInv, AtendidaInv, NEW b \in Busquedas, NEW c \in Clientes, Abrir(b, c)
  PROVE  AtentasInv' /\ AddsInv' /\ Sigue /\ Crece /\ UNCHANGED jugadas
<1> DEFINE z == Abierta(c)
<1>0. z \in Actividades /\ z.oye = Nada
  BY AbiertaSuya
<1>1. act[b].fase = "fuera" /\ UNCHANGED jugadas
  BY DEF Abrir, AbrirLibre, AbrirInvitando, AbrirInvitado, AbrirEnlace, PuedeAbrir
<1>2. Escribe(b, c)
  <2>1. ASSUME NEW inv \in Clientes, AbrirInvitando(b, c, inv) PROVE Escribe(b, c)
    BY <2>1, AddsEscribe DEF AbrirInvitando, AperturaInv
  <2>2. ASSUME NEW j \in Partidas, AbrirInvitado(b, c, j) PROVE Escribe(b, c)
    BY <2>2, AceptaEscribe DEF AbrirInvitado, AperturaInv
  <2>3. ASSUME UNCHANGED pend PROVE Escribe(b, c)
    BY <2>3, QuietaEscribe
  <2> QED BY <2>1, <2>2, <2>3 DEF Abrir, AbrirLibre, AbrirEnlace
<1>3. \E a : Pasa(b, a) /\ a.oye = Nada
  <2>1. CASE AbrirLibre(b, c)
    <3> DEFINE a == [z EXCEPT !.consulta = TRUE]
    <3>1. Pasa(b, a) /\ a.oye = Nada
      BY <1>0, <2>1 DEF AbrirLibre, Actividades
    <3> QED BY <3>1
  <2>2. ASSUME NEW inv \in Clientes, AbrirInvitando(b, c, inv)
        PROVE  \E a : Pasa(b, a) /\ a.oye = Nada
    <3> DEFINE a == [z EXCEPT !.crearInv = (inv = c)]
    <3>1. Pasa(b, a) /\ a.oye = Nada
      BY <1>0, <2>2 DEF AbrirInvitando, Actividades
    <3> QED BY <3>1
  <2>3. ASSUME NEW j \in Partidas, AbrirInvitado(b, c, j)
        PROVE  \E a : Pasa(b, a) /\ a.oye = Nada
    <3> DEFINE a == [z EXCEPT !.jugadaId = j]
    <3>1. Pasa(b, a) /\ a.oye = Nada
      BY <1>0, <2>3 DEF AbrirInvitado, Actividades
    <3> QED BY <3>1
  <2>4. ASSUME NEW j \in Partidas, AbrirEnlace(b, c, j)
        PROVE  \E a : Pasa(b, a) /\ a.oye = Nada
    <3> DEFINE a == [z EXCEPT !.enlace = j]
    <3>1. Pasa(b, a) /\ a.oye = Nada
      BY <1>0, <2>4 DEF AbrirEnlace, Actividades
    <3> QED BY <3>1
  <2> QED BY <2>1, <2>2, <2>3, <2>4 DEF Abrir
<1>4. PICK a : Pasa(b, a) /\ a.oye = Nada
  BY <1>3
<1>5. \A w \in Otras(b) : w.de = b /\ w.tipo # "delete"
  BY DEF Otras
<1> QED BY <1>1, <1>2, <1>4, <1>5, AbreSigue DEF Escribe

-----------------------------------------------------------------------------
(* onStop: the listener is removed, and the match it listened to deleted, or  *)
(* both are kept.                                                             *)
LEMMA PararSigue ==
  ASSUME AperturaInv, AtendidaInv, NEW b \in Busquedas, NEW atras \in BOOLEAN, Parar(b, atras)
  PROVE  AtentasInv' /\ AddsInv' /\ Sigue /\ Crece
<1> DEFINE z == act[b]
           v == z.crearInv /\ ~atras
           f == IF z.fase = "activa" /\ ~atras THEN "detenida" ELSE "fin"
           o == IF v THEN z.oye ELSE Nada
           a == [z EXCEPT !.fase = f, !.crearInv = v, !.oye = o, !.enlace = Nada]
<1>1. z.fase \in EnPantalla
  BY DEF Parar, EnPantalla
<1>2. z \in Actividades /\ z.quien \in Clientes /\ Atenta(z, Suyas(b))
  BY <1>1, DeAbierta DEF EnPantalla, AtendidaInv, AtentasInv
<1>c. PICK c \in Clientes, k \in Partidas \cup {Nada} : c = z.quien /\ k = z.jugadaId
  BY <1>2 DEF Actividades
<1> DEFINE N == {x \in Escrituras : x.de = b}
<1>3. /\ Pasa(b, a)
      /\ IF v \/ k = Nada THEN UNCHANGED pend ELSE Encola(c, Borra(b, k))
  BY <1>2, <1>c DEF Parar, Actividades
<1>4. /\ a.fase = f /\ a.oye = o /\ a.quien = c /\ a.jugadaId = k
      /\ a.volvio = z.volvio /\ a.sueltas = z.sueltas /\ a.abiertas = z.abiertas
  BY <1>2, <1>c DEF Actividades
<1>5. /\ Nuevas(c, N) /\ Crece
      /\ ~v /\ k # Nada => Borran(c, k)'
  <2>1. CASE v \/ k = Nada
    BY <1>3, <2>1, QuietaCrece DEF Nuevas, EnCola
  <2>2. CASE ~(v \/ k = Nada)
    <3>1. PICK w \in Escrituras : /\ w.tipo = "delete" /\ w.j = k /\ w.de = b
                                  /\ Encola(c, <<w>>)
      <4> DEFINE w == [tipo |-> "delete", j |-> k, doc |-> Nada, de |-> b]
      <4>1. w \in Escrituras /\ w.tipo = "delete" /\ w.j = k /\ w.de = b
        BY <2>2 DEF Escrituras, Tipos
      <4>2. Encola(c, <<w>>)
        BY <1>3, <2>2 DEF Borra
      <4> HIDE DEF w
      <4> QED BY <4>1, <4>2
    <3> DEFINE ops == <<w>>
    <3>2. ops \in Seq(Escrituras) /\ \A i \in 1..Len(ops) : ops[i] = w
      BY <3>1
    <3>3. 1 \in 1..Len(ops) /\ Encola(c, ops) /\ \A i \in 1..Len(ops) : ops[i] \in N
      BY <3>1
    <3> HIDE DEF ops
    <3> HIDE DEF N
    <3>4. Nuevas(c, N)
      BY <3>2, <3>3, EncolaNuevas DEF AperturaInv
    <3>5. Crece /\ EnCola(c, w)'
      BY <3>2, <3>3, EncolaCrece DEF AperturaInv
    <3>6. Borran(c, k)'
      BY <3>1, <3>5 DEF Borran
    <3> QED BY <3>4, <3>5, <3>6
  <2> QED BY <2>1, <2>2
<1>6. \A x \in N : x.de = b
  OBVIOUS
<1> HIDE DEF N, a
<1>7. f \notin EnPantalla /\ o \in {z.oye, Nada}
  BY DEF EnPantalla
<1>8. Atenta(a, Suyas(b) \cup N)
  <2> HIDE DEF f, o
  <2> QED BY <1>2, <1>4, <1>7, <1>c DEF Atenta
<1>9. ASSUME NEW j \in Partidas, Atiende(z, j)
      PROVE  Atiende(a, j) \/ Borran(c, j)'
  <2>1. CASE z.fase = "caida" \/ z.volvio \/ j \in z.sueltas \/ j \in z.abiertas
    BY <1>1, <1>4, <2>1 DEF Atiende, Oidas, EnPantalla
  <2>2. CASE j = z.oye /\ j # Nada /\ v
    BY <1>4, <2>2 DEF Atiende, Oidas
  <2>3. CASE j = z.oye /\ j # Nada /\ ~v /\ ~z.volvio
    <3>1. k = j
      BY <1>1, <1>2, <1>c, <2>3 DEF Atenta
    <3> QED BY <1>5, <2>3, <3>1
  <2> QED BY <1>9, <2>1, <2>2, <2>3 DEF Atiende, Oidas
<1>10. Sigue
  BY <1>3, <1>4, <1>9, <1>c, PasaSigue
<1>11. AtentasInv' /\ AddsInv'
  BY <1>3, <1>5, <1>6, <1>8, PasaAtentas
<1> QED BY <1>5, <1>10, <1>11

LEMMA AvanzaSigue ==
  ASSUME AperturaInv, AtendidaInv, NEW b \in Busquedas, act[b].fase # "fuera",
         Avanza(b) \/ Volver(b)
  PROVE  AtentasInv' /\ AddsInv' /\ Sigue /\ Crece /\ UNCHANGED jugadas
<1> DEFINE z == act[b]
           c == z.quien
<1>0. /\ z \in Actividades /\ c \in Clientes /\ Suya(z, Suyas(b), sentados)
      /\ Atenta(z, Suyas(b))
  BY DeAbierta DEF AtendidaInv, AtentasInv
<1>a. UNCHANGED jugadas
  BY DEF Avanza, Enlace, NingunaSirve, Encuentra, Evento, Empieza, Parar, Volver
<1>b. \A w \in Otras(b) : w.de = b /\ w.tipo # "delete"
  BY DEF Otras
<1>1. CASE Enlace(b)
  <2> DEFINE a == [z EXCEPT !.enlace = Nada, !.jugadaId = z.enlace]
  <2>1. Pasa(b, a) /\ z.enlace \in Partidas /\ z.enlace # Nada /\ Acepta(b, c, z.enlace)
    BY <1>0, <1>1 DEF Enlace, Actividades
  <2>2. Escribe(b, c)
    BY <1>0, <2>1, AceptaEscribe DEF AperturaInv
  <2>3. z.oye = Nada
    BY <1>0, <2>1 DEF Suya, Callada, Oidas
  <2>4. /\ a.fase = z.fase /\ a.volvio = z.volvio /\ a.quien = z.quien /\ a.oye = z.oye
        /\ a.sueltas = z.sueltas /\ a.abiertas = z.abiertas
    BY <1>0 DEF Actividades
  <2> HIDE DEF a
  <2> QED BY <1>a, <1>b, <2>1, <2>2, <2>3, <2>4, ComoSigue DEF Escribe
<1>2. CASE NingunaSirve(b)
  <2> DEFINE k == IF Libres(c) = {} THEN 1 ELSE Cardinality(Libres(c))
             a == [z EXCEPT !.consulta = FALSE]
  <2>1. Pasa(b, a)
    BY <1>2 DEF NingunaSirve
  <2>2. PICK ids \in PorCrear(k) : /\ Encola(c, Adds(b, ids, Nueva(c, Nada)))
                                   /\ Crea(ids, Nueva(c, Nada))
    BY <1>2 DEF NingunaSirve
  <2>3. k \in Nat
    BY <1>0, LibresFinito DEF AperturaInv, Inv
  <2> HIDE DEF k
  <2>4. Escribe(b, c)
    BY <1>0, <2>2, <2>3, AddsEscribe DEF AperturaInv
  <2>5. /\ a.fase = z.fase /\ a.volvio = z.volvio /\ a.quien = z.quien /\ a.oye = z.oye
        /\ a.sueltas = z.sueltas /\ a.abiertas = z.abiertas /\ a.jugadaId = z.jugadaId
    BY <1>0 DEF Actividades
  <2> HIDE DEF a
  <2> QED BY <1>a, <1>b, <2>1, <2>4, <2>5, ComoSigue DEF Escribe
<1>3. ASSUME NEW j \in Partidas, NEW antes \in SUBSET Partidas, Encuentra(b, j, antes)
      PROVE  AtentasInv' /\ AddsInv' /\ Sigue /\ Crece
  <2> DEFINE a == [z EXCEPT !.consulta = FALSE, !.jugadaId = j]
  <2>1. Pasa(b, a) /\ z.consulta
    BY <1>3 DEF Encuentra, Consultada
  <2>2. Escribe(b, c)
    BY <1>0, <1>3, EncuentraEscribe DEF AperturaInv
  <2>3. z.oye = Nada
    BY <1>0, <2>1 DEF Suya, Callada, Oidas
  <2>4. /\ a.fase = z.fase /\ a.volvio = z.volvio /\ a.quien = z.quien /\ a.oye = z.oye
        /\ a.sueltas = z.sueltas /\ a.abiertas = z.abiertas
    BY <1>0 DEF Actividades
  <2> HIDE DEF a
  <2> QED BY <1>b, <2>1, <2>2, <2>3, <2>4, ComoSigue DEF Escribe
<1>4. ASSUME NEW j \in Partidas, Evento(b, j)
      PROVE  AtentasInv' /\ AddsInv' /\ Sigue /\ Crece
  <2>1. Escribe(b, c) /\ Nuevas(c, {}) /\ Crece
    BY <1>4, QuietaEscribe, QuietaNuevas, QuietaCrece DEF Evento
  <2>2. CASE Caida(b)
    BY <2>1, <2>2, CaidaSigue
  <2>3. CASE UNCHANGED act
    <3> DEFINE a == z
    <3>1. Pasa(b, a)
      BY <2>3 DEF Pasa, AperturaInv, Inv, ActInv
    <3> QED BY <1>b, <2>1, <3>1, ComoSigue DEF Escribe
  <2>4. CASE Pasa(b, [z EXCEPT !.puestos = @ + 1])
    <3> DEFINE a == [z EXCEPT !.puestos = z.puestos + 1]
    <3>1. Pasa(b, a)
      BY <2>4
    <3>2. /\ a.fase = z.fase /\ a.volvio = z.volvio /\ a.quien = z.quien /\ a.oye = z.oye
          /\ a.sueltas = z.sueltas /\ a.abiertas = z.abiertas /\ a.jugadaId = z.jugadaId
      BY <1>0 DEF Actividades
    <3> HIDE DEF a
    <3> QED BY <1>b, <2>1, <3>1, <3>2, ComoSigue DEF Escribe
  <2> QED BY <1>4, <2>2, <2>3, <2>4 DEF Evento
<1>5. CASE Empieza(b)
  <2> DEFINE p == z.puestos - 1
             a == [z EXCEPT !.puestos = p]
  <2>1. StarGame(b, a) /\ p \in Nat
    BY <1>0, <1>5 DEF Empieza, Actividades
  <2>2. Nuevas(c, {}) /\ Crece
    BY <1>5, QuietaNuevas, QuietaCrece DEF Empieza
  <2> HIDE DEF p
  <2>3. /\ a \in Actividades /\ a.fase = z.fase /\ a.volvio = z.volvio /\ a.quien = z.quien
        /\ a.oye = z.oye /\ a.sueltas = z.sueltas /\ a.abiertas = z.abiertas
        /\ a.jugadaId = z.jugadaId
    BY <1>0, <2>1 DEF Actividades
  <2> HIDE DEF a
  <2>4. Atenta(a, Suyas(b)) /\ \A j \in Partidas : Atiende(z, j) => Atiende(a, j)
    BY <1>0, <2>3 DEF Atenta, Atiende, Oidas
  <2> QED BY <1>a, <2>1, <2>2, <2>3, <2>4, StarGameSigue
<1>6. ASSUME NEW atras \in BOOLEAN, Parar(b, atras)
      PROVE  AtentasInv' /\ AddsInv' /\ Sigue /\ Crece
  BY <1>6, PararSigue
<1>7. CASE Volver(b)
  <2> DEFINE a == [z EXCEPT !.fase = "activa", !.volvio = TRUE]
  <2>1. Pasa(b, a) /\ Nuevas(c, {}) /\ Crece
    BY <1>7, QuietaNuevas, QuietaCrece DEF Volver
  <2>2. a.volvio /\ a.quien = c /\ a.oye = z.oye /\ a.jugadaId = z.jugadaId
    BY <1>0 DEF Actividades
  <2> HIDE DEF a
  <2>3. Atenta(a, Suyas(b) \cup {}) /\ \A j \in Partidas : Atiende(a, j)
    BY <1>0, <2>2 DEF Atenta, Atiende
  <2>4. \A w \in {} : w.de = b
    OBVIOUS
  <2>5. AtentasInv' /\ AddsInv'
    BY <2>1, <2>3, <2>4, PasaAtentas
  <2>6. Sigue
    BY <2>1, <2>2, <2>3, PasaSigue
  <2> QED BY <1>a, <2>1, <2>5, <2>6
<1> QED BY <1>a, <1>1, <1>2, <1>3, <1>4, <1>5, <1>6, <1>7 DEF Avanza

-----------------------------------------------------------------------------
(* The server's step.  The answer of a deletion comes to a search that has    *)
(* been stopped, and that of a creation to one that keeps what it heard.      *)
LEMMA AplicaSigue ==
  ASSUME AperturaInv, AtendidaInv, NEW c \in Clientes, Aplica(c)
  PROVE  AtentasInv' /\ AddsInv' /\ Sigue
<1> DEFINE w == Head(pend[c])
           b == w.de
           z == act[b]
<1>1. \/ SinRespuesta(w)
      \/ b # Nada /\ Viva(b) /\ (Creada(w) \/ Unida(w) \/ YaNoExiste(w) \/ Borrada(w))
  BY DEF Aplica
<1>2. Nuevas(c, {}) /\ w \in Escrituras /\ EnCola(c, w)
  BY AplicaNuevas DEF AperturaInv, Aplica
<1>3. w.j \in Partidas /\ b \in Busquedas \cup {Nada}
  BY <1>2 DEF Escrituras
<1>4. \A x \in {} : x.de = b /\ x.tipo # "delete"
  OBVIOUS
<1>5. CASE SinRespuesta(w)
  <2>1. act' = act
    BY <1>5 DEF SinRespuesta
  <2>2. \A x \in Busquedas : Suyas(x)' \subseteq Suyas(x)
    BY <1>2 DEF Suyas, Nuevas
  <2>3. AtentasInv'
    BY <2>1, <2>2, AtentaMenos DEF AtendidaInv, AtentasInv
  <2>4. AddsInv'
    BY <1>2 DEF AtendidaInv, AddsInv, Nuevas
  <2> QED BY <2>1, <2>3, <2>4 DEF Sigue
<1>6. CASE b # Nada /\ Viva(b) /\ (Creada(w) \/ Unida(w) \/ YaNoExiste(w) \/ Borrada(w))
  <2>1. /\ b \in Busquedas /\ z.fase # "caida" /\ w \in Suyas(b)
        /\ z \in Actividades /\ Atenta(z, Suyas(b))
    BY <1>2, <1>3, <1>6 DEF Suyas, Viva, AperturaInv, Inv, ActInv, AtendidaInv, AtentasInv
  <2>2. CASE Creada(w)
    <3> DEFINE j == w.j
               o == Oye(b)
               a == [z EXCEPT !.jugadaId = j, !.oye = j, !.sueltas = o]
    <3>1. Pasa(b, a)
      BY <2>2 DEF Creada
    <3>2. /\ a.quien = z.quien /\ a.fase = z.fase /\ a.volvio = z.volvio
          /\ a.jugadaId = j /\ a.oye = j /\ a.sueltas = o /\ a.abiertas = z.abiertas
      BY <2>1 DEF Actividades
    <3> HIDE DEF a, j
    <3>3. Atenta(a, Suyas(b) \cup {})
      BY <2>1, <3>2 DEF Atenta
    <3>4. Oidas(z) \subseteq Oidas(a)
      BY <3>2 DEF Oidas, Oye
    <3>5. \A k \in Partidas : Atiende(z, k) => Atiende(a, k)
      BY <3>2, <3>4 DEF Atiende
    <3> HIDE DEF z
    <3>6. AtentasInv' /\ AddsInv'
      BY <1>2, <1>4, <2>1, <3>1, <3>3, PasaAtentas
    <3> QED BY <2>1, <3>1, <3>2, <3>5, <3>6, PasaSigue DEF z
  <2>3. CASE Unida(w)
    <3>1. StarGame(b, z)
      BY <2>3 DEF Unida
    <3> QED BY <1>2, <2>1, <3>1, StarGameSigue
  <2>4. CASE YaNoExiste(w)
    <3> DEFINE f == CASE z.fase = "activa" -> "saliendo"
                      [] z.fase = "detenida" -> "fin"
                      [] OTHER -> z.fase
               a == [z EXCEPT !.fase = f]
    <3>1. Pasa(b, a)
      BY <2>1, <2>4 DEF YaNoExiste, Actividades
    <3>2. f \in EnPantalla => z.fase \in EnPantalla
      BY DEF EnPantalla
    <3>3. /\ a.quien = z.quien /\ a.fase = f /\ a.volvio = z.volvio /\ a.oye = z.oye
          /\ a.jugadaId = z.jugadaId /\ a.sueltas = z.sueltas /\ a.abiertas = z.abiertas
      BY <2>1 DEF Actividades
    <3> HIDE DEF a, f
    <3>4. Atenta(a, Suyas(b) \cup {})
      BY <1>4, <2>1, <3>2, <3>3, AtentaComo
    <3>5. \A k \in Partidas : Atiende(z, k) => Atiende(a, k)
      BY <2>1, <3>3 DEF Atiende, Oidas
    <3> HIDE DEF z
    <3>6. AtentasInv' /\ AddsInv'
      BY <1>2, <1>4, <2>1, <3>1, <3>4, PasaAtentas
    <3> QED BY <2>1, <3>1, <3>3, <3>5, <3>6, PasaSigue DEF z
  <2>5. CASE Borrada(w)
    <3> DEFINE a == [z EXCEPT !.jugadaId = Nada]
    <3>1. Pasa(b, a) /\ w.tipo = "delete"
      BY <2>5 DEF Borrada
    <3>2. /\ a.quien = z.quien /\ a.fase = z.fase /\ a.volvio = z.volvio /\ a.oye = z.oye
          /\ a.jugadaId = Nada /\ a.sueltas = z.sueltas /\ a.abiertas = z.abiertas
      BY <2>1 DEF Actividades
    <3> HIDE DEF a
    <3>3. ~(z.fase \in EnPantalla /\ ~z.volvio)
      BY <2>1, <3>1 DEF Atenta
    <3>4. Atenta(a, Suyas(b) \cup {})
      BY <3>2, <3>3 DEF Atenta
    <3>5. \A k \in Partidas : Atiende(z, k) => Atiende(a, k)
      BY <3>2 DEF Atiende, Oidas
    <3> HIDE DEF z
    <3>6. AtentasInv' /\ AddsInv'
      BY <1>2, <1>4, <2>1, <3>1, <3>4, PasaAtentas
    <3> QED BY <2>1, <3>1, <3>2, <3>5, <3>6, PasaSigue DEF z
  <2> QED BY <1>6, <2>2, <2>3, <2>4, <2>5
<1> QED BY <1>1, <1>5, <1>6

(* The document it leaves: free only as a creation, which a search of its     *)
(* host waited for, or as it was.                                             *)
LEMMA AplicaLibres ==
  ASSUME AperturaInv, AtendidaInv, NEW c \in Clientes, Aplica(c)
  PROVE  LibresInv'
<1> DEFINE w == Head(pend[c])
           d == Tras(c, w, jugadas[w.j])
<1>1. /\ pend[c] # <<>> /\ pend' = [pend EXCEPT ![c] = Tail(@)]
      /\ jugadas' = [jugadas EXCEPT ![w.j] = d]
      /\ \/ SinRespuesta(w)
         \/ w.de # Nada /\ Viva(w.de)
            /\ (Creada(w) \/ Unida(w) \/ YaNoExiste(w) \/ Borrada(w))
  BY DEF Aplica
<1>2. /\ w \in Escrituras /\ w.j \in Partidas /\ d \in Docs \cup {Nada}
      /\ d # Nada => (w.tipo = "add" /\ d = w.doc) \/ d.dos # Nada
      /\ w.tipo = "delete" => d = Nada
  <2>1. /\ w \in Escrituras /\ w.j \in Partidas /\ d \in Docs \cup {Nada}
        /\ d # Nada => w.tipo = "add" \/ d.dos # Nada
    BY <1>1, AplicaDoc DEF AperturaInv
  <2>2. /\ w.tipo = "add" => d = w.doc
        /\ w.tipo = "delete" => d = Nada
    BY DEF Tras
  <2> HIDE DEF d, w
  <2> QED BY <2>1, <2>2
<1>3. EnCola(c, w)
  BY <1>1, AplicaNuevas DEF AperturaInv
<1>4. Sigue
  BY AplicaSigue
<1>5. /\ jugadas'[w.j] = d
      /\ \A j \in Partidas : j # w.j => jugadas'[j] = jugadas[j]
  BY <1>1, <1>2 DEF AperturaInv, Inv, DatosInv, DatosTipo
<1>6. ASSUME NEW j \in Partidas, Libre(j)', j = w.j
      PROVE  \E b \in De(jugadas[j].uno)' : Atiende(act[b], j)'
  <2>1. w.tipo = "add" /\ d = w.doc /\ w.de # Nada
    BY <1>2, <1>3, <1>5, <1>6 DEF Libre, AtendidaInv, AddsInv
  <2>2. /\ w.de \in Busquedas /\ act[w.de].quien = c /\ jugadas'[j].uno = c
    BY <1>2, <1>3, <1>5, <1>6, <2>1 DEF AperturaInv, FirmasInv, Propia, Escrituras
  <2>3. act'[w.de].quien = c
    BY <1>4, <2>2 DEF Sigue
  <2>4. Atiende(act'[w.de], j)
    <3>1. CASE SinRespuesta(w)
      <4>1. act[w.de].fase = "caida" /\ act' = act
        BY <2>1, <2>2, <3>1, SinAbrirFuera, NadaAssumption DEF SinRespuesta, Viva
      <4> QED BY <4>1 DEF Atiende
    <3>2. CASE Creada(w)
      <4> DEFINE z == act[w.de]
                 a == [z EXCEPT !.jugadaId = w.j, !.oye = w.j, !.sueltas = Oye(w.de)]
      <4>1. act'[w.de] = a /\ z \in Actividades
        BY <2>2, <3>2 DEF Creada, Pasa, AperturaInv, Inv, ActInv
      <4>2. a.oye = j
        BY <1>6, <4>1 DEF Actividades
      <4>3. j # Nada
        BY NadaAssumption DEF Partidas
      <4> HIDE DEF a
      <4> QED BY <4>1, <4>2, <4>3 DEF Atiende, Oidas
    <3> QED BY <1>1, <2>1, <3>1, <3>2 DEF Unida, YaNoExiste, Borrada
  <2> QED BY <2>2, <2>3, <2>4 DEF De
<1>7. ASSUME NEW j \in Partidas, Libre(j)', j # w.j
      PROVE  \/ Borran(jugadas[j].uno, j)'
             \/ \E b \in De(jugadas[j].uno)' : Atiende(act[b], j)'
  <2>1. jugadas'[j] = jugadas[j] /\ Libre(j)
    BY <1>5, <1>7 DEF Libre
  <2>2. PICK e \in Clientes : e = jugadas[j].uno /\ jugadas'[j].uno = e
    BY <2>1, UnoTipo DEF Libre
  <2>3. CASE Borran(e, j)
    <3>1. PICK x \in Escrituras, i \in 1..Len(pend[e]) :
             pend[e][i] = x /\ x.tipo = "delete" /\ x.j = j
      BY <2>3 DEF Borran, EnCola
    <3>2. EnCola(e, x)'
      <4>1. pend[e] \in Seq(Escrituras) /\ pend \in [Clientes -> Seq(Escrituras)]
        BY DEF AperturaInv, Inv, DatosInv, DatosTipo
      <4>2. CASE e # c
        <5>1. pend'[e] = pend[e]
          BY <1>1, <4>1, <4>2
        <5> QED BY <3>1, <5>1 DEF EnCola
      <4>3. CASE e = c
        <5>1. pend'[e] = Tail(pend[e]) /\ pend[e] # <<>> /\ w = pend[e][1]
          BY <1>1, <4>1, <4>3, SeqCola
        <5>2. i # 1
          BY <1>7, <3>1, <5>1
        <5>3. i - 1 \in 1..Len(pend'[e]) /\ pend'[e][i - 1] = pend[e][i]
          BY <4>1, <5>1, <5>2
        <5> QED BY <3>1, <5>3 DEF EnCola
      <4> QED BY <4>2, <4>3
    <3> QED BY <2>2, <3>1, <3>2 DEF Borran
  <2>4. CASE \E b \in De(e) : Atiende(act[b], j)
    <3>1. PICK b \in Busquedas : act[b].quien = e /\ Atiende(act[b], j)
      BY <2>4 DEF De
    <3>2. act'[b].quien = e /\ (Atiende(act'[b], j) \/ Borran(e, j)')
      BY <1>4, <3>1 DEF Sigue
    <3> QED BY <2>2, <3>2 DEF De
  <2> QED BY <2>1, <2>2, <2>3, <2>4 DEF AtendidaInv, LibresInv
<1> QED BY <1>6, <1>7 DEF LibresInv

(* The writes of the other screens are neither creations nor deletions. *)
LEMMA AjenaSigue ==
  ASSUME AperturaInv, AtendidaInv, NEW c \in Clientes, NEW j \in Partidas,
         Juega(c, j) \/ Declina(c, j)
  PROVE  AtendidaInv'
<1>1. PICK w \in Escrituras : /\ w.tipo \in {"juega", "rechazo"} /\ w.de = Nada
                              /\ Encola(c, <<w>>)
  <2>1. CASE Juega(c, j)
    <3> DEFINE w == [tipo |-> "juega", j |-> j, doc |-> jugadas[j], de |-> Nada]
    <3>1. Encola(c, <<w>>) /\ jugadas[j] \in Docs \cup {Nada}
      BY <2>1 DEF Juega, Ajena, AperturaInv, Inv, DatosInv, DatosTipo
    <3>2. w \in Escrituras /\ w.tipo = "juega" /\ w.de = Nada
      BY <3>1 DEF Escrituras, Tipos
    <3> HIDE DEF w
    <3> QED BY <3>1, <3>2
  <2>2. CASE Declina(c, j)
    <3> DEFINE w == [tipo |-> "rechazo", j |-> j, doc |-> Nada, de |-> Nada]
    <3>1. Encola(c, <<w>>)
      BY <2>2 DEF Declina, Ajena
    <3>2. w \in Escrituras /\ w.tipo = "rechazo" /\ w.de = Nada
      BY DEF Escrituras, Tipos
    <3> HIDE DEF w
    <3> QED BY <3>1, <3>2
  <2> QED BY <2>1, <2>2
<1>2. UNCHANGED <<act, jugadas>>
  BY DEF Juega, Declina, Ajena
<1> DEFINE ops == <<w>>
<1>3. ops \in Seq(Escrituras) /\ Encola(c, ops) /\ \A i \in 1..Len(ops) : ops[i] \in {w}
  BY <1>1
<1> HIDE DEF ops
<1>4. Nuevas(c, {w}) /\ Crece
  BY <1>3, EncolaNuevas, EncolaCrece DEF AperturaInv
<1>5. AtentasInv'
  <2> SUFFICES ASSUME NEW b \in Busquedas PROVE Atenta(act'[b], Suyas(b)')
    BY DEF AtentasInv
  <2>1. b # Nada
    BY NadaAssumption DEF Busquedas
  <2>2. Suyas(b)' \subseteq Suyas(b)
    BY <1>1, <1>4, <2>1 DEF Suyas, Nuevas
  <2> QED BY <1>2, <2>2, AtentaMenos DEF AtendidaInv, AtentasInv
<1>6. AddsInv'
  BY <1>1, <1>4 DEF AtendidaInv, AddsInv, Nuevas
<1>7. Sigue
  BY <1>2 DEF Sigue
<1> QED BY <1>2, <1>4, <1>5, <1>6, <1>7, SigueLibres DEF AtendidaInv

-----------------------------------------------------------------------------
LEMMA InitAtendida == Init => AtendidaInv
<1> SUFFICES ASSUME Init PROVE AtendidaInv
  OBVIOUS
<1>1. \A c \in Clientes : \A w : ~EnCola(c, w)
  BY DEF Init, EnCola
<1>2. ASSUME NEW b \in Busquedas PROVE Atenta(act[b], Suyas(b))
  <2>1. act[b] = Cerrada
    BY DEF Init
  <2>2. act[b].oye = Nada /\ act[b].fase = "fuera"
    BY <2>1 DEF Cerrada
  <2> QED BY <2>2 DEF Atenta, EnPantalla
<1>3. \A j \in Partidas : ~Libre(j)
  BY DEF Init, Libre
<1> QED BY <1>1, <1>2, <1>3 DEF AtendidaInv, AtentasInv, AddsInv, LibresInv

LEMMA NextAtendida == AperturaInv /\ AtendidaInv /\ [Next]_vars => AtendidaInv'
<1> SUFFICES ASSUME AperturaInv, AtendidaInv, [Next]_vars PROVE AtendidaInv'
  OBVIOUS
<1>1. CASE UNCHANGED vars
  <2>1. UNCHANGED <<act, pend, jugadas>>
    BY <1>1 DEF vars
  <2>2. \A d, x : EnCola(d, x)' <=> EnCola(d, x)
    BY <2>1 DEF EnCola
  <2>3. \A x : Suyas(x)' = Suyas(x)
    BY <2>2 DEF Suyas
  <2>4. AtentasInv' /\ AddsInv'
    BY <2>1, <2>2, <2>3 DEF AtendidaInv, AtentasInv, AddsInv
  <2>5. Crece /\ Sigue
    BY <2>1, <2>2 DEF Crece, Sigue
  <2> QED BY <2>1, <2>4, <2>5, SigueLibres DEF AtendidaInv
<1>2. ASSUME NEW b \in Busquedas, Paso(b) PROVE AtendidaInv'
  <2>1. CASE \E c \in Clientes : Abrir(b, c)
    BY <2>1, AbrirSigue, SigueLibres DEF AtendidaInv
  <2>2. CASE Avanza(b) \/ Volver(b)
    <3>1. act[b].fase # "fuera"
      <4>1. CASE Volver(b)
        BY <4>1 DEF Volver
      <4>2. CASE Avanza(b)
        <5>1. \/ act[b].fase \in {"activa", "saliendo"} \/ Viva(b)
          BY <4>2 DEF Avanza, Enlace, NingunaSirve, Encuentra, Consultada, Evento, Empieza,
                      Parar
        <5> QED BY <5>1 DEF Viva
      <4> QED BY <2>2, <4>1, <4>2
    <3> QED BY <2>2, <3>1, AvanzaSigue, SigueLibres DEF AtendidaInv
  <2> QED BY <1>2, <2>1, <2>2 DEF Paso
<1>3. ASSUME NEW c \in Clientes, Aplica(c) PROVE AtendidaInv'
  BY <1>3, AplicaSigue, AplicaLibres DEF AtendidaInv
<1>4. ASSUME NEW c \in Clientes, NEW j \in Partidas, Juega(c, j) \/ Rechaza(c, j)
      PROVE  AtendidaInv'
  BY <1>4, AjenaSigue DEF Rechaza
<1> QED BY <1>1, <1>2, <1>3, <1>4 DEF Next

LEMMA AtendidaVale == AperturaInv /\ AtendidaInv => LibreAtendida
<1> SUFFICES ASSUME AperturaInv, AtendidaInv, NEW j \in Partidas, Libre(j)
             PROVE  \/ SeBorrara(j)
                    \/ \E b \in De(jugadas[j].uno) :
                          ~Viva(b) \/ act[b].volvio \/ Responde(b, j)
  BY DEF LibreAtendida, Libre
<1>1. CASE Borran(jugadas[j].uno, j)
  BY <1>1 DEF Borran, EnCola, SeBorrara
<1>2. CASE \E b \in De(jugadas[j].uno) : Atiende(act[b], j)
  BY <1>2 DEF De, Atiende, Viva, Responde, Oye, Oidas
<1> QED BY <1>1, <1>2 DEF AtendidaInv, LibresInv

(* LibreAtendida: a free match on the server is listened to, opened or about  *)
(* to be deleted by a search of the player that created it, but for a search  *)
(* that was stopped and came back and for an application that has ended.      *)
THEOREM LibreSiempreAtendida == Spec => []LibreAtendida
BY InitApertura, NextApertura, InitAtendida, NextAtendida, AtendidaVale, PTL DEF Spec
=============================================================================
