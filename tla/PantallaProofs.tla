---------------------------- MODULE PantallaProofs ----------------------------
(* The theorems of the places of the pictures, for any screens, upright or    *)
(* not, and any sides of the pictures: what a move that ends does, that with  *)
(* room every move ends, and what becomes of it on a low screen.              *)
EXTENDS Pantalla, TLAPS

-----------------------------------------------------------------------------
LEMMA OtraImagen == Otra("IvjUno") = "IvjDos" /\ Otra("IvjDos") = "IvjUno"
BY DEF Otra, Imagenes

(* What the screens are, one picture and the other.                           *)
LEMMA PantallaVale ==
  ASSUME NEW p \in Pantallas
  PROVE  LET u == p.lado["IvjUno"]
             d == p.lado["IvjDos"]
         IN /\ u \in Nat \ {0} /\ d \in Nat \ {0}
            /\ p.ancho \in Nat /\ p.alto \in Nat /\ p.desfase \in Nat /\ p.pie \in Nat
            /\ d <= 2 * u /\ u <= 2 * d
            /\ 2 * (p.desfase + p.pie) + d <= 4 * u
            /\ 2 * (p.desfase + p.pie) + u <= 4 * d
<1>1. p \in Medidas /\ Proporcionada(p)
  BY PantallasAssumption
<1>2. "IvjUno" \in Imagenes /\ "IvjDos" \in Imagenes
  BY DEF Imagenes
<1>3. /\ p.ancho \in Nat /\ p.alto \in Nat /\ p.desfase \in Nat /\ p.pie \in Nat
      /\ p.lado["IvjUno"] \in Nat \ {0} /\ p.lado["IvjDos"] \in Nat \ {0}
  BY <1>1, <1>2 DEF Medidas
<1> QED BY <1>1, <1>2, <1>3, OtraImagen DEF Proporcionada

-----------------------------------------------------------------------------
(* Places within the screen. *)
Lugares(p) == [Imagenes -> [x : 0..p.ancho, y : 0..p.alto]]

(* One move: what it leaves alone, and where it puts the picture. *)
LEMMA MoverVale ==
  ASSUME pant \in Pantallas, NEW l \in Lugares(pant),
         NEW i0 \in Imagenes, NEW i1 \in Imagenes, i0 # i1,
         NEW m \in MoverImangen(l, i0, i1)
  PROVE  /\ m \in Lugares(pant) /\ m[i0] = l[i0]
         /\ m[i1].x \in SitiosX(l, i0, i1) /\ m[i1].y \in SitiosY(l, i0, i1)
<1>0. PICK s \in [x : SitiosX(l, i0, i1), y : SitiosY(l, i0, i1)] : m = [l EXCEPT ![i1] = s]
  BY DEF MoverImangen
<1>1. PICK rx \in SitiosX(l, i0, i1), ry \in SitiosY(l, i0, i1) :
         m = [l EXCEPT ![i1] = [x |-> rx, y |-> ry]]
  BY <1>0
<1>2. pant.ancho \in Nat /\ pant.alto \in Nat /\ Lado(i0) \in Nat
  BY PantallasAssumption DEF Medidas, Lado
<1>3. rx \in 0..pant.ancho
  BY <1>2 DEF SitiosX, FuncionAleatorio, MaxX
<1>4. ry \in 0..pant.alto
  BY <1>2 DEF SitiosY, FuncionAleatorio, MaxY
<1>5. m[i1] = [x |-> rx, y |-> ry] /\ m[i0] = l[i0]
  BY <1>1 DEF Lugares
<1>6. m \in Lugares(pant)
  BY <1>1, <1>3, <1>4 DEF Lugares
<1> QED BY <1>5, <1>6

(* Both moves of a callback, on a screen that is laid out: the second picture *)
(* is clear of the first, by columns, and each within the range it was drawn  *)
(* from.                                                                      *)
Separadas(p, m) ==
    LET u == p.lado["IvjUno"]
        d == p.lado["IvjDos"]
    IN /\ m["IvjUno"].x <= p.ancho - d /\ m["IvjUno"].y <= p.alto - 2 * d
       /\ m["IvjDos"].x <= p.ancho - u /\ m["IvjDos"].y <= p.alto - 2 * u
       /\ m["IvjDos"].x < m["IvjUno"].x - d \/ m["IvjDos"].x >= m["IvjUno"].x + u

LEMMA MovidasVale ==
  ASSUME pant \in Pantallas, lugar \in Lugares(pant), NEW m \in Movidas
  PROVE  m \in Lugares(pant) /\ (~SinMedir => Separadas(pant, m))
<1>0. "IvjUno" \in Imagenes /\ "IvjDos" \in Imagenes
  BY DEF Imagenes
<1>1. PICK l \in MoverImangen(lugar, "IvjDos", "IvjUno") :
         m \in MoverImangen(l, "IvjUno", "IvjDos")
  BY DEF Movidas
<1>2. /\ l \in Lugares(pant) /\ l["IvjUno"].x \in SitiosX(lugar, "IvjDos", "IvjUno")
      /\ l["IvjUno"].y \in SitiosY(lugar, "IvjDos", "IvjUno")
  BY <1>0, <1>1, MoverVale
<1>3. /\ m \in Lugares(pant) /\ m["IvjUno"] = l["IvjUno"]
      /\ m["IvjDos"].x \in SitiosX(l, "IvjUno", "IvjDos")
      /\ m["IvjDos"].y \in SitiosY(l, "IvjUno", "IvjDos")
  BY <1>0, <1>1, <1>2, MoverVale
<1>4. ASSUME ~SinMedir PROVE Separadas(pant, m)
  <2>1. /\ Lado("IvjUno") = pant.lado["IvjUno"] /\ Lado("IvjDos") = pant.lado["IvjDos"]
        /\ LocX(l, "IvjUno") = m["IvjUno"].x
    BY <1>3, <1>4 DEF Lado, LocX
  <2>2. pant.lado["IvjUno"] \in Nat /\ pant.lado["IvjDos"] \in Nat
        /\ pant.ancho \in Nat /\ pant.alto \in Nat
    BY PantallaVale
  <2>3. m["IvjUno"].x <= pant.ancho - pant.lado["IvjDos"]
    BY <1>2, <1>3, <2>1, <2>2 DEF SitiosX, FuncionAleatorio, MaxX
  <2>4. m["IvjUno"].y <= pant.alto - 2 * pant.lado["IvjDos"]
    BY <1>2, <1>3, <2>1, <2>2 DEF SitiosY, FuncionAleatorio, MaxY
  <2>5. /\ m["IvjDos"].x <= pant.ancho - pant.lado["IvjUno"]
        /\ \/ m["IvjDos"].x < m["IvjUno"].x - pant.lado["IvjDos"]
           \/ m["IvjDos"].x >= m["IvjUno"].x + pant.lado["IvjUno"]
    BY <1>3, <2>1, <2>2 DEF SitiosX, FuncionAleatorio, MaxX, Fuera
  <2>6. m["IvjDos"].y <= pant.alto - 2 * pant.lado["IvjUno"]
    BY <1>3, <2>1, <2>2 DEF SitiosY, FuncionAleatorio, MaxY
  <2> QED BY <2>3, <2>4, <2>5, <2>6 DEF Separadas
<1> QED BY <1>3, <1>4

-----------------------------------------------------------------------------
(* A picture of side b, put clear of one of side a at loc: with room for      *)
(* 2a + b the first of the range will do, or else the one just beyond a.      *)
LEMMA SitioX ==
  ASSUME NEW a \in Nat, NEW b \in Nat, NEW w \in Nat, NEW loc \in Nat, 2 * a + b <= w
  PROVE  \E r \in FuncionAleatorio(w - a) : Fuera(r, loc, a, b)
<1>1. CASE loc > b
  <2>1. 0 \in FuncionAleatorio(w - a) /\ Fuera(0, loc, a, b)
    BY <1>1 DEF FuncionAleatorio, Fuera
  <2> QED BY <2>1
<1>2. CASE loc <= b
  <2>1. loc + a \in FuncionAleatorio(w - a) /\ Fuera(loc + a, loc, a, b)
    BY <1>2 DEF FuncionAleatorio, Fuera
  <2> QED BY <2>1
<1> QED BY <1>1, <1>2

LEMMA SitioY ==
  ASSUME NEW a \in Nat, NEW b \in Nat, NEW h \in Nat, NEW loc \in Nat, 3 * a + b <= h
  PROVE  \E r \in FuncionAleatorio(h - 2 * a) : Fuera(r, loc, a, b)
<1>1. h - 2 * a = (h - a) - a /\ h - a \in Nat /\ 2 * a + b <= h - a
  OBVIOUS
<1> QED BY <1>1, SitioX

(* With room for it, or none needed before the layout, every call ends. *)
LEMMA MoverPuede ==
  ASSUME pant \in Pantallas, Amplia(pant) \/ SinMedir, NEW l \in Lugares(pant),
         NEW i0 \in Imagenes, NEW i1 \in Imagenes, i0 # i1
  PROVE  MoverImangen(l, i0, i1) # {}
<1> DEFINE a == Lado(i0)
           b == Lado(i1)
<1>1. /\ a \in Nat /\ b \in Nat /\ pant.ancho \in Nat /\ pant.alto \in Nat
      /\ 2 * a + b <= pant.ancho /\ 3 * a + b <= pant.alto
  <2>1. /\ pant.lado[i0] \in Nat /\ pant.lado[i1] \in Nat
        /\ pant.ancho \in Nat /\ pant.alto \in Nat
    BY PantallaVale DEF Imagenes
  <2>2. CASE SinMedir
    <3>1. a = 0 /\ b = 0
      BY <2>2 DEF Lado
    <3> QED BY <2>1, <3>1
  <2>3. CASE ~SinMedir
    <3>1. a = pant.lado[i0] /\ b = pant.lado[i1]
      BY <2>3 DEF Lado
    <3>2. Otra(i0) = i1
      BY OtraImagen DEF Imagenes
    <3> QED BY <2>1, <2>3, <3>1, <3>2 DEF Amplia
  <2> QED BY <2>2, <2>3
<1>2. LocX(l, i0) \in Nat /\ LocY(l, i0) \in Nat
  <2>1. l[i0].x \in Nat /\ l[i0].y \in Nat /\ pant.desfase \in Nat
    BY PantallaVale DEF Lugares
  <2> QED BY <2>1 DEF LocX, LocY
<1> HIDE DEF a, b
<1>3. PICK rx \in FuncionAleatorio(pant.ancho - a) : Fuera(rx, LocX(l, i0), a, b)
  BY <1>1, <1>2, SitioX
<1>4. PICK ry \in FuncionAleatorio(pant.alto - 2 * a) : Fuera(ry, LocY(l, i0), a, b)
  BY <1>1, <1>2, SitioY
<1>5. rx \in SitiosX(l, i0, i1)
  BY <1>3 DEF SitiosX, MaxX, a, b
<1>6. ry \in SitiosY(l, i0, i1)
  BY <1>4 DEF SitiosY, MaxY, a, b
<1>7. [x |-> rx, y |-> ry] \in [x : SitiosX(l, i0, i1), y : SitiosY(l, i0, i1)]
  BY <1>5, <1>6
<1> QED BY <1>7 DEF MoverImangen

LEMMA MovidasPueden ==
  ASSUME pant \in Pantallas, lugar \in Lugares(pant), Amplia(pant) \/ SinMedir
  PROVE  /\ MoverImangen(lugar, "IvjDos", "IvjUno") # {}
         /\ \A l \in MoverImangen(lugar, "IvjDos", "IvjUno") :
               MoverImangen(l, "IvjUno", "IvjDos") # {}
         /\ Movidas # {}
<1>0. "IvjUno" \in Imagenes /\ "IvjDos" \in Imagenes
  BY DEF Imagenes
<1>1. MoverImangen(lugar, "IvjDos", "IvjUno") # {}
  BY <1>0, MoverPuede
<1>2. ASSUME NEW l \in MoverImangen(lugar, "IvjDos", "IvjUno")
      PROVE  MoverImangen(l, "IvjUno", "IvjDos") # {}
  <2>1. l \in Lugares(pant)
    BY <1>0, MoverVale
  <2> QED BY <1>0, <2>1, MoverPuede
<1> QED BY <1>1, <1>2 DEF Movidas

-----------------------------------------------------------------------------
Inv == /\ pant \in Pantallas /\ fase \in Fases /\ lugar \in Lugares(pant)
       /\ fase = "movida" => Separadas(pant, lugar)
       /\ fase \in {"atascada", "caida"} => ~Amplia(pant)

LEMMA InitInv == Init => Inv
<1> SUFFICES ASSUME Init PROVE Inv
  OBVIOUS
<1>1. pant \in Pantallas /\ fase = "nueva" /\ lugar = Origen
  BY DEF Init
<1>2. pant.ancho \in Nat /\ pant.alto \in Nat
  BY <1>1, PantallaVale
<1>3. lugar \in Lugares(pant)
  BY <1>1, <1>2 DEF Origen, Lugares
<1> QED BY <1>1, <1>3 DEF Inv, Fases

LEMMA NextInv == Inv /\ [Next]_vars => Inv'
<1> SUFFICES ASSUME Inv, [Next]_vars PROVE Inv'
  OBVIOUS
<1>0. pant \in Pantallas /\ fase \in Fases /\ lugar \in Lugares(pant)
  BY DEF Inv
<1>1. CASE UNCHANGED vars
  BY <1>1 DEF vars, Inv
<1>2. CASE OnCreate
  <2>1. pant' = pant /\ fase' = "creada" /\ (lugar' \in Movidas \/ lugar' = lugar)
    BY <1>2 DEF OnCreate
  <2>2. lugar' \in Lugares(pant)
    BY <1>0, <2>1, MovidasVale
  <2> QED BY <1>0, <2>1, <2>2 DEF Inv, Fases
<1>3. CASE Medir
  BY <1>0, <1>3 DEF Medir, Inv, Fases
<1>4. CASE Mover
  <2>0. "IvjUno" \in Imagenes /\ "IvjDos" \in Imagenes /\ pant' = pant
    BY <1>4 DEF Imagenes, Mover
  <2>1. CASE fase = "creada" /\ lugar' \in Movidas /\ UNCHANGED fase
    <3>1. lugar' \in Lugares(pant)
      BY <1>0, <2>1, MovidasVale
    <3> QED BY <1>0, <2>0, <2>1, <3>1 DEF Inv
  <2>2. CASE /\ fase \in {"medida", "movida"} /\ lugar' \in Movidas
             /\ fase' = "movida"
    <3>1. lugar' \in Lugares(pant) /\ Separadas(pant, lugar')
      BY <1>0, <2>2, MovidasVale DEF SinMedir
    <3> QED BY <1>0, <2>0, <2>2, <3>1 DEF Inv, Fases
  <2>3. CASE /\ MoverImangen(lugar, "IvjDos", "IvjUno") = {}
             /\ fase' = SinSalida(lugar, "IvjDos", "IvjUno") /\ UNCHANGED lugar
    <3>1. ~Amplia(pant)
      BY <1>0, <2>3, MovidasPueden
    <3>2. fase' \in {"atascada", "caida"}
      BY <2>3 DEF SinSalida
    <3> QED BY <1>0, <2>0, <2>3, <3>1, <3>2 DEF Inv, Fases
  <2>4. ASSUME NEW l \in MoverImangen(lugar, "IvjDos", "IvjUno"), lugar' = l,
               MoverImangen(l, "IvjUno", "IvjDos") = {},
               fase' = SinSalida(l, "IvjUno", "IvjDos")
        PROVE  Inv'
    <3>1. ~Amplia(pant)
      BY <1>0, <2>4, MovidasPueden
    <3>2. fase' \in {"atascada", "caida"}
      BY <2>4 DEF SinSalida
    <3>3. lugar' \in Lugares(pant)
      BY <1>0, <2>0, <2>4, MoverVale
    <3> QED BY <2>0, <1>0, <3>1, <3>2, <3>3 DEF Inv, Fases
  <2> QED BY <1>4, <2>1, <2>2, <2>3, <2>4 DEF Mover, Mueve
<1> QED BY <1>1, <1>2, <1>3, <1>4 DEF Next

LEMMA SpecInv == Spec => []Inv
BY InitInv, NextInv, PTL DEF Spec

-----------------------------------------------------------------------------
(* Types: for any screens, no picture starts beyond the edge (moverImangen).  *)
THEOREM TipoSiempre == Spec => []TipoPantalla
<1>1. Inv => TipoPantalla
  BY DEF Inv, TipoPantalla, Lugares
<1> QED BY <1>1, SpecInv, PTL

(* The pictures never cover each other on a laid out screen, whatever their   *)
(* sides and whatever is above the area: the columns keep them apart.         *)
THEOREM NuncaSeTapan == Spec => []SinTaparse
<1>1. Inv => SinTaparse
  <2> SUFFICES ASSUME Inv, fase = "movida"
               PROVE  \E i \in Imagenes : lugar[i].x + pant.lado[i] <= lugar[Otra(i)].x
    BY DEF SinTaparse
  <2>1. /\ lugar["IvjUno"].x \in Int /\ lugar["IvjDos"].x \in Int
        /\ pant.lado["IvjUno"] \in Nat /\ pant.lado["IvjDos"] \in Nat
    BY PantallaVale DEF Inv, Lugares, Imagenes
  <2>2. \/ lugar["IvjDos"].x < lugar["IvjUno"].x - pant.lado["IvjDos"]
        \/ lugar["IvjDos"].x >= lugar["IvjUno"].x + pant.lado["IvjUno"]
    BY DEF Inv, Separadas
  <2>3. CASE lugar["IvjDos"].x < lugar["IvjUno"].x - pant.lado["IvjDos"]
    <3>1. lugar["IvjDos"].x + pant.lado["IvjDos"] <= lugar[Otra("IvjDos")].x
      BY <2>1, <2>3, OtraImagen
    <3> QED BY <3>1 DEF Imagenes
  <2>4. CASE lugar["IvjDos"].x >= lugar["IvjUno"].x + pant.lado["IvjUno"]
    <3>1. lugar["IvjUno"].x + pant.lado["IvjUno"] <= lugar[Otra("IvjUno")].x
      BY <2>1, <2>4, OtraImagen
    <3> QED BY <3>1 DEF Imagenes
  <2> QED BY <2>2, <2>3, <2>4
<1> QED BY <1>1, SpecInv, PTL

(* The middle of both pictures can be touched, in any screen with room.       *)
THEOREM SiempreTocables == Spec => []Tocables
<1>1. Inv => Tocables
  <2> SUFFICES ASSUME Inv, fase = "movida", NEW i \in Imagenes
               PROVE  /\ 2 * lugar[i].x + pant.lado[i] <= 2 * pant.ancho
                      /\ 2 * lugar[i].y + pant.lado[i]
                            <= 2 * (pant.alto - pant.desfase - pant.pie)
    BY DEF Tocables
  <2> DEFINE u == pant.lado["IvjUno"]
             d == pant.lado["IvjDos"]
  <2>1. /\ u \in Nat /\ d \in Nat /\ d <= 2 * u /\ u <= 2 * d
        /\ 2 * (pant.desfase + pant.pie) + d <= 4 * u
        /\ 2 * (pant.desfase + pant.pie) + u <= 4 * d
        /\ pant.ancho \in Nat /\ pant.alto \in Nat
        /\ pant.desfase \in Nat /\ pant.pie \in Nat
    BY PantallaVale DEF Inv
  <2>2. /\ lugar["IvjUno"].x \in Nat /\ lugar["IvjUno"].y \in Nat
        /\ lugar["IvjDos"].x \in Nat /\ lugar["IvjDos"].y \in Nat
    BY <2>1 DEF Inv, Lugares, Imagenes
  <2>3. /\ lugar["IvjUno"].x <= pant.ancho - d /\ lugar["IvjUno"].y <= pant.alto - 2 * d
        /\ lugar["IvjDos"].x <= pant.ancho - u /\ lugar["IvjDos"].y <= pant.alto - 2 * u
    BY DEF Inv, Separadas
  <2> HIDE DEF u, d
  <2>4. CASE i = "IvjUno"
    <3>1. 2 * lugar["IvjUno"].x + u <= 2 * pant.ancho
      BY <2>1, <2>2, <2>3
    <3>2. 2 * lugar["IvjUno"].y + u <= 2 * (pant.alto - pant.desfase - pant.pie)
      BY <2>1, <2>2, <2>3
    <3> QED BY <2>4, <3>1, <3>2 DEF u
  <2>5. CASE i = "IvjDos"
    <3>1. 2 * lugar["IvjDos"].x + d <= 2 * pant.ancho
      BY <2>1, <2>2, <2>3
    <3>2. 2 * lugar["IvjDos"].y + d <= 2 * (pant.alto - pant.desfase - pant.pie)
      BY <2>1, <2>2, <2>3
    <3> QED BY <2>5, <3>1, <3>2 DEF d
  <2> QED BY <2>4, <2>5 DEF Imagenes
<1> QED BY <1>1, SpecInv, PTL

(* A move that is over only by a crash, or never, is one of a screen without  *)
(* the room: on any other, wherever the pictures are, every loop of every     *)
(* move has a place to draw and the main thread is never caught in            *)
(* moverImangen; nor is it before the layout, on any screen                   *)
(* (MultPlayerActivity:399-418).                                              *)
THEOREM SiempreHaySitio == Spec => []HaySitio
<1>1. Inv => HaySitio
  <2> SUFFICES ASSUME Inv, fase \in {"nueva", "creada"} PROVE Movidas # {}
    BY DEF Inv, HaySitio
  <2> QED BY MovidasPueden DEF Inv, SinMedir
<1> QED BY <1>1, SpecInv, PTL

(* The room is needed: on a laid out screen lower than four pictures of one   *)
(* side, one whose top is at most a picture from the top of the screen and    *)
(* less than three from its bottom has no place beside it that the loop would *)
(* take.  The next touch or event is the last: moverImangen never returns     *)
(* (a phone on its side; MultPlayerActivity:412-418).                         *)
THEOREM SinSitio ==
  ASSUME pant \in Pantallas, fase \in {"medida", "movida"}, lugar \in Lugares(pant),
         NEW a, \A i \in Imagenes : pant.lado[i] = a,
         a <= pant.ancho, 2 * a <= pant.alto, pant.alto < 4 * a,
         LocY(lugar, "IvjDos") <= a, pant.alto < LocY(lugar, "IvjDos") + 3 * a
  PROVE  Mover => fase' = "atascada"
<1>0. /\ pant.lado["IvjUno"] = a /\ pant.lado["IvjDos"] = a /\ a \in Nat
      /\ pant.ancho \in Nat /\ pant.alto \in Nat /\ ~SinMedir
      /\ Lado("IvjUno") = a /\ Lado("IvjDos") = a
  BY PantallaVale DEF Imagenes, SinMedir, Lado
<1>1. LocY(lugar, "IvjDos") \in Nat
  <2>1. lugar["IvjDos"].y \in Nat /\ pant.desfase \in Nat
    BY PantallaVale DEF Lugares, Imagenes
  <2> QED BY <2>1 DEF LocY
<1>2. SitiosY(lugar, "IvjDos", "IvjUno") = {}
  BY <1>0, <1>1 DEF SitiosY, FuncionAleatorio, MaxY, Fuera
<1>3. MoverImangen(lugar, "IvjDos", "IvjUno") = {}
  BY <1>2 DEF MoverImangen
<1>4. Movidas = {}
  BY <1>3 DEF Movidas
<1>5. SinSalida(lugar, "IvjDos", "IvjUno") = "atascada"
  BY <1>0 DEF SinSalida, MaxX, MaxY
<1> QED BY <1>3, <1>4, <1>5 DEF Mover, Mueve, SinMedir
=============================================================================
