------------------------------- MODULE Pantalla -------------------------------
(* moverImangen, of MultPlayerActivity and GameActivity alike: where the two  *)
(* pictures of a match are put after every touch and every event.  A picture  *)
(* is put at random, and drawn again until it is clear of the other one; the  *)
(* loops that draw have no way out but a place that will do, which a low      *)
(* screen may not have.  The place of the label is left out.                  *)
EXTENDS Integers

CONSTANT
    Pantallas       \* the screens, each with the game it shows

Imagenes == {"IvjUno", "IvjDos"}
Otra(i) == CHOOSE o \in Imagenes : o # i

(* A screen: its width and height (initPantalla), what is above and below the *)
(* area of the pictures (Relative2Layout), and the sides of the pictures.     *)
Medidas == [juego : {"mult", "solo"}, ancho : Nat, alto : Nat, desfase : Nat, pie : Nat,
            lado : [Imagenes -> Nat \ {0}]]

(* The pictures of a screen are of about one size (104dp by 104 or 100), and  *)
(* there is no more around their area than they leave free.                   *)
Proporcionada(p) ==
    \A i \in Imagenes : LET a == p.lado[i]
                            b == p.lado[Otra(i)]
                        IN b <= 2 * a /\ 2 * (p.desfase + p.pie) + b <= 4 * a
ASSUME PantallasAssumption ==
    Pantallas \subseteq Medidas /\ \A p \in Pantallas : Proporcionada(p)

(* A screen with room: three pictures side by side, four one below the other. *)
(* A phone held upright has it.  The manifest does not keep it so: on its     *)
(* side, or in half of a screen, it may have less.                            *)
Amplia(p) ==
    \A i \in Imagenes : LET a == p.lado[i]
                            b == p.lado[Otra(i)]
                        IN 2 * a + b <= p.ancho /\ 3 * a + b <= p.alto

(* "atascada": a loop draws for ever; "caida": nextInt has thrown. *)
Fases == {"nueva", "creada", "medida", "movida", "atascada", "caida"}

VARIABLES
    pant,       \* the screen
    fase,       \* of the activity: a view has no size until it is laid out
    lugar       \* lugar[i]: where setX and setY have put picture i

vars == <<pant, fase, lugar>>

Origen == [i \in Imagenes |-> [x |-> 0, y |-> 0]]
Init == pant \in Pantallas /\ fase = "nueva" /\ lugar = Origen

-----------------------------------------------------------------------------
(* getWidth and getHeight, and getLocationOnScreen: of the screen, not of the *)
(* area that setY counts from.                                                *)
SinMedir == fase \in {"nueva", "creada"}
Lado(i) == IF SinMedir THEN 0 ELSE pant.lado[i]
LocX(l, i) == IF SinMedir THEN 0 ELSE l[i].x
LocY(l, i) == IF SinMedir THEN 0 ELSE l[i].y + pant.desfase

AleatorioDeMas(maximo) == 0..(maximo + 1)              \* mutant of FuncionAleatorio
FuncionAleatorio(maximo) == 0..maximo

(* What is drawn will do when it is below rangoMin or not below rangoMax.     *)
FueraPorOtra(r, loc, a, b) == r < loc - b \/ r >= loc + b           \* mutant of Fuera
Fuera(r, loc, a, b) == r < loc - b \/ r >= loc + a

MaxXDoble(i0) == pant.ancho - 2 * Lado(i0)                          \* mutant of MaxX
MaxX(i0) == pant.ancho - Lado(i0)
MaxYSimple(i0) == pant.alto - Lado(i0)                              \* mutant of MaxY
MaxY(i0) == pant.alto - 2 * Lado(i0)

SitiosX(l, i0, i1) ==
    {r \in FuncionAleatorio(MaxX(i0)) : Fuera(r, LocX(l, i0), Lado(i0), Lado(i1))}
SitiosY(l, i0, i1) ==
    {r \in FuncionAleatorio(MaxY(i0)) : Fuera(r, LocY(l, i0), Lado(i0), Lado(i1))}

(* moverImangen(imagen0, imagen1): the second picture, clear of the first.    *)
MoverImangen(l, i0, i1) ==
    {[l EXCEPT ![i1] = s] : s \in [x : SitiosX(l, i0, i1), y : SitiosY(l, i0, i1)]}

Movidas == UNION {MoverImangen(l, "IvjUno", "IvjDos") :
                      l \in MoverImangen(lugar, "IvjDos", "IvjUno")}

(* A call that finds no place: it never ends, but where the range itself is   *)
(* empty, which nextInt refuses (the column that setX may have set by then is *)
(* never drawn, and not followed).                                            *)
SinSalida(l, i0, i1) ==
    IF (IF SitiosX(l, i0, i1) = {} THEN MaxX(i0) ELSE MaxY(i0)) < 0
    THEN "caida" ELSE "atascada"

(* The two calls of every callback, which is then in the phase sigue. *)
Mueve(sigue) ==
    LET primeras == MoverImangen(lugar, "IvjDos", "IvjUno") IN
    \/ lugar' \in Movidas /\ fase' = sigue
    \/ /\ primeras = {}
       /\ fase' = SinSalida(lugar, "IvjDos", "IvjUno")
       /\ UNCHANGED lugar
    \/ \E l \in primeras :
          /\ MoverImangen(l, "IvjUno", "IvjDos") = {}
          /\ fase' = SinSalida(l, "IvjUno", "IvjDos")
          /\ lugar' = l

-----------------------------------------------------------------------------
(* onCreate: a match of two moves the pictures before there is a layout, when *)
(* every place will do.                                                       *)
OnCreate ==
    /\ fase = "nueva"
    /\ fase' = "creada"
    /\ IF pant.juego = "mult" THEN lugar' \in Movidas ELSE UNCHANGED lugar
    /\ UNCHANGED pant

(* The first layout, by which setX and setY are kept. *)
Medir ==
    /\ fase = "creada"
    /\ fase' = "medida"
    /\ UNCHANGED <<pant, lugar>>

(* A touch, or an event of the match, which may come before the layout.       *)
Mover ==
    /\ \/ pant.juego = "mult" /\ fase = "creada" /\ lugar' \in Movidas /\ UNCHANGED fase
       \/ fase \in {"medida", "movida"} /\ Mueve("movida")
    /\ UNCHANGED pant

Next == OnCreate \/ Medir \/ Mover

Spec == Init /\ [][Next]_vars

-----------------------------------------------------------------------------
(* Every variable holds a value of its kind, and no picture starts beyond the *)
(* edge of the screen (funcionAleatorio, MultPlayerActivity:434-436).         *)
TipoPantalla ==
    /\ pant \in Pantallas
    /\ fase \in Fases
    /\ lugar \in [Imagenes -> [x : 0..pant.ancho, y : 0..pant.alto]]

(* Once they have been moved on a laid out screen, the pictures do not cover  *)
(* each other: a player touches what it sees.  The rows are compared in two   *)
(* scales (the screen's and the area's) and would not do; the columns do      *)
(* (moverImangen, MultPlayerActivity:396-419).                                *)
SinTaparse ==
    fase = "movida" =>
        \E i \in Imagenes : lugar[i].x + pant.lado[i] <= lugar[Otra(i)].x

(* The middle of each picture is inside the area, where a touch reaches it,   *)
(* although the range each is drawn from is that of the other's size          *)
(* (moverImangen, MultPlayerActivity:400, 413).                               *)
Tocables ==
    fase = "movida" =>
        \A i \in Imagenes :
            /\ 2 * lugar[i].x + pant.lado[i] <= 2 * pant.ancho
            /\ 2 * lugar[i].y + pant.lado[i] <= 2 * (pant.alto - pant.desfase - pant.pie)

(* Before the layout every screen has a place to draw; and a move that never  *)
(* ends, or ends the application, is one of a screen that is not Amplia: with *)
(* that room every loop of both calls has a place, wherever the pictures are, *)
(* and the main thread goes on (moverImangen, MultPlayerActivity:399-418).    *)
HaySitio ==
    /\ fase \in {"nueva", "creada"} => Movidas # {}
    /\ fase \in {"atascada", "caida"} => ~Amplia(pant)
=============================================================================
