-------------------------- MODULE TransicionProofs --------------------------
(* The theorems of the menu, for any players, openings, listeners, dialogs    *)
(* and invitations: its types, that an invitation is announced, that a dialog *)
(* has its clock, and that the menus ask of matchmaking only what it expects. *)
(* They are proved together.  What a menu answers for must be an invitation   *)
(* when it answers, so the invariant says so of every id a menu or the        *)
(* notification holds; that a step announces what is pending rests on the     *)
(* query of a player changing whenever what it finds does, and on one menu of *)
(* a player at most being on the screen, over a search that is not; and each  *)
(* of these needs the invariants of matchmaking, which the steps of the menus *)
(* keep because they are steps of matchmaking.                                *)
EXTENDS Transicion, AperturaProofs, Mayores

-----------------------------------------------------------------------------
(* One menu that is on the screen has its listeners, refers to a match when   *)
(* it has a dialog, and a dialog that is up has its clock.                    *)
Activo(m) == m.fase \in {"activa", "pausada"}
Atendidos(ds) == \A i \in DOMAIN ds : ds[i].visible => ds[i].corre
MenuBien(m) ==
    /\ m \in RegistrosMenu
    /\ m.fase = "fuera" => m = SinAbrir
    /\ m.fase # "fuera" => m.quien \in Siguen
    /\ Activo(m) => m.oyentes > 0
    /\ m.dialogos # <<>> => m.jugadaId # Nada
    /\ Atendidos(m.dialogos)

LEMMA SinAbrirBien ==
  /\ MenuBien(SinAbrir) /\ SinAbrir.quien = Nada /\ SinAbrir.jugadaId = Nada
  /\ SinAbrir.dialogos = <<>> /\ SinAbrir.fase = "fuera"
BY DEF SinAbrir, MenuBien, RegistrosMenu, FasesMenu, Atendidos, Activo

LEMMA DetectarCampos ==
  ASSUME NEW m \in RegistrosMenu, NEW k \in Nat, NEW n, n = DetectarJugada(m, k)
  PROVE  /\ n \in RegistrosMenu /\ n.fase = m.fase /\ n.quien = m.quien
         /\ n.jugadaId = m.jugadaId /\ n.dialogos = m.dialogos
         /\ m.oyentes > 0 \/ k > 0 => n.oyentes > 0
         /\ k > 0 => n.porOir > 0
<1> DEFINE o == Cota(m.oyentes + k)
           h == Cota(m.porOir + k)
<1>1. m.oyentes \in Nat /\ m.porOir \in Nat
  BY DEF RegistrosMenu
<1>2. /\ o \in Nat /\ h \in Nat
      /\ m.oyentes > 0 \/ k > 0 => o > 0
      /\ k > 0 => h > 0
  BY <1>1, CotasMenuAssumption DEF Cota
<1>3. n = [m EXCEPT !.oyentes = o, !.porOir = h]
  BY DEF DetectarJugada, RegistrosMenu
<1> HIDE DEF o, h
<1> QED BY <1>2, <1>3 DEF RegistrosMenu

LEMMA ParadoCampos ==
  ASSUME NEW m, MenuBien(m), m.fase # "fuera", NEW f \in {"detenida", "fin"},
         NEW n, n = Parado(m, f)
  PROVE  /\ MenuBien(n) /\ n.fase = f /\ n.quien = m.quien
         /\ n.jugadaId = m.jugadaId /\ n.dialogos = m.dialogos
<1> DEFINE k == CASE m.fase = "activa" -> 2 [] m.fase = "pausada" -> 1 [] OTHER -> 0
           d == DetectarJugada(m, k)
<1>1. k \in Nat
  OBVIOUS
<1>2. n = [d EXCEPT !.fase = f] /\ m \in RegistrosMenu
  BY DEF Parado, MenuBien
<1> HIDE DEF k
<1>3. /\ d \in RegistrosMenu /\ d.quien = m.quien
      /\ d.jugadaId = m.jugadaId /\ d.dialogos = m.dialogos
  BY <1>1, <1>2, DetectarCampos
<1> HIDE DEF d
<1>4. /\ n \in RegistrosMenu /\ n.fase = f /\ n.quien = m.quien /\ n.oyentes = d.oyentes
      /\ n.jugadaId = m.jugadaId /\ n.dialogos = m.dialogos
  BY <1>2, <1>3 DEF RegistrosMenu, FasesMenu
<1> QED BY <1>3, <1>4 DEF MenuBien, Activo

LEMMA TapadoCampos ==
  ASSUME NEW m, MenuBien(m), NEW n, n = Tapado(m)
  PROVE  /\ MenuBien(n) /\ n.quien = m.quien /\ n.fase = IF Activo(m) THEN "detenida" ELSE m.fase
         /\ n.jugadaId = m.jugadaId /\ n.dialogos = m.dialogos
<1>1. CASE Activo(m)
  <2>1. n = Parado(m, "detenida") /\ m.fase # "fuera"
    BY <1>1 DEF Tapado, Activo
  <2> QED BY <1>1, <2>1, ParadoCampos
<1>2. CASE ~Activo(m)
  BY <1>2 DEF Tapado, Activo
<1> QED BY <1>1, <1>2

-----------------------------------------------------------------------------
(* The dialogs of a menu: forgetting one, putting one on top, closing the one *)
(* on top and running out the oldest clock leave those that are up theirs.    *)
LEMMA SeqSinUno ==
  ASSUME NEW T, NEW s \in Seq(T), NEW i \in 1..Len(s)
  PROVE  /\ Sec!RemoveAt(s, i) \in Seq(T)
         /\ \A k \in 1..Len(Sec!RemoveAt(s, i)) :
               \E x \in 1..Len(s) : x # i /\ Sec!RemoveAt(s, i)[k] = s[x]
<1> DEFINE a == SubSeq(s, 1, i - 1)
           b == SubSeq(s, i + 1, Len(s))
<1>1. /\ a \in Seq(T) /\ Len(a) = i - 1 /\ \A k \in 1..Len(a) : a[k] = s[k]
      /\ b \in Seq(T) /\ Len(b) = Len(s) - i /\ \A k \in 1..Len(b) : b[k] = s[k + i]
  OBVIOUS
<1>2. Sec!RemoveAt(s, i) = a \o b
  BY DEF Sec!RemoveAt
<1> HIDE DEF a, b
<1>3. /\ a \o b \in Seq(T) /\ Len(a \o b) = Len(a) + Len(b)
      /\ \A k \in 1..Len(a \o b) :
            (a \o b)[k] = IF k <= Len(a) THEN a[k] ELSE b[k - Len(a)]
  <2>1. a \in Seq(T) /\ b \in Seq(T)
    BY <1>1
  <2>2. /\ a \o b \in Seq(T) /\ Len(a \o b) = Len(a) + Len(b)
        /\ \A k \in 1..Len(a) + Len(b) :
              (a \o b)[k] = IF k <= Len(a) THEN a[k] ELSE b[k - Len(a)]
    BY <2>1, ConcatProperties, Zenon
  <2> QED BY <2>2
<1>4. ASSUME NEW k \in 1..Len(a \o b)
      PROVE  \E x \in 1..Len(s) : x # i /\ (a \o b)[k] = s[x]
  <2>1. CASE k <= Len(a)
    <3>1. k \in 1..Len(s) /\ k # i /\ (a \o b)[k] = s[k]
      BY <1>1, <1>3, <1>4, <2>1
    <3> QED BY <3>1
  <2>2. CASE k > Len(a)
    <3>1. k + 1 \in 1..Len(s) /\ k + 1 # i /\ (a \o b)[k] = s[k + 1]
      <4>1. k - Len(a) \in 1..Len(b) /\ (k - Len(a)) + i = k + 1
        BY <1>1, <1>3, <1>4, <2>2
      <4> QED BY <1>1, <1>3, <1>4, <2>2, <4>1
    <3> QED BY <3>1
  <2> QED BY <1>1, <2>1, <2>2
<1> QED BY <1>2, <1>3, <1>4

LEMMA OlvidaBien ==
  ASSUME NEW ds \in Seq(Dialogos), Atendidos(ds), NEW i \in 1..Len(ds),
         NEW es, es = Olvida(ds, i)
  PROVE  es \in Seq(Dialogos) /\ Atendidos(es)
<1>1. CASE es = <<>>
  BY <1>1 DEF Atendidos
<1>2. CASE es = Sec!RemoveAt(ds, i)
  BY <1>2, SeqSinUno DEF Atendidos
<1>3. CASE es = ds
  BY <1>3
<1> QED BY <1>1, <1>2, <1>3 DEF Olvida

LEMMA EncimaBien ==
  ASSUME NEW ds \in Seq(Dialogos), Atendidos(ds), NEW es, es = Encima(ds)
  PROVE  /\ es \in Seq(Dialogos) /\ Atendidos(es)
         /\ \E i \in DOMAIN es : es[i].visible
<1> DEFINE d == [visible |-> TRUE, corre |-> TRUE]
           bs == IF ds # <<>> /\ Muerto(Sec!Last(ds)) THEN Sec!Front(ds) ELSE ds
<1>1. bs \in Seq(Dialogos) /\ Atendidos(bs)
  <2>1. CASE ds # <<>> /\ bs = Sec!Front(ds)
    <3> DEFINE fs == SubSeq(ds, 1, Len(ds) - 1)
    <3>1. fs \in Seq(Dialogos) /\ \A k \in 1..Len(fs) : k \in 1..Len(ds) /\ fs[k] = ds[k]
      BY <2>1
    <3>2. bs = fs
      BY <2>1 DEF Sec!Front
    <3> HIDE DEF fs, bs
    <3> QED BY <3>1, <3>2 DEF Atendidos
  <2>2. CASE bs = ds
    BY <2>2
  <2> QED BY <2>1, <2>2
<1>2. es = Append(bs, d) /\ d \in Dialogos /\ d.visible /\ d.corre
  BY DEF Encima, Dialogos
<1> HIDE DEF d, bs
<1>3. /\ es \in Seq(Dialogos) /\ Len(es) = Len(bs) + 1 /\ es[Len(es)] = d
      /\ \A k \in 1..Len(bs) : es[k] = bs[k]
  BY <1>1, <1>2
<1>4. ASSUME NEW i \in 1..Len(es), es[i].visible PROVE es[i].corre
  <2>1. CASE i = Len(es)
    BY <1>2, <1>3, <2>1
  <2>2. CASE i # Len(es)
    BY <1>1, <1>3, <1>4, <2>2 DEF Atendidos
  <2> QED BY <2>1, <2>2
<1>5. Len(es) \in 1..Len(es)
  BY <1>1, <1>3
<1> QED BY <1>2, <1>3, <1>4, <1>5 DEF Atendidos

(* A menu whose dialogs alone change. *)
LEMMA MenuDialogos ==
  ASSUME NEW m, MenuBien(m), NEW es \in Seq(Dialogos), Atendidos(es),
         es # <<>> => m.jugadaId # Nada, m.fase # "fuera",
         NEW n, n = [m EXCEPT !.dialogos = es]
  PROVE  /\ MenuBien(n) /\ n.fase = m.fase /\ n.quien = m.quien /\ n.oyentes = m.oyentes
         /\ n.porOir = m.porOir /\ n.jugadaId = m.jugadaId /\ n.dialogos = es
<1>1. /\ n \in RegistrosMenu /\ n.fase = m.fase /\ n.quien = m.quien
      /\ n.oyentes = m.oyentes /\ n.porOir = m.porOir /\ n.jugadaId = m.jugadaId
      /\ n.dialogos = es
  BY DEF RegistrosMenu, MenuBien
<1> QED BY <1>1 DEF MenuBien, Activo

LEMMA DialogoCampos ==
  ASSUME NEW m, MenuBien(m), m.jugadaId # Nada, m.fase # "fuera", NEW n, n = Dialogo(m)
  PROVE  /\ MenuBien(n) /\ n.fase = m.fase /\ n.quien = m.quien /\ n.oyentes = m.oyentes
         /\ n.porOir = m.porOir /\ n.jugadaId = m.jugadaId /\ Visibles(n) # {}
<1> DEFINE ds == m.dialogos
           es == Encima(ds)
<1>1. ds \in Seq(Dialogos) /\ Atendidos(ds) /\ m \in RegistrosMenu
  BY DEF MenuBien, RegistrosMenu
<1>2. n = [m EXCEPT !.dialogos = es]
  BY <1>1 DEF Dialogo, RegistrosMenu
<1>3. es \in Seq(Dialogos) /\ Atendidos(es) /\ \E i \in DOMAIN es : es[i].visible
  BY <1>1, EncimaBien
<1> HIDE DEF es
<1>4. /\ MenuBien(n) /\ n.fase = m.fase /\ n.quien = m.quien /\ n.oyentes = m.oyentes
      /\ n.porOir = m.porOir /\ n.jugadaId = m.jugadaId /\ n.dialogos = es
  BY <1>2, <1>3, MenuDialogos
<1> QED BY <1>3, <1>4 DEF Visibles

LEMMA CierraCampos ==
  ASSUME NEW m, MenuBien(m), Visibles(m) # {}, NEW n, n = Cierra(m)
  PROVE  /\ MenuBien(n) /\ n.fase = m.fase /\ n.quien = m.quien /\ n.oyentes = m.oyentes
         /\ n.porOir = m.porOir /\ n.jugadaId = m.jugadaId
<1> DEFINE ds == m.dialogos
           arriba == CHOOSE i \in Visibles(m) : \A k \in Visibles(m) : k <= i
           fs == [i \in DOMAIN ds |-> [visible |-> ds[i].visible /\ i # arriba,
                                       corre |-> ds[i].corre /\ i # Len(ds)]]
           es == Olvida(fs, arriba)
<1>1. /\ ds \in Seq(Dialogos) /\ Atendidos(ds) /\ m \in RegistrosMenu /\ Len(ds) \in Nat
      /\ Visibles(m) \subseteq 1..Len(ds)
      /\ \A i \in 1..Len(ds) : ds[i].visible => i \in Visibles(m)
  BY DEF MenuBien, RegistrosMenu, Visibles
<1>2. \E i \in Visibles(m) : \A k \in Visibles(m) : k <= i
  BY <1>1, HayMayor
<1>3. arriba \in 1..Len(ds) /\ \A k \in Visibles(m) : k <= arriba
  BY <1>1, <1>2
<1>4. n = [m EXCEPT !.dialogos = es]
  BY <1>1 DEF Cierra, RegistrosMenu
<1> HIDE DEF arriba
<1>5. ds # <<>> /\ m.jugadaId # Nada /\ m.fase # "fuera"
  <2>1. ds # <<>>
    BY <1>1, <1>3
  <2> QED BY <2>1, SinAbrirBien DEF MenuBien
<1>6. fs \in Seq(Dialogos) /\ Len(fs) = Len(ds) /\ Atendidos(fs)
  <2> HIDE DEF ds
  <2>1. \A i \in 1..Len(ds) : ds[i] \in Dialogos
    BY <1>1
  <2>2. fs \in [1..Len(ds) -> Dialogos]
    BY <1>1, <2>1 DEF Dialogos
  <2>3. fs \in Seq(Dialogos) /\ Len(fs) = Len(ds)
    BY <1>1, <2>2
  <2>4. ASSUME NEW i \in 1..Len(ds), fs[i].visible PROVE fs[i].corre
    <3>0. /\ fs[i].visible = (ds[i].visible /\ i # arriba)
          /\ fs[i].corre = (ds[i].corre /\ i # Len(ds))
      BY <1>1
    <3>1. ds[i].visible /\ i # arriba
      BY <2>4, <3>0
    <3>2. i <= arriba /\ ds[i].corre
      BY <1>1, <1>3, <3>1 DEF Atendidos
    <3>3. i # Len(ds)
      BY <1>1, <1>3, <3>1, <3>2
    <3> QED BY <3>0, <3>2, <3>3
  <2> QED BY <2>2, <2>3, <2>4 DEF Atendidos
<1> HIDE DEF fs
<1>7. es \in Seq(Dialogos) /\ Atendidos(es)
  BY <1>3, <1>6, OlvidaBien
<1> HIDE DEF es
<1> QED BY <1>4, <1>5, <1>7, MenuDialogos

LEMMA ExpiradoCampos ==
  ASSUME NEW m, MenuBien(m), ConReloj(m) # {}, NEW n, n = Expirado(m)
  PROVE  /\ MenuBien(n) /\ n.fase = m.fase /\ n.quien = m.quien /\ n.oyentes = m.oyentes
         /\ n.porOir = m.porOir /\ n.jugadaId = m.jugadaId
<1> DEFINE ds == m.dialogos
           viejo == CHOOSE i \in ConReloj(m) : \A k \in ConReloj(m) : i <= k
           d == [visible |-> FALSE, corre |-> FALSE]
           fs == [ds EXCEPT ![viejo] = d]
           es == Olvida(fs, viejo)
<1>1. /\ ds \in Seq(Dialogos) /\ Atendidos(ds) /\ m \in RegistrosMenu /\ Len(ds) \in Nat
      /\ ConReloj(m) \subseteq 1..Len(ds)
  BY DEF MenuBien, RegistrosMenu, ConReloj
<1>2. \E i \in ConReloj(m) : \A k \in ConReloj(m) : i <= k
  BY <1>1, HayMenor
<1>3. viejo \in 1..Len(ds)
  BY <1>1, <1>2
<1>4. n = [m EXCEPT !.dialogos = es]
  BY <1>1 DEF Expirado, RegistrosMenu
<1> HIDE DEF viejo
<1>5. ds # <<>> /\ m.jugadaId # Nada /\ m.fase # "fuera"
  <2>1. ds # <<>>
    BY <1>1, <1>3
  <2> QED BY <2>1, SinAbrirBien DEF MenuBien
<1>6. d \in Dialogos /\ ~d.visible
  BY DEF Dialogos
<1>7. fs \in Seq(Dialogos) /\ Len(fs) = Len(ds) /\ Atendidos(fs)
  <2> HIDE DEF ds, d
  <2>1. /\ fs \in Seq(Dialogos) /\ Len(fs) = Len(ds)
        /\ \A i \in 1..Len(ds) : fs[i] = IF i = viejo THEN d ELSE ds[i]
    BY <1>1, <1>3, <1>6
  <2> HIDE DEF fs
  <2> QED BY <1>1, <1>6, <2>1 DEF Atendidos
<1> HIDE DEF fs
<1>8. es \in Seq(Dialogos) /\ Atendidos(es)
  BY <1>3, <1>7, OlvidaBien
<1> HIDE DEF es
<1> QED BY <1>4, <1>5, <1>8, MenuDialogos

-----------------------------------------------------------------------------
(* What a phone sees of a match keeps what the match was created with, and    *)
(* of a match of another it sees nothing before the server has it.            *)
VeBien(c, j, d) == d # Nada => Fiel(creadas, j, d) /\ (d.uno # c => sentados[j] # {})
VeInv == \A c \in Clientes, j \in Partidas : VeBien(c, j, Base(c, j)) /\ VeBien(c, j, Ve(c, j))

(* The last of the writes that leave a document is there. *)
LEMMA UltimaEntera ==
  ASSUME Inv, NEW c \in Clientes, NEW j \in Partidas, Enteras(c, j) # {},
         NEW i, i = (CHOOSE x \in Enteras(c, j) : \A k \in Enteras(c, j) : k <= x)
  PROVE  i \in Enteras(c, j) /\ i \in 1..Len(pend[c])
<1>1. Enteras(c, j) \subseteq 1..Len(pend[c]) /\ Len(pend[c]) \in Nat
  BY DEF Enteras, Propias, Inv, DatosInv, DatosTipo
<1>2. \E x \in Enteras(c, j) : \A k \in Enteras(c, j) : k <= x
  BY <1>1, HayMayor
<1> QED BY <1>1, <1>2

(* The document a phone starts from is one of its own writes or the server's. *)
LEMMA BaseBien ==
  ASSUME AperturaInv, AtendidaInv, NEW c \in Clientes, NEW j \in Partidas
  PROVE  VeBien(c, j, Base(c, j))
<1>1. CASE Enteras(c, j) = {}
  BY <1>1 DEF Base, VeBien, AperturaInv, Inv, DatosInv, DocsInv
<1>2. CASE Enteras(c, j) # {}
  <2> DEFINE i == CHOOSE x \in Enteras(c, j) : \A k \in Enteras(c, j) : k <= x
             w == pend[c][i]
  <2>1. i \in Enteras(c, j) /\ i \in 1..Len(pend[c])
    BY <1>2, UltimaEntera DEF AperturaInv
  <2>2. Base(c, j) = Tras(c, w, Nada)
    BY <1>2 DEF Base
  <2> HIDE DEF i
  <2>3. /\ w \in Escrituras /\ w.j = j /\ w.tipo \notin {"update", "rechazo"}
        /\ EnCola(c, w) /\ Buena(creadas, sentados, c, w)
    BY <2>1 DEF Enteras, Propias, EnCola, AperturaInv, Inv, DatosInv, DatosTipo, ColasInv
  <2>4. w.tipo \in {"add", "set", "juega", "delete"} /\ w.doc \in Docs \cup {Nada}
    BY <2>3 DEF Escrituras, Tipos
  <2>5. CASE w.tipo = "delete"
    BY <2>2, <2>5 DEF Tras, VeBien
  <2>6. CASE w.tipo = "add"
    <3>1. Base(c, j) = w.doc
      BY <2>2, <2>6 DEF Tras
    <3>2. w.doc = creadas[j] /\ creadas[j] # Nada /\ w.doc.dos = Nada
      BY <2>3, <2>6 DEF Buena
    <3>3. w.doc.uno = c
      BY <2>3, <2>6 DEF AtendidaInv, AddsInv, AperturaInv, FirmasInv, Propia
    <3>4. Fiel(creadas, j, w.doc)
      BY <2>4, <3>2, <3>3, NadaAssumption DEF Fiel
    <3> QED BY <3>1, <3>3, <3>4 DEF VeBien
  <2>7. CASE w.tipo \in {"set", "juega"}
    <3>1. Base(c, j) = w.doc
      BY <2>2, <2>7 DEF Tras
    <3> QED BY <2>3, <2>7, <3>1 DEF Buena, VeBien
  <2> QED BY <2>4, <2>5, <2>6, <2>7
<1> QED BY <1>1, <1>2

LEMMA VeSiempre == AperturaInv /\ AtendidaInv => VeInv
<1> SUFFICES ASSUME AperturaInv, AtendidaInv, NEW c \in Clientes, NEW j \in Partidas
             PROVE  VeBien(c, j, Base(c, j)) /\ VeBien(c, j, Ve(c, j))
  BY DEF VeInv
<1> DEFINE d == Base(c, j)
<1>1. VeBien(c, j, d)
  BY BaseBien
<1>2. CASE Ve(c, j) = d
  BY <1>1, <1>2
<1>3. CASE Ve(c, j) # d
  <2>1. /\ Ve(c, j) = ConSegundo(d, c) /\ d # Nada
        /\ \E i \in Propias(c, j) : \A k \in Enteras(c, j) : k < i
    BY <1>3 DEF Ve
  <2>2. PICK i \in Propias(c, j) : \A k \in Enteras(c, j) : k < i
    BY <2>1
  <2> DEFINE w == pend[c][i]
  <2>3. w.tipo \in {"update", "rechazo"}
    <3>1. i \notin Enteras(c, j)
      BY <2>2 DEF Propias
    <3> QED BY <2>2, <3>1 DEF Enteras
  <2>4. Buena(creadas, sentados, c, w) /\ w.j = j
    BY <2>2 DEF Propias, AperturaInv, Inv, DatosInv, ColasInv
  <2> HIDE DEF w, d
  <2>5. Fiel(creadas, j, d) /\ d \in Docs
    BY <1>1, <2>1 DEF VeBien, Fiel
  <2>6. /\ Ve(c, j) \in Docs /\ Ve(c, j).uno = d.uno /\ Ve(c, j).inv = d.inv
        /\ Ve(c, j).dos = c
    BY <2>1, <2>5 DEF ConSegundo, Docs
  <2>7. sentados[j] # {} /\ (creadas[j].uno = c => creadas[j].inv = c)
    BY <2>3, <2>4 DEF Buena
  <2>8. Fiel(creadas, j, Ve(c, j))
    BY <2>5, <2>6, <2>7 DEF Fiel
  <2>9. VeBien(c, j, Ve(c, j))
    BY <2>7, <2>8 DEF VeBien
  <2> QED BY <1>1, <2>9 DEF d
<1> QED BY <1>1, <1>2, <1>3

LEMMA VeDespues == AperturaInv' /\ AtendidaInv' => VeInv'
BY VeSiempre, PTL

(* An invitation of another player that the server has.                       *)
Invitada(cre, sen, c, j) == sen[j] # {} /\ cre[j].inv = c /\ cre[j].uno # c

(* What is pending is an invitation. *)
LEMMA PendienteInvitada ==
  ASSUME VeInv, NEW c \in Clientes, NEW j \in Pendientes(c)
  PROVE  /\ j \in Partidas /\ creadas[j] # Nada
         /\ Invitada(creadas, sentados, c, j)
<1>1. /\ j \in Partidas /\ Ve(c, j) # Nada /\ Ve(c, j).inv = c /\ Ve(c, j).uno # c
  BY DEF Pendientes
<1> QED BY <1>1 DEF VeInv, VeBien, Fiel, Invitada

(* What a player finds pending only changes when its query does. *)
LEMMA PendientesSigue ==
  ASSUME VeInv, VeInv', CreaMas, NEW c \in Siguen, c \notin CambianConsulta
  PROVE  Pendientes(c)' = Pendientes(c)
<1>1. c \in Clientes
  BY SiguenAssumption
<1>2. ASSUME NEW j \in Partidas, Ve(c, j) # Nada, Ve(c, j).inv = c
      PROVE  Ve(c, j)' = Ve(c, j)
  <2>1. creadas[j] # Nada /\ creadas[j].inv = c
    BY <1>1, <1>2 DEF VeInv, VeBien, Fiel
  <2>2. creadas'[j] = creadas[j]
    BY <2>1 DEF CreaMas
  <2> QED BY <2>1, <2>2 DEF CambianConsulta
<1>3. ASSUME NEW j \in Partidas, Ve(c, j)' # Nada, Ve(c, j)'.inv = c
      PROVE  Ve(c, j)' = Ve(c, j)
  <2>1. creadas'[j] # Nada /\ creadas'[j].inv = c
    BY <1>1, <1>3 DEF VeInv, VeBien, Fiel
  <2> QED BY <2>1 DEF CambianConsulta
<1>4. ASSUME NEW j \in Partidas PROVE j \in Pendientes(c)' <=> j \in Pendientes(c)
  BY <1>2, <1>3 DEF Pendientes
<1> QED BY <1>4 DEF Pendientes

(* An answer to an invitation that is pending changes what its player sees,   *)
(* and so what its query finds.                                               *)
LEMMA RespuestaCambia ==
  ASSUME Inv, VeInv, NEW c \in Siguen, NEW w \in Escrituras, w.j \in Pendientes(c),
         w.tipo \in {"update", "rechazo"}, Encola(c, <<w>>), UNCHANGED <<jugadas, creadas>>
  PROVE  c \in CambianConsulta
<1> DEFINE j == w.j
           n == Len(pend[c])
<1>1. /\ c \in Clientes /\ j \in Partidas /\ Ve(c, j) # Nada /\ Ve(c, j).inv = c
      /\ Ve(c, j).dos = Nada
  BY SiguenAssumption DEF Pendientes
<1>2. /\ pend[c] \in Seq(Escrituras) /\ n \in Nat /\ pend'[c] = pend[c] \o <<w>>
  BY <1>1 DEF Inv, DatosInv, DatosTipo, Encola
<1>3. /\ Len(pend'[c]) = n + 1 /\ pend'[c][n + 1] = w
      /\ \A i \in 1..n : pend'[c][i] = pend[c][i]
  BY <1>2
<1>4. 1..(n + 1) = (1..n) \cup {n + 1}
  BY <1>2
<1> HIDE DEF j, n
<1>5. Enteras(c, j)' = Enteras(c, j)
  BY <1>3, <1>4 DEF Enteras, Propias, n
<1>6. n + 1 \in Propias(c, j)'
  BY <1>2, <1>3 DEF Propias, j
<1>7. Enteras(c, j) \subseteq 1..n
  BY DEF Enteras, Propias, n
<1>8. Base(c, j)' = Base(c, j)
  <2>1. CASE Enteras(c, j) = {}
    BY <1>5, <2>1 DEF Base
  <2>2. CASE Enteras(c, j) # {}
    <3> DEFINE i == CHOOSE x \in Enteras(c, j) : \A k \in Enteras(c, j) : k <= x
    <3>1. i \in 1..n
      BY <1>1, <2>2, UltimaEntera DEF n
    <3>2. Base(c, j) = Tras(c, pend[c][i], Nada)
      BY <2>2 DEF Base
    <3>3. Base(c, j)' = Tras(c, pend'[c][i], Nada)
      BY <1>5, <2>2 DEF Base
    <3> HIDE DEF i
    <3> QED BY <1>3, <3>1, <3>2, <3>3
  <2> QED BY <2>1, <2>2
<1>9. Base(c, j) # Nada /\ Base(c, j) \in Docs
  BY <1>1 DEF Ve, VeInv, VeBien, Fiel
<1>10. Ve(c, j)' = ConSegundo(Base(c, j), c)
  <2>1. \A k \in Enteras(c, j)' : k < n + 1
    BY <1>2, <1>5, <1>7
  <2> QED BY <1>6, <1>8, <1>9, <2>1 DEF Ve
<1>11. Ve(c, j)'.dos = c
  BY <1>9, <1>10 DEF ConSegundo, Docs
<1>12. Ve(c, j)' # Ve(c, j)
  BY <1>1, <1>11, NadaAssumption
<1>13. creadas'[j] # Nada /\ creadas'[j].inv = c
  BY <1>1 DEF VeInv, VeBien, Fiel
<1> QED BY <1>1, <1>12, <1>13 DEF CambianConsulta

-----------------------------------------------------------------------------
(* The menus together.  They are opened in their order, those opened after    *)
(* one that is on the screen have ended; a search of a player who has a menu  *)
(* is alive, and stopped or over while the menu is on the screen; what the    *)
(* menus and the notification refer to is an invitation; and one that is      *)
(* pending is announced, unless an event is still to come, by every menu that *)
(* D holds to it.  D holds menus, by their players and phases.                *)
Orden(ms) == \A p, q \in Menus : p < q =>
    /\ ms[p].fase = "fuera" => ms[q].fase = "fuera"
    /\ Activo(ms[p]) /\ ms[p].quien = ms[q].quien => ms[q].fase = "fin"
Convive(m, a) == a.quien = m.quien =>
    /\ Corre(m) => a.fase # "fuera"
    /\ Activo(m) => a.fase \in {"detenida", "fin"}
Debidas(D) == \A p, c, f : <<p, c, f>> \in D =>
    c \in Siguen /\ f \in {"activa", "pausada"} /\ <<p, c, "activa">> \in D
Anuncia(D, p, m, pendientes, av) ==
    <<p, m.quien, m.fase>> \in D /\ m.porOir = 0 /\ pendientes # {} =>
        \/ Visibles(m) # {} /\ m.jugadaId \in pendientes
        \/ av \in pendientes

MenusInv == menu \in [Menus -> RegistrosMenu] /\ \A p \in Menus : MenuBien(menu[p])
ConvivenInv == \A p \in Menus, b \in Busquedas :
    /\ Convive(menu[p], act[b])
    /\ Corre(menu[p]) /\ act[b].quien = menu[p].quien => act[b].fase # "caida"
InvitadosInv ==
    /\ \A p \in Menus : menu[p].jugadaId # Nada =>
          Invitada(creadas, sentados, menu[p].quien, menu[p].jugadaId)
    /\ aviso \in [Clientes -> Partidas \cup {Nada}]
    /\ \A c \in Clientes : aviso[c] # Nada => Invitada(creadas, sentados, c, aviso[c])
AnuncioInv(D) == \A p \in Menus :
    Anuncia(D, p, menu[p], Pendientes(menu[p].quien), aviso[menu[p].quien])

MenusTodoInv(D) ==
    MenusInv /\ Orden(menu) /\ ConvivenInv /\ InvitadosInv /\ Debidas(D) /\ AnuncioInv(D)

(* Matchmaking keeps what it has created and who has had a seat. *)
Sientan == \A j \in Partidas : sentados[j] # {} => sentados'[j] # {}
Entorno == Inv /\ VeInv /\ VeInv' /\ CreaMas /\ Sientan

(* What the menus refer to stays an invitation. *)
LEMMA InvitadaSigue ==
  ASSUME Entorno, NEW c, NEW j \in Partidas, Invitada(creadas, sentados, c, j)
  PROVE  Invitada(creadas', sentados', c, j)
<1>1. sentados'[j] # {} /\ creadas[j] # Nada
  BY DEF Invitada, Entorno, Sientan, Inv, DatosInv, DocsInv
<1>2. creadas'[j] = creadas[j]
  BY <1>1 DEF Entorno, CreaMas
<1> QED BY <1>1, <1>2 DEF Invitada

(* What Quedan makes of one menu. *)
LEMMA QuedaUno ==
  ASSUME NEW ms, Quedan(ms), NEW p \in Menus, MenuBien(ms[p]),
         NEW n, n = ms[p], NEW m, m = menu'[p]
  PROVE  /\ MenuBien(m) /\ m.quien = n.quien
         /\ n.quien \in Caen => m.fase = "caida" /\ m.jugadaId = Nada
         /\ n.quien \notin Caen =>
               /\ m.fase = n.fase \/ (Activo(n) /\ m.fase = "detenida")
               /\ m.jugadaId = n.jugadaId /\ m.dialogos = n.dialogos
               /\ n.quien \in AbrenPartida => ~Activo(m)
               /\ n.quien \notin CambianConsulta /\ Activo(m) => m.porOir = n.porOir
               /\ n.quien \in CambianConsulta /\ Activo(m) => m.porOir > 0
<1> DEFINE c == n.quien
           t == IF c \in AbrenPartida THEN Tapado(n) ELSE n
<1>1. m = CASE c \in Caen -> [SinAbrir EXCEPT !.fase = "caida", !.quien = c]
            [] c \in CambianConsulta \ Caen -> [t EXCEPT !.porOir = t.oyentes]
            [] OTHER -> t
  BY DEF Quedan
<1>2. CASE c \in Caen
  <2> DEFINE z == SinAbrir
  <2>1. m = [z EXCEPT !.fase = "caida", !.quien = c] /\ c \in Siguen /\ c \in Clientes
    BY <1>1, <1>2, SiguenAssumption DEF Caen
  <2>2. z \in RegistrosMenu /\ z.jugadaId = Nada /\ z.dialogos = <<>>
    BY SinAbrirBien DEF MenuBien
  <2> HIDE DEF z, c
  <2>3. /\ m \in RegistrosMenu /\ m.fase = "caida" /\ m.quien = c /\ m.jugadaId = Nada
        /\ m.dialogos = <<>>
    BY <2>1, <2>2 DEF RegistrosMenu, FasesMenu
  <2>4. MenuBien(m)
    BY <2>1, <2>3 DEF MenuBien, Activo, Atendidos
  <2> QED BY <1>2, <2>3, <2>4 DEF c
<1>3. /\ MenuBien(t) /\ t.quien = c /\ t.jugadaId = n.jugadaId /\ t.dialogos = n.dialogos
      /\ t.fase = n.fase \/ (Activo(n) /\ t.fase = "detenida")
      /\ c \in AbrenPartida => ~Activo(t)
      /\ Activo(t) => t = n
  <2>1. CASE c \in AbrenPartida
    <3>1. t = Tapado(n)
      BY <2>1
    <3>2. /\ MenuBien(t) /\ t.quien = n.quien
          /\ t.fase = IF Activo(n) THEN "detenida" ELSE n.fase
          /\ t.jugadaId = n.jugadaId /\ t.dialogos = n.dialogos
      BY <3>1, TapadoCampos
    <3> QED BY <3>2 DEF Activo
  <2>2. CASE c \notin AbrenPartida
    BY <2>2 DEF Activo
  <2> QED BY <2>1, <2>2
<1> HIDE DEF t
<1>4. CASE c \in CambianConsulta \ Caen
  <2>1. m = [t EXCEPT !.porOir = t.oyentes] /\ c \in Siguen
    BY <1>1, <1>4 DEF CambianConsulta
  <2>2. /\ m \in RegistrosMenu /\ m.fase = t.fase /\ m.quien = t.quien
        /\ m.jugadaId = t.jugadaId /\ m.dialogos = t.dialogos
        /\ m.oyentes = t.oyentes /\ m.porOir = t.oyentes
    BY <1>3, <2>1 DEF MenuBien, RegistrosMenu
  <2>3. t.fase # "fuera"
    BY <1>3, <2>1, SinAbrirBien, SiguenAssumption, NadaAssumption DEF MenuBien
  <2>4. MenuBien(m)
    BY <1>3, <2>2, <2>3 DEF MenuBien, Activo
  <2>5. Activo(m) => m.porOir > 0
    BY <1>3, <2>2 DEF MenuBien, Activo
  <2> QED BY <1>3, <1>4, <2>2, <2>4, <2>5 DEF Activo
<1>5. CASE c \notin CambianConsulta /\ c \notin Caen
  <2>1. m = t
    BY <1>1, <1>5
  <2> QED BY <1>3, <1>5, <2>1
<1> QED BY <1>2, <1>4, <1>5

(* Of what Quedan is given, all that is left to know. *)
Listos(ms, as, cre, sen, av) ==
    /\ \A p \in Menus : MenuBien(ms[p])
    /\ Orden(ms)
    /\ \A p \in Menus, b \in Busquedas : as[b].fase # "caida" => Convive(ms[p], as[b])
    /\ \A p \in Menus : ms[p].jugadaId # Nada =>
          Invitada(cre, sen, ms[p].quien, ms[p].jugadaId)
    /\ av \in [Clientes -> Partidas \cup {Nada}]
    /\ \A c \in Clientes : av[c] # Nada => Invitada(cre, sen, c, av[c])
Anunciado(D, ms, av) ==
    \A p \in Menus : \A c \in Siguen \ CambianConsulta : ms[p].quien = c =>
        Anuncia(D, p, ms[p], Pendientes(c), av[c])
CaenSuyas == \A b \in Busquedas : act'[b].fase = "caida" => act[b].quien = act'[b].quien

LEMMA QuedanTodo ==
  ASSUME NEW D, Debidas(D), Entorno, CaenSuyas, NEW ms, Quedan(ms),
         Listos(ms, act', creadas', sentados', aviso'), Anunciado(D, ms, aviso')
  PROVE  MenusTodoInv(D)'
<1>1. /\ menu' = [p \in Menus |-> menu'[p]]
      /\ \A p \in Menus : MenuBien(ms[p])
  BY DEF Quedan, Listos
<1>2. ASSUME NEW p \in Menus
      PROVE  /\ MenuBien(menu'[p]) /\ menu'[p].quien = ms[p].quien
             /\ ms[p].quien \in Caen => menu'[p].fase = "caida" /\ menu'[p].jugadaId = Nada
             /\ ms[p].quien \notin Caen =>
                   /\ \/ menu'[p].fase = ms[p].fase
                      \/ Activo(ms[p]) /\ menu'[p].fase = "detenida"
                   /\ menu'[p].jugadaId = ms[p].jugadaId
                   /\ menu'[p].dialogos = ms[p].dialogos
                   /\ ms[p].quien \notin CambianConsulta /\ Activo(menu'[p]) =>
                         menu'[p].porOir = ms[p].porOir
                   /\ ms[p].quien \in CambianConsulta /\ Activo(menu'[p]) =>
                         menu'[p].porOir > 0
  BY <1>1, QuedaUno
<1>3. MenusInv'
  <2>1. \A p \in Menus : menu'[p] \in RegistrosMenu
    BY <1>2 DEF MenuBien
  <2> QED BY <1>1, <1>2, <2>1 DEF MenusInv
<1>4. ASSUME NEW p \in Menus, ms[p].quien \in Caen PROVE ms[p].fase # "fuera"
  <2>1. MenuBien(ms[p]) /\ ms[p].quien \in Siguen
    BY <1>1, <1>4 DEF Caen
  <2> QED BY <2>1, SinAbrirBien, SiguenAssumption, NadaAssumption DEF MenuBien
<1>5. Orden(menu')
  <2> SUFFICES ASSUME NEW p \in Menus, NEW q \in Menus, p < q
               PROVE  /\ menu'[p].fase = "fuera" => menu'[q].fase = "fuera"
                      /\ Activo(menu'[p]) /\ menu'[p].quien = menu'[q].quien =>
                            menu'[q].fase = "fin"
    BY DEF Orden
  <2>1. /\ ms[p].fase = "fuera" => ms[q].fase = "fuera"
        /\ Activo(ms[p]) /\ ms[p].quien = ms[q].quien => ms[q].fase = "fin"
    BY DEF Listos, Orden
  <2>2. ASSUME menu'[p].fase = "fuera" PROVE menu'[q].fase = "fuera"
    <3>1. ms[p].quien \notin Caen /\ ms[p].fase = "fuera"
      BY <1>2, <2>2
    <3>2. ms[q].fase = "fuera" /\ ms[q].quien \notin Caen
      BY <1>4, <2>1, <3>1
    <3> QED BY <1>2, <3>2 DEF Activo
  <2>3. ASSUME Activo(menu'[p]), menu'[p].quien = menu'[q].quien
        PROVE  menu'[q].fase = "fin"
    <3>1. ms[p].quien \notin Caen
      BY <1>2, <2>3 DEF Activo
    <3>2. Activo(ms[p]) /\ ms[p].quien = ms[q].quien
      BY <1>2, <2>3, <3>1 DEF Activo
    <3>3. ms[q].fase = "fin" /\ ms[q].quien \notin Caen
      BY <2>1, <3>1, <3>2
    <3> QED BY <1>2, <3>3 DEF Activo
  <2> QED BY <2>2, <2>3
<1>6. ConvivenInv'
  <2> SUFFICES ASSUME NEW p \in Menus, NEW b \in Busquedas, act'[b].quien = menu'[p].quien
               PROVE  /\ Corre(menu'[p]) => act'[b].fase \notin {"fuera", "caida"}
                      /\ Activo(menu'[p]) => act'[b].fase \in {"detenida", "fin"}
    BY DEF ConvivenInv, Convive
  <2>1. CASE menu'[p].fase \in {"fuera", "caida"}
    BY <2>1 DEF Corre, Activo
  <2>2. CASE menu'[p].fase \notin {"fuera", "caida"}
    <3>1. ms[p].quien \notin Caen /\ menu'[p].quien \in Siguen /\ act'[b].quien = ms[p].quien
      BY <1>2, <2>2 DEF MenuBien
    <3>2. act'[b].fase # "caida"
      BY <1>2, <3>1 DEF CaenSuyas, Caen, De
    <3>3. Corre(ms[p]) /\ (Activo(menu'[p]) => Activo(ms[p]))
      BY <1>2, <2>2, <3>1 DEF Corre, Activo
    <3> QED BY <3>1, <3>2, <3>3 DEF Listos, Convive
  <2> QED BY <2>1, <2>2
<1>7. InvitadosInv'
  <2>1. ASSUME NEW p \in Menus, menu'[p].jugadaId # Nada
        PROVE  Invitada(creadas', sentados', menu'[p].quien, menu'[p].jugadaId)
    <3>1. menu'[p].jugadaId = ms[p].jugadaId /\ menu'[p].quien = ms[p].quien
      BY <1>2, <2>1
    <3> QED BY <2>1, <3>1 DEF Listos
  <2> QED BY <2>1 DEF InvitadosInv, Listos
<1>8. AnuncioInv(D)'
  <2> SUFFICES ASSUME NEW p \in Menus, NEW c, menu'[p].quien = c,
                      <<p, c, menu'[p].fase>> \in D, menu'[p].porOir = 0,
                      Pendientes(c)' # {}
               PROVE  \/ Visibles(menu'[p]) # {} /\ menu'[p].jugadaId \in Pendientes(c)'
                      \/ aviso'[c] \in Pendientes(c)'
    BY DEF AnuncioInv, Anuncia
  <2>0. c \in Siguen /\ Activo(menu'[p])
    BY DEF Debidas, Activo
  <2>1. c \notin Caen /\ ms[p].quien = c
    BY <1>2, <2>0 DEF Activo
  <2>2. c \notin CambianConsulta
    BY <1>2, <2>0, <2>1
  <2>3. Pendientes(c)' = Pendientes(c)
    BY <2>0, <2>2, PendientesSigue DEF Entorno
  <2>4. /\ ms[p].fase = menu'[p].fase /\ ms[p].porOir = 0
        /\ ms[p].jugadaId = menu'[p].jugadaId /\ Visibles(ms[p]) = Visibles(menu'[p])
    BY <1>2, <2>0, <2>1, <2>2 DEF Activo, Visibles
  <2> QED BY <2>0, <2>1, <2>2, <2>3, <2>4 DEF Anunciado, Anuncia
<1> QED BY <1>3, <1>5, <1>6, <1>7, <1>8 DEF MenusTodoInv

-----------------------------------------------------------------------------
(* Menus that keep their players and what they refer to, of which none comes  *)
(* to the screen.                                                             *)
Mismos(ms) == \A p \in Menus :
    /\ MenuBien(ms[p]) /\ ms[p].quien = menu[p].quien /\ ms[p].jugadaId = menu[p].jugadaId
    /\ ms[p].fase = "fuera" <=> menu[p].fase = "fuera"
    /\ menu[p].fase = "fin" => ms[p].fase = "fin"
    /\ Activo(ms[p]) => Activo(menu[p])
Conviven(ms) == \A p \in Menus, b \in Busquedas :
    act'[b].fase # "caida" => Convive(ms[p], act'[b])

LEMMA MismosTodo ==
  ASSUME NEW D, Entorno, MenusTodoInv(D), CaenSuyas, NEW ms, Mismos(ms), Conviven(ms), Quedan(ms),
         aviso' \in [Clientes -> Partidas \cup {Nada}],
         \A c \in Clientes : aviso'[c] \in {aviso[c], Nada}, Anunciado(D, ms, aviso')
  PROVE  MenusTodoInv(D)'
<1>1. Orden(ms)
  <2> SUFFICES ASSUME NEW p \in Menus, NEW q \in Menus, p < q
               PROVE  /\ ms[p].fase = "fuera" => ms[q].fase = "fuera"
                      /\ Activo(ms[p]) /\ ms[p].quien = ms[q].quien => ms[q].fase = "fin"
    BY DEF Orden
  <2> QED BY DEF Mismos, MenusTodoInv, Orden
<1>2. ASSUME NEW p \in Menus, ms[p].jugadaId # Nada
      PROVE  Invitada(creadas', sentados', ms[p].quien, ms[p].jugadaId)
  <2>1. /\ ms[p].quien = menu[p].quien /\ ms[p].jugadaId = menu[p].jugadaId
        /\ menu[p].jugadaId \in Partidas
    BY <1>2 DEF Mismos, MenusTodoInv, MenusInv, RegistrosMenu
  <2> QED BY <1>2, <2>1, InvitadaSigue DEF MenusTodoInv, InvitadosInv
<1>3. ASSUME NEW c \in Clientes, aviso'[c] # Nada
      PROVE  Invitada(creadas', sentados', c, aviso'[c])
  <2>1. aviso'[c] = aviso[c] /\ aviso[c] \in Partidas
    BY <1>3 DEF MenusTodoInv, InvitadosInv
  <2> QED BY <1>3, <2>1, InvitadaSigue DEF MenusTodoInv, InvitadosInv
<1>4. Listos(ms, act', creadas', sentados', aviso')
  BY <1>1, <1>2, <1>3 DEF Listos, Mismos, Conviven
<1> QED BY <1>4, QuedanTodo DEF MenusTodoInv

(* The searches are as they were, or end, or are stopped. *)
Quietas == \A b \in Busquedas :
    /\ act'[b].quien = act[b].quien
    /\ act[b].fase # "fuera" => act'[b].fase # "fuera"
    /\ act[b].fase \in {"detenida", "fin"} => act'[b].fase \in {"detenida", "fin", "caida"}

LEMMA QuietasConviven ==
  ASSUME NEW D, MenusTodoInv(D), Quietas, NEW ms, Mismos(ms),
         \A p \in Menus : Corre(ms[p]) => Corre(menu[p])
  PROVE  Conviven(ms) /\ CaenSuyas
BY DEF MenusTodoInv, ConvivenInv, Quietas, Mismos, Conviven, Convive, CaenSuyas

(* One menu becomes m. *)
LEMMA UnoMismos ==
  ASSUME NEW D, MenusTodoInv(D), NEW p \in Menus, NEW m, MenuBien(m), m.quien = menu[p].quien,
         m.jugadaId = menu[p].jugadaId, menu[p].fase # "fuera", m.fase # "fuera",
         menu[p].fase = "fin" => m.fase = "fin", Activo(m) => Activo(menu[p]),
         NEW ms, ms[p] = m, \A q \in Menus : q # p => ms[q] = menu[q]
  PROVE  Mismos(ms)
<1>2. ASSUME NEW q \in Menus
      PROVE  /\ MenuBien(ms[q]) /\ ms[q].quien = menu[q].quien
             /\ ms[q].jugadaId = menu[q].jugadaId
             /\ ms[q].fase = "fuera" <=> menu[q].fase = "fuera"
             /\ menu[q].fase = "fin" => ms[q].fase = "fin"
             /\ Activo(ms[q]) => Activo(menu[q])
  <2>1. CASE q = p
    BY <2>1
  <2>2. CASE q # p
    BY <2>2 DEF MenusTodoInv, MenusInv
  <2> QED BY <2>1, <2>2
<1> QED BY <1>2 DEF Mismos

(* A menu that changes alone, and announces what it did. *)
LEMMA UnMenu ==
  ASSUME NEW D, Entorno, MenusTodoInv(D), UNCHANGED <<vars, aviso>>, NEW p \in Menus, NEW m,
         Queda(p, m), MenuBien(m), m.quien = menu[p].quien, m.jugadaId = menu[p].jugadaId,
         menu[p].fase # "fuera", m.fase # "fuera", Corre(m) => Corre(menu[p]),
         menu[p].fase = "fin" => m.fase = "fin", Activo(m) => Activo(menu[p]),
         Activo(m) /\ m.porOir = 0 /\ Pendientes(menu[p].quien) # {} =>
            /\ menu[p].porOir = 0 /\ m.dialogos = menu[p].dialogos
            /\ <<p, m.quien, m.fase>> \in D => <<p, m.quien, menu[p].fase>> \in D
  PROVE  MenusTodoInv(D)'
<1> DEFINE ms == [menu EXCEPT ![p] = m]
<1>0. ms[p] = m /\ \A q \in Menus : q # p => ms[q] = menu[q]
  BY DEF MenusTodoInv, MenusInv
<1>2. Quedan(ms)
  BY DEF Queda
<1> HIDE DEF ms
<1>1. Mismos(ms) /\ ms[p] = m /\ \A q \in Menus : q # p => ms[q] = menu[q]
  BY <1>0, UnoMismos
<1>3. act' = act /\ aviso' = aviso
  BY DEF vars
<1>4. Conviven(ms) /\ CaenSuyas
  <2>1. \A q \in Menus : Corre(ms[q]) => Corre(menu[q])
    BY <1>1
  <2>2. Quietas
    BY <1>3 DEF Quietas
  <2> QED BY <1>1, <2>1, <2>2, QuietasConviven
<1>5. ASSUME NEW q \in Menus, NEW c \in Siguen, ms[q].quien = c
      PROVE  Anuncia(D, q, ms[q], Pendientes(c), aviso'[c])
  <2>1. Anuncia(D, q, menu[q], Pendientes(c), aviso[c])
    BY <1>1, <1>5 DEF MenusTodoInv, AnuncioInv, Mismos
  <2>2. CASE q # p
    BY <1>1, <1>3, <2>1, <2>2
  <2>3. CASE q = p
    <3>1. menu[p].quien = c /\ (m.dialogos = menu[p].dialogos => Visibles(m) = Visibles(menu[p]))
      BY <1>1, <1>5, <2>3 DEF Visibles
    <3>2. <<p, m.quien, m.fase>> \in D => Activo(m)
      BY DEF MenusTodoInv, Debidas, Activo
    <3> QED BY <1>1, <1>3, <2>1, <2>3, <3>1, <3>2 DEF Anuncia
  <2> QED BY <2>2, <2>3
<1>6. Anunciado(D, ms, aviso')
  BY <1>5 DEF Anunciado
<1>7. /\ aviso' \in [Clientes -> Partidas \cup {Nada}]
      /\ \A c \in Clientes : aviso'[c] \in {aviso[c], Nada}
  BY <1>3 DEF MenusTodoInv, InvitadosInv
<1> QED BY <1>1, <1>2, <1>4, <1>6, <1>7, MismosTodo

(* What a record keeps when its phase or its events change. *)
LEMMA FaseBien ==
  ASSUME NEW d \in RegistrosMenu, NEW f \in FasesMenu, f # "fuera", d.quien \in Siguen,
         f \in {"activa", "pausada"} => d.oyentes > 0,
         d.dialogos # <<>> => d.jugadaId # Nada, Atendidos(d.dialogos),
         NEW n, n = [d EXCEPT !.fase = f]
  PROVE  /\ MenuBien(n) /\ n.fase = f /\ n.quien = d.quien /\ n.porOir = d.porOir
         /\ n.jugadaId = d.jugadaId /\ n.dialogos = d.dialogos
<1>1. /\ n \in RegistrosMenu /\ n.fase = f /\ n.quien = d.quien /\ n.porOir = d.porOir
      /\ n.jugadaId = d.jugadaId /\ n.dialogos = d.dialogos /\ n.oyentes = d.oyentes
  BY DEF RegistrosMenu
<1> QED BY <1>1 DEF MenuBien, Activo

LEMMA OirBien ==
  ASSUME NEW m, MenuBien(m), m.fase # "fuera", NEW n \in RegistrosMenu, n.fase = m.fase,
         n.quien = m.quien, n.oyentes = m.oyentes, n.dialogos = m.dialogos,
         n.jugadaId \in Partidas \/ n.jugadaId = m.jugadaId
  PROVE  MenuBien(n)
<1>1. \A j \in Partidas : j # Nada
  BY NadaAssumption DEF Partidas
<1> QED BY <1>1 DEF MenuBien, Activo

(* The life of a menu, but for its opening and its return.  What a menu is    *)
(* held to when it comes back from a pause, it was held to in the pause.      *)
AlVolver(D, p) == menu[p].fase = "pausada" /\ <<p, menu[p].quien, "activa">> \in D =>
    <<p, menu[p].quien, "pausada">> \in D

LEMMA VidaTodo ==
  ASSUME NEW D, Entorno, MenusTodoInv(D), NEW p \in Menus, AlVolver(D, p),
         Pausar(p) \/ Reanudar(p) \/ Cubrir(p) \/ Destruir(p) \/ OirNada(p)
  PROVE  MenusTodoInv(D)'
<1> DEFINE n == menu[p]
<1>0. /\ MenuBien(n) /\ n \in RegistrosMenu
      /\ n.fase # "fuera" => n.quien \in Siguen
  BY DEF MenusTodoInv, MenusInv, MenuBien
<1>1. CASE Pausar(p)
  <2> DEFINE d == DetectarJugada(n, 1)
             m == [d EXCEPT !.fase = "pausada"]
  <2>1. n.fase = "activa" /\ UNCHANGED <<vars, aviso>> /\ Queda(p, m)
    BY <1>1 DEF Pausar
  <2>2. /\ d \in RegistrosMenu /\ d.quien = n.quien /\ d.jugadaId = n.jugadaId
        /\ d.dialogos = n.dialogos /\ d.oyentes > 0 /\ d.porOir > 0 /\ d.porOir \in Nat
    BY <1>0, DetectarCampos DEF RegistrosMenu
  <2> HIDE DEF d
  <2>3. /\ MenuBien(m) /\ m.fase = "pausada" /\ m.quien = d.quien /\ m.porOir = d.porOir
        /\ m.jugadaId = d.jugadaId /\ m.dialogos = d.dialogos
    BY <1>0, <2>1, <2>2, FaseBien DEF MenuBien, FasesMenu
  <2>4. m.porOir # 0
    BY <2>2, <2>3
  <2> HIDE DEF m
  <2> QED BY <2>1, <2>2, <2>3, <2>4, UnMenu DEF Activo, Corre
<1>2. CASE Reanudar(p)
  <2> DEFINE m == [n EXCEPT !.fase = "activa"]
  <2>1. n.fase = "pausada" /\ UNCHANGED <<vars, aviso>> /\ Queda(p, m)
    BY <1>2 DEF Reanudar
  <2>2. /\ MenuBien(m) /\ m.fase = "activa" /\ m.quien = n.quien /\ m.porOir = n.porOir
        /\ m.jugadaId = n.jugadaId /\ m.dialogos = n.dialogos
    BY <1>0, <2>1, FaseBien DEF MenuBien, FasesMenu, Activo
  <2> HIDE DEF m
  <2> QED BY <2>1, <2>2, UnMenu DEF Activo, Corre, AlVolver
<1>3. CASE Cubrir(p)
  <2> DEFINE m == Tapado(n)
  <2>1. Activo(n) /\ UNCHANGED <<vars, aviso>> /\ Queda(p, m)
    BY <1>3 DEF Cubrir, Activo
  <2>2. /\ MenuBien(m) /\ m.quien = n.quien /\ m.fase = "detenida"
        /\ m.jugadaId = n.jugadaId
    BY <1>0, <2>1, TapadoCampos
  <2> HIDE DEF m
  <2> QED BY <2>1, <2>2, UnMenu DEF Activo, Corre
<1>4. CASE Destruir(p)
  <2> DEFINE m == Parado(n, "fin")
  <2>1. /\ n.fase \in {"activa", "pausada", "detenida"}
        /\ UNCHANGED <<vars, aviso>> /\ Queda(p, m)
    BY <1>4 DEF Destruir
  <2>2. /\ MenuBien(m) /\ m.quien = n.quien /\ m.fase = "fin"
        /\ m.jugadaId = n.jugadaId
    BY <1>0, <2>1, ParadoCampos
  <2> HIDE DEF m
  <2> QED BY <2>1, <2>2, UnMenu DEF Activo, Corre
<1>5. CASE OirNada(p)
  <2> DEFINE m == [n EXCEPT !.porOir = 0]
  <2>1. Corre(n) /\ UNCHANGED <<vars, aviso>> /\ Queda(p, m)
    BY <1>5 DEF OirNada
  <2>2. Pendientes(n.quien) = {} /\ n.fase # "fuera"
    BY <1>5 DEF OirNada, Corre
  <2>3. /\ m \in RegistrosMenu /\ m.fase = n.fase /\ m.quien = n.quien
        /\ m.oyentes = n.oyentes /\ m.dialogos = n.dialogos /\ m.jugadaId = n.jugadaId
    BY <1>0 DEF RegistrosMenu
  <2> HIDE DEF m
  <2>4. MenuBien(m)
    BY <1>0, <2>2, <2>3, OirBien
  <2> QED BY <2>1, <2>2, <2>3, <2>4, UnMenu DEF Activo, Corre
<1> QED BY <1>1, <1>2, <1>3, <1>4, <1>5

(* A step of the menus alone in which p becomes m. *)
LEMMA SoloMenu ==
  ASSUME NEW D, Entorno, MenusTodoInv(D), UNCHANGED vars, NEW p \in Menus, NEW m, Queda(p, m),
         MenuBien(m),
         \A q \in Menus : q < p =>
            /\ menu[q].fase # "fuera"
            /\ Activo(menu[q]) /\ menu[q].quien = m.quien => m.fase = "fin",
         \A q \in Menus : q > p /\ Activo(m) /\ menu[q].quien = m.quien =>
            menu[q].fase = "fin",
         m.fase # "fuera",
         \A b \in Busquedas : Convive(m, act[b]),
         m.jugadaId # Nada => Invitada(creadas, sentados, m.quien, m.jugadaId),
         aviso' \in [Clientes -> Partidas \cup {Nada}],
         \A c \in Clientes : aviso'[c] = aviso[c] \/ aviso'[c] \in Pendientes(c),
         Anuncia(D, p, m, Pendientes(m.quien), aviso'[m.quien])
  PROVE  MenusTodoInv(D)'
<1> DEFINE ms == [menu EXCEPT ![p] = m]
<1>0. ms[p] = m /\ \A q \in Menus : q # p => ms[q] = menu[q]
  BY DEF MenusTodoInv, MenusInv
<1>1. Quedan(ms)
  BY DEF Queda
<1> HIDE DEF ms
<1>2. act' = act /\ creadas' = creadas /\ sentados' = sentados
  BY DEF vars
<1>3. \A q \in Menus : MenuBien(ms[q])
  BY <1>0 DEF MenusTodoInv, MenusInv
<1>4. Orden(ms)
  <2> SUFFICES ASSUME NEW q \in Menus, NEW r \in Menus, q < r
               PROVE  /\ ms[q].fase = "fuera" => ms[r].fase = "fuera"
                      /\ Activo(ms[q]) /\ ms[q].quien = ms[r].quien => ms[r].fase = "fin"
    BY DEF Orden
  <2>1. q \in Nat /\ r \in Nat /\ p \in Nat
    BY DEF Menus
  <2>2. /\ menu[q].fase = "fuera" => menu[r].fase = "fuera"
        /\ Activo(menu[q]) /\ menu[q].quien = menu[r].quien => menu[r].fase = "fin"
    BY DEF MenusTodoInv, Orden
  <2>3. CASE q = p
    BY <1>0, <2>1, <2>3
  <2>4. CASE r = p
    BY <1>0, <2>1, <2>4
  <2>5. CASE q # p /\ r # p
    BY <1>0, <2>2, <2>5
  <2> QED BY <2>3, <2>4, <2>5
<1>5. \A q \in Menus, b \in Busquedas : Convive(ms[q], act'[b])
  BY <1>0, <1>2 DEF MenusTodoInv, ConvivenInv
<1>6. \A q \in Menus : ms[q].jugadaId # Nada =>
         Invitada(creadas', sentados', ms[q].quien, ms[q].jugadaId)
  BY <1>0, <1>2 DEF MenusTodoInv, InvitadosInv
<1>7. \A c \in Clientes : aviso'[c] # Nada => Invitada(creadas', sentados', c, aviso'[c])
  BY <1>2, PendienteInvitada DEF MenusTodoInv, InvitadosInv, Entorno
<1>8. Listos(ms, act', creadas', sentados', aviso')
  BY <1>3, <1>4, <1>5, <1>6, <1>7 DEF Listos
<1>9. ASSUME NEW q \in Menus, NEW c \in Siguen, ms[q].quien = c
      PROVE  Anuncia(D, q, ms[q], Pendientes(c), aviso'[c])
  <2>1. CASE q = p
    BY <1>0, <1>9, <2>1
  <2>2. CASE q # p
    <3>1. Anuncia(D, q, menu[q], Pendientes(c), aviso[c]) /\ ms[q] = menu[q]
      BY <1>0, <1>9, <2>2 DEF MenusTodoInv, AnuncioInv
    <3>2. c \in Clientes
      BY SiguenAssumption
    <3> QED BY <3>1, <3>2 DEF Anuncia
  <2> QED BY <2>1, <2>2
<1>10. Anunciado(D, ms, aviso')
  BY <1>9 DEF Anunciado
<1>11. CaenSuyas
  BY <1>2 DEF CaenSuyas
<1> QED BY <1>1, <1>8, <1>10, <1>11, QuedanTodo DEF MenusTodoInv

LEMMA AbrirMenuTodo ==
  ASSUME NEW D, Entorno, MenusTodoInv(D), NEW p \in Menus, NEW c \in Siguen, AbrirMenu(p, c)
  PROVE  MenusTodoInv(D)'
<1> DEFINE z == SinAbrir
           a == [z EXCEPT !.fase = "activa", !.quien = c]
           m == DetectarJugada(a, 2)
<1>1. /\ UNCHANGED <<vars, aviso>> /\ Queda(p, m) /\ menu[p].fase = "fuera"
      /\ \A q \in 1..(p - 1) : menu[q].fase # "fuera"
      /\ \A q \in MenusDe(c) : menu[q].fase \in {"detenida", "fin"}
      /\ \A b \in De(c) : act[b].fase \in {"detenida", "fin"}
  BY DEF AbrirMenu
<1>2. c \in Clientes /\ c # Nada
  BY SiguenAssumption, NadaAssumption
<1>3. z \in RegistrosMenu /\ z.jugadaId = Nada /\ z.dialogos = <<>>
  BY SinAbrirBien DEF MenuBien
<1> HIDE DEF z
<1>4. /\ a \in RegistrosMenu /\ a.fase = "activa" /\ a.quien = c /\ a.jugadaId = Nada
      /\ a.dialogos = <<>>
  BY <1>2, <1>3 DEF RegistrosMenu, FasesMenu
<1> HIDE DEF a
<1>5. /\ m \in RegistrosMenu /\ m.fase = "activa" /\ m.quien = c /\ m.jugadaId = Nada
      /\ m.dialogos = <<>> /\ m.oyentes > 0 /\ m.porOir > 0
  BY <1>4, DetectarCampos
<1> HIDE DEF m
<1>6. MenuBien(m)
  BY <1>5 DEF MenuBien, Atendidos
<1>7. ASSUME NEW q \in Menus, q < p
      PROVE  menu[q].fase # "fuera" /\ (menu[q].quien = c => ~Activo(menu[q]))
  BY <1>1, <1>7 DEF Menus, MenusDe, Activo
<1>8. ASSUME NEW q \in Menus, q > p PROVE menu[q].quien # c
  <2>1. menu[q].fase = "fuera" /\ MenuBien(menu[q])
    BY <1>1, <1>8 DEF MenusTodoInv, Orden, MenusInv, Menus
  <2> QED BY <1>2, <2>1, SinAbrirBien DEF MenuBien
<1>9. \A b \in Busquedas : Convive(m, act[b])
  BY <1>1, <1>5 DEF De, Convive
<1>10. UNCHANGED vars /\ aviso' = aviso
  BY <1>1
<1>11. m.porOir # 0
  BY <1>5, <1>6 DEF MenuBien, RegistrosMenu
<1>12. Anuncia(D, p, m, Pendientes(m.quien), aviso'[m.quien])
  BY <1>11 DEF Anuncia
<1>13. aviso \in [Clientes -> Partidas \cup {Nada}]
  BY DEF MenusTodoInv, InvitadosInv
<1> QED BY <1>1, <1>5, <1>6, <1>7, <1>8, <1>9, <1>10, <1>12, <1>13, SoloMenu

LEMMA RegresarTodo ==
  ASSUME NEW D, Entorno, MenusTodoInv(D), NEW p \in Menus, Regresar(p)
  PROVE  MenusTodoInv(D)'
<1> DEFINE n == menu[p]
           d == DetectarJugada(n, 2)
           m == [d EXCEPT !.fase = "activa"]
<1>1. /\ UNCHANGED <<vars, aviso>> /\ Queda(p, m) /\ n.fase = "detenida"
      /\ \A q \in MenusDe(n.quien) : q > p => menu[q].fase = "fin"
      /\ \A b \in De(n.quien) : act[b].fase \in {"detenida", "fin"}
  BY DEF Regresar
<1>2. MenuBien(n) /\ n \in RegistrosMenu /\ n.quien \in Siguen
  BY <1>1 DEF MenusTodoInv, MenusInv, MenuBien
<1>3. /\ d \in RegistrosMenu /\ d.quien = n.quien /\ d.jugadaId = n.jugadaId
      /\ d.dialogos = n.dialogos /\ d.oyentes > 0 /\ d.porOir > 0 /\ d.porOir \in Nat
  BY <1>2, DetectarCampos DEF RegistrosMenu
<1> HIDE DEF d
<1>4. /\ MenuBien(m) /\ m.fase = "activa" /\ m.quien = d.quien /\ m.porOir = d.porOir
      /\ m.jugadaId = d.jugadaId
  BY <1>2, <1>3, FaseBien DEF MenuBien, FasesMenu
<1> HIDE DEF m
<1>5. ASSUME NEW q \in Menus, q < p
      PROVE  menu[q].fase # "fuera" /\ (menu[q].quien = n.quien => ~Activo(menu[q]))
  BY <1>1, <1>5 DEF MenusTodoInv, Orden
<1>6. ASSUME NEW q \in Menus, q > p, menu[q].quien = n.quien PROVE menu[q].fase = "fin"
  BY <1>1, <1>6 DEF MenusDe
<1>7. \A b \in Busquedas : Convive(m, act[b])
  BY <1>1, <1>3, <1>4 DEF De, Convive
<1>8. m.jugadaId # Nada => Invitada(creadas, sentados, m.quien, m.jugadaId)
  BY <1>3, <1>4 DEF MenusTodoInv, InvitadosInv
<1>9. UNCHANGED vars /\ aviso' = aviso
  BY <1>1
<1>10. Anuncia(D, p, m, Pendientes(m.quien), aviso'[m.quien])
  BY <1>3, <1>4 DEF Anuncia
<1>11. aviso \in [Clientes -> Partidas \cup {Nada}]
  BY DEF MenusTodoInv, InvitadosInv
<1> QED BY <1>1, <1>3, <1>4, <1>5, <1>6, <1>7, <1>8, <1>9, <1>10, <1>11, SoloMenu

LEMMA OirTodo ==
  ASSUME NEW D, Entorno, MenusTodoInv(D), NEW p \in Menus, NEW j \in Partidas, Oir(p, j),
         <<p, menu[p].quien, "pausada">> \in D => menu[p].quien \in antiguos
  PROVE  MenusTodoInv(D)'
<1> DEFINE n == menu[p]
           c == n.quien
           h == n.porOir - 1
           m == Refiere([n EXCEPT !.porOir = @ - 1], j)
<1>1. /\ UNCHANGED vars /\ Corre(n) /\ n.porOir > 0 /\ j \in Pendientes(c)
      /\ \/ n.fase = "activa" /\ Queda(p, Dialogo(m)) /\ UNCHANGED aviso
         \/ n.fase # "activa" /\ Queda(p, m) /\ CrearNotificacion(c, j)
  BY DEF Oir
<1>2. /\ MenuBien(n) /\ n \in RegistrosMenu /\ n.fase # "fuera" /\ c \in Siguen
      /\ c \in Clientes
  BY <1>1, SiguenAssumption DEF MenusTodoInv, MenusInv, MenuBien, Corre
<1>3. m = [n EXCEPT !.porOir = h, !.jugadaId = j] /\ h \in Nat
  BY <1>1, <1>2 DEF Refiere, RegistrosMenu
<1> HIDE DEF h
<1>4. /\ m \in RegistrosMenu /\ m.fase = n.fase /\ m.quien = n.quien
      /\ m.oyentes = n.oyentes /\ m.dialogos = n.dialogos /\ m.jugadaId = j
  BY <1>2, <1>3 DEF RegistrosMenu
<1> HIDE DEF m
<1>5. MenuBien(m)
  BY <1>2, <1>4, OirBien
<1>6. ASSUME NEW x, MenuBien(x), x.fase = n.fase, x.quien = c, x.jugadaId = j, Queda(p, x),
             aviso' \in [Clientes -> Partidas \cup {Nada}],
             \A d \in Clientes : aviso'[d] = aviso[d] \/ aviso'[d] \in Pendientes(d),
             <<p, c, n.fase>> \in D => Visibles(x) # {} \/ aviso'[c] = j
      PROVE  MenusTodoInv(D)'
  <2>1. ASSUME NEW q \in Menus, q < p
        PROVE  /\ menu[q].fase # "fuera"
               /\ Activo(menu[q]) /\ menu[q].quien = c => n.fase = "fin"
    BY <1>2, <2>1 DEF MenusTodoInv, Orden
  <2>2. ASSUME NEW q \in Menus, q > p, Activo(x), menu[q].quien = c
        PROVE  menu[q].fase = "fin"
    <3>1. p < q /\ Activo(n)
      BY <1>6, <2>2 DEF Menus, Activo
    <3> QED BY <2>2, <3>1 DEF MenusTodoInv, Orden
  <2>3. \A b \in Busquedas : Convive(x, act[b])
    BY <1>6 DEF MenusTodoInv, ConvivenInv, Convive, Corre, Activo
  <2>4. Invitada(creadas, sentados, c, j)
    BY <1>1, <1>2, PendienteInvitada DEF Entorno
  <2>5. Anuncia(D, p, x, Pendientes(c), aviso'[c])
    BY <1>1, <1>6 DEF Anuncia
  <2> HIDE DEF n, c
  <2> QED BY <1>1, <1>2, <1>6, <2>1, <2>2, <2>3, <2>4, <2>5, SoloMenu
<1>7. aviso \in [Clientes -> Partidas \cup {Nada}] /\ j # Nada
  BY NadaAssumption DEF MenusTodoInv, InvitadosInv, Partidas
<1>8. CASE Queda(p, Dialogo(m)) /\ UNCHANGED aviso
  <2> DEFINE x == Dialogo(m)
  <2>1. /\ MenuBien(x) /\ x.fase = n.fase /\ x.quien = c /\ x.jugadaId = j
        /\ Visibles(x) # {}
    BY <1>2, <1>4, <1>5, <1>7, DialogoCampos
  <2> HIDE DEF x, n, c
  <2> QED BY <1>6, <1>7, <1>8, <2>1 DEF x
<1>9. CASE n.fase # "activa" /\ Queda(p, m) /\ CrearNotificacion(c, j)
  <2>1. aviso' = IF c \in antiguos THEN [aviso EXCEPT ![c] = j] ELSE aviso
    BY <1>9 DEF CrearNotificacion
  <2>2. /\ aviso' \in [Clientes -> Partidas \cup {Nada}]
        /\ c \in antiguos => aviso'[c] = j
        /\ \A d \in Clientes : aviso'[d] = aviso[d] \/ (d = c /\ aviso'[d] = j)
    BY <1>2, <1>7, <2>1
  <2>3. <<p, c, n.fase>> \in D => c \in antiguos
    BY <1>9 DEF MenusTodoInv, Debidas
  <2> HIDE DEF n, c
  <2> QED BY <1>1, <1>4, <1>5, <1>6, <1>9, <2>2, <2>3 DEF n, c
<1> QED BY <1>1, <1>8, <1>9

-----------------------------------------------------------------------------
(* The invitations answered.  What a dialog that is up, or a clock, answers   *)
(* for, is an invitation.                                                     *)
LEMMA TieneInvitacion ==
  ASSUME NEW D, MenusTodoInv(D), NEW p \in Menus, Visibles(menu[p]) # {} \/ ConReloj(menu[p]) # {}
  PROVE  /\ menu[p].jugadaId \in Partidas /\ menu[p].quien \in Siguen
         /\ menu[p].quien \in Clientes /\ menu[p].fase # "fuera" /\ MenuBien(menu[p])
         /\ Invitada(creadas, sentados, menu[p].quien, menu[p].jugadaId)
<1> DEFINE m == menu[p]
<1>1. MenuBien(m) /\ m \in RegistrosMenu
  BY DEF MenusTodoInv, MenusInv
<1>2. m.dialogos # <<>>
  BY DEF Visibles, ConReloj
<1>3. m.jugadaId # Nada /\ m.fase # "fuera" /\ m.quien \in Siguen
  BY <1>1, <1>2, SinAbrirBien DEF MenuBien
<1>4. m.jugadaId \in Partidas
  BY <1>1, <1>3 DEF RegistrosMenu
<1> QED BY <1>1, <1>3, <1>4, SiguenAssumption DEF MenusTodoInv, InvitadosInv

LEMMA DeclinaEs ==
  ASSUME NEW D, MenusTodoInv(D), NEW p \in Menus, Corre(menu[p]), CancelarJugada(menu[p]),
         Visibles(menu[p]) # {} \/ ConReloj(menu[p]) # {}
  PROVE  \E c \in Clientes, j \in Partidas : Declina(c, j) /\ UNCHANGED extras
<1> DEFINE c == menu[p].quien
           j == menu[p].jugadaId
<1>1. c \in Clientes /\ j \in Partidas /\ Invitada(creadas, sentados, c, j)
  BY TieneInvitacion
<1>2. Ajena(c, "rechazo", j, Nada) /\ UNCHANGED extras
  BY DEF CancelarJugada
<1>3. \A b \in De(c) : Viva(b)
  BY DEF De, Viva, MenusTodoInv, ConvivenInv, Convive
<1> HIDE DEF c, j
<1> QED BY <1>1, <1>2, <1>3 DEF Declina, Invitada

LEMMA AbreInvitadoEs ==
  ASSUME NEW b \in Busquedas, NEW c \in Clientes, NEW j \in Partidas,
         AbreInvitado(b, c, j), Invitada(creadas, sentados, c, j),
         \A x \in De(c) : act[x].fase \in {"detenida", "fin"}
  PROVE  AbrirInvitado(b, c, j)
BY DEF AbreInvitado, AbrirInvitado, PuedeAbrir, Siguiente, Invitada

LEMMA AceptarEs ==
  ASSUME NEW D, MenusTodoInv(D), NEW p \in Menus, NEW b \in Busquedas, Aceptar(p, b)
  PROVE  /\ AbrirInvitado(b, menu[p].quien, menu[p].jugadaId)
         /\ menu[p].quien \in Clientes /\ menu[p].jugadaId \in Partidas
<1>1. /\ menu[p].fase = "activa" /\ Visibles(menu[p]) # {}
      /\ AbreInvitado(b, menu[p].quien, menu[p].jugadaId)
  BY DEF Aceptar, TocaDialogo
<1>2. \A x \in De(menu[p].quien) : act[x].fase \in {"detenida", "fin"}
  BY <1>1 DEF De, MenusTodoInv, ConvivenInv, Convive, Activo
<1> QED BY <1>1, <1>2, TieneInvitacion, AbreInvitadoEs

LEMMA AbrirAvisoEs ==
  ASSUME NEW D, MenusTodoInv(D), NEW b \in Busquedas, NEW c \in Siguen, AbrirAviso(b, c)
  PROVE  AbrirInvitado(b, c, aviso[c]) /\ c \in Clientes /\ aviso[c] \in Partidas
<1>1. c \in Clientes
  BY SiguenAssumption
<1>2. aviso[c] \in Partidas /\ Invitada(creadas, sentados, c, aviso[c])
  BY <1>1 DEF AbrirAviso, MenusTodoInv, InvitadosInv
<1> QED BY <1>1, <1>2, AbreInvitadoEs DEF AbrirAviso

(* Every step is one of matchmaking, a refusal, or one of the menus alone. *)
LEMMA PasoBien ==
  ASSUME NEW D, MenusTodoInv(D), NextTransicion
  PROVE  PasoDeEmparejamiento
<1>1. ASSUME NEW p \in Menus, PasoMenu(p) PROVE PasoDeEmparejamiento
  <2>1. CASE \/ \E c \in Siguen : AbrirMenu(p, c)
             \/ Pausar(p) \/ Reanudar(p) \/ Cubrir(p) \/ Regresar(p) \/ Destruir(p)
             \/ OirNada(p) \/ \E j \in Partidas : Oir(p, j)
    <3>1. UNCHANGED vars
      BY <2>1 DEF AbrirMenu, Pausar, Reanudar, Cubrir, Regresar, Destruir, OirNada, Oir
    <3> QED BY <3>1 DEF PasoDeEmparejamiento
  <2>2. ASSUME NEW b \in Busquedas, Aceptar(p, b) PROVE PasoDeEmparejamiento
    BY <2>2, AceptarEs DEF PasoDeEmparejamiento, Next, Paso, Abrir
  <2>3. CASE Cancelar(p) \/ Expira(p)
    <3>1. /\ CancelarJugada(menu[p]) /\ Corre(menu[p])
          /\ Visibles(menu[p]) # {} \/ ConReloj(menu[p]) # {}
      BY <2>3 DEF Cancelar, Expira, TocaDialogo, Corre
    <3> QED BY <3>1, DeclinaEs DEF PasoDeEmparejamiento
  <2> QED BY <1>1, <2>1, <2>2, <2>3 DEF PasoMenu
<1>2. ASSUME NEW b \in Busquedas, NEW c \in Siguen, AbrirAviso(b, c)
      PROVE  PasoDeEmparejamiento
  BY <1>2, AbrirAvisoEs DEF PasoDeEmparejamiento, Next, Paso, Abrir
<1>3. ASSUME NEW b \in Busquedas, NEW c \in Clientes, Buscar(b, c)
      PROVE  PasoDeEmparejamiento
  BY <1>3, SiguenAssumption DEF Buscar, PasoDeEmparejamiento, Next, Paso, Abrir
<1>4. CASE Sala1
  BY <1>4 DEF Sala1, PasoDeEmparejamiento, Next, Paso
<1> QED BY <1>1, <1>2, <1>3, <1>4 DEF NextTransicion, PasoTransicion

(* Matchmaking keeps its invariants, and what it has created. *)
LEMMA AplicaSientan ==
  ASSUME Inv, NEW c \in Clientes, Aplica(c)
  PROVE  CreaMas /\ Sientan
<1> DEFINE w == Head(pend[c])
           n == Asientos(Tras(c, w, jugadas[w.j]))
<1>1. sentados' = [sentados EXCEPT ![w.j] = @ \cup n] /\ creadas' = creadas
  BY DEF Aplica
<1>2. sentados \in [Partidas -> SUBSET Clientes]
  BY DEF Inv, DatosInv, DatosTipo
<1> HIDE DEF w, n
<1> QED BY <1>1, <1>2 DEF CreaMas, Sientan

LEMMA EmparejamientoSigue ==
  ASSUME AperturaInv, AtendidaInv, PasoDeEmparejamiento
  PROVE  AperturaInv' /\ AtendidaInv' /\ CreaMas /\ Sientan
<1>0. Inv
  BY DEF AperturaInv
<1>1. CASE UNCHANGED vars
  <2>1. AperturaInv' /\ AtendidaInv'
    BY <1>1, NextApertura, NextAtendida
  <2> QED BY <1>1, <2>1 DEF vars, CreaMas, Sientan
<1>2. CASE Next
  <2>1. AperturaInv' /\ AtendidaInv'
    BY <1>2, NextApertura, NextAtendida
  <2>2. ASSUME NEW b \in Busquedas, Paso(b) PROVE CreaMas /\ Sientan
    <3>1. ActInv'
      BY <2>1 DEF AperturaInv, Inv
    <3> QED BY <1>0, <2>2, <3>1, PasoDatos DEF Sientan
  <2>3. ASSUME NEW c \in Clientes, NEW j \in Partidas, Juega(c, j) \/ Rechaza(c, j)
        PROVE  CreaMas /\ Sientan
    BY <2>3 DEF Juega, Rechaza, Declina, Ajena, CreaMas, Sientan
  <2> QED BY <1>0, <1>2, <2>1, <2>2, <2>3, AplicaSientan DEF Next
<1>3. ASSUME NEW c \in Clientes, NEW j \in Partidas, Declina(c, j), UNCHANGED extras
      PROVE  AperturaInv' /\ AtendidaInv' /\ CreaMas /\ Sientan
  <2>1. /\ sentados[j] # {} /\ creadas[j].inv = c /\ Ajena(c, "rechazo", j, Nada)
        /\ extras' \in Nat
    BY <1>0, <1>3 DEF Declina, Inv
  <2>2. Inv'
    BY <1>0, <2>1, AjenaInv
  <2>3. AperturaInv'
    BY <1>3, <2>2, AjenaSuya DEF AperturaInv
  <2>4. AtendidaInv'
    BY <1>3, AjenaSigue
  <2> QED BY <2>1, <2>3, <2>4 DEF Ajena, CreaMas, Sientan
<1> QED BY <1>1, <1>2, <1>3 DEF PasoDeEmparejamiento

LEMMA HayEntorno ==
  AperturaInv /\ AtendidaInv /\ PasoDeEmparejamiento =>
      Entorno /\ AperturaInv' /\ AtendidaInv'
<1> SUFFICES ASSUME AperturaInv, AtendidaInv, PasoDeEmparejamiento
             PROVE  Entorno /\ AperturaInv' /\ AtendidaInv'
  OBVIOUS
<1>1. AperturaInv' /\ AtendidaInv' /\ CreaMas /\ Sientan
  BY EmparejamientoSigue
<1> QED BY <1>1, VeSiempre, VeDespues DEF Entorno, AperturaInv

-----------------------------------------------------------------------------
(* A refusal: the query of its player changes, or it answered nothing that    *)
(* was pending.                                                               *)
LEMMA RechazoTodo ==
  ASSUME NEW D, Entorno, MenusTodoInv(D), NEW p \in Menus, Corre(menu[p]), UNCHANGED aviso,
         CancelarJugada(menu[p]), Visibles(menu[p]) # {} \/ ConReloj(menu[p]) # {},
         NEW m, Queda(p, m), MenuBien(m), m.fase = menu[p].fase,
         m.quien = menu[p].quien, m.porOir = menu[p].porOir, m.jugadaId = menu[p].jugadaId
  PROVE  MenusTodoInv(D)'
<1> DEFINE ms == [menu EXCEPT ![p] = m]
           c == menu[p].quien
           j == menu[p].jugadaId
           w == [tipo |-> "rechazo", j |-> j, doc |-> Nada, de |-> Nada]
<1>0. ms[p] = m /\ \A q \in Menus : q # p => ms[q] = menu[q]
  BY DEF MenusTodoInv, MenusInv
<1>1. Quedan(ms)
  BY DEF Queda
<1> HIDE DEF ms
<1>2. /\ Encola(c, <<w>>) /\ UNCHANGED <<jugadas, act, creadas>>
  BY DEF CancelarJugada, Ajena
<1>3. c \in Siguen /\ j \in Partidas /\ menu[p].fase # "fuera"
  BY TieneInvitacion
<1>4. w \in Escrituras /\ w.j = j /\ w.tipo = "rechazo"
  BY <1>3 DEF Escrituras, Tipos
<1> HIDE DEF w
<1>5. Mismos(ms)
  BY <1>0, <1>3, UnoMismos DEF Activo
<1>6. Conviven(ms) /\ CaenSuyas
  <2>1. Quietas
    BY <1>2 DEF Quietas
  <2>2. \A q \in Menus : Corre(ms[q]) => Corre(menu[q])
    BY <1>0
  <2> QED BY <1>5, <2>1, <2>2, QuietasConviven
<1>7. c \notin CambianConsulta => j \notin Pendientes(c)
  BY <1>2, <1>3, <1>4, RespuestaCambia DEF Entorno
<1>8. ASSUME NEW q \in Menus, NEW d \in Siguen \ CambianConsulta, ms[q].quien = d
      PROVE  Anuncia(D, q, ms[q], Pendientes(d), aviso'[d])
  <2>1. Anuncia(D, q, menu[q], Pendientes(d), aviso[d])
    BY <1>5, <1>8 DEF MenusTodoInv, AnuncioInv, Mismos
  <2>2. CASE q # p
    BY <1>0, <2>1, <2>2
  <2>3. CASE q = p
    BY <1>0, <1>7, <1>8, <2>1, <2>3 DEF Anuncia
  <2> QED BY <2>2, <2>3
<1>9. Anunciado(D, ms, aviso')
  BY <1>8 DEF Anunciado
<1>10. /\ aviso' \in [Clientes -> Partidas \cup {Nada}]
       /\ \A d \in Clientes : aviso'[d] \in {aviso[d], Nada}
  BY DEF MenusTodoInv, InvitadosInv
<1> QED BY <1>1, <1>5, <1>6, <1>9, <1>10, MismosTodo

LEMMA CancelarTodo ==
  ASSUME NEW D, Entorno, MenusTodoInv(D), NEW p \in Menus, Cancelar(p) \/ Expira(p)
  PROVE  MenusTodoInv(D)'
<1>1. CASE Cancelar(p)
  <2> DEFINE m == Cierra(menu[p])
  <2>1. /\ menu[p].fase = "activa" /\ Visibles(menu[p]) # {} /\ CancelarJugada(menu[p])
        /\ Queda(p, m) /\ UNCHANGED aviso
    BY <1>1 DEF Cancelar, TocaDialogo
  <2>2. MenuBien(menu[p])
    BY DEF MenusTodoInv, MenusInv
  <2>3. /\ MenuBien(m) /\ m.fase = menu[p].fase /\ m.quien = menu[p].quien
        /\ m.porOir = menu[p].porOir /\ m.jugadaId = menu[p].jugadaId
    BY <2>1, <2>2, CierraCampos
  <2> HIDE DEF m
  <2> QED BY <2>1, <2>3, RechazoTodo DEF Corre
<1>2. CASE Expira(p)
  <2> DEFINE m == Expirado(menu[p])
  <2>1. /\ Corre(menu[p]) /\ ConReloj(menu[p]) # {} /\ CancelarJugada(menu[p])
        /\ Queda(p, m) /\ UNCHANGED aviso
    BY <1>2 DEF Expira
  <2>2. MenuBien(menu[p])
    BY DEF MenusTodoInv, MenusInv
  <2>3. /\ MenuBien(m) /\ m.fase = menu[p].fase /\ m.quien = menu[p].quien
        /\ m.porOir = menu[p].porOir /\ m.jugadaId = menu[p].jugadaId
    BY <2>1, <2>2, ExpiradoCampos
  <2> HIDE DEF m
  <2> QED BY <2>1, <2>3, RechazoTodo
<1> QED BY <1>1, <1>2

(* The openings of a search, which leave no menu of its player on the screen. *)
LEMMA AbrenTodo ==
  ASSUME NEW D, Entorno, MenusTodoInv(D), NEW b \in Busquedas, NEW c \in Clientes, NEW a,
         Pasa(b, a), a.quien = c, a.fase = "activa",
         \A x \in De(c) : act[x].fase \in {"detenida", "fin"},
         NEW ms, Mismos(ms), Quedan(ms),
         \A p \in Menus : IF ms[p].quien = c THEN ~Activo(ms[p]) ELSE ms[p] = menu[p],
         aviso' \in [Clientes -> Partidas \cup {Nada}],
         \A d \in Clientes : aviso'[d] = aviso[d] \/ (d = c /\ aviso'[d] = Nada)
  PROVE  MenusTodoInv(D)'
<1>1. act'[b] = a /\ \A x \in Busquedas : x # b => act'[x] = act[x]
  BY DEF Pasa, Entorno, Inv, ActInv
<1>2. CaenSuyas
  BY <1>1 DEF CaenSuyas
<1>3. Conviven(ms)
  <2> SUFFICES ASSUME NEW p \in Menus, NEW x \in Busquedas, act'[x].fase # "caida"
               PROVE  Convive(ms[p], act'[x])
    BY DEF Conviven
  <2>1. CASE x = b
    BY <1>1, <2>1 DEF Convive
  <2>2. CASE x # b /\ ms[p].quien = c
    BY <1>1, <2>2 DEF Convive, De
  <2>3. CASE x # b /\ ms[p].quien # c
    BY <1>1, <2>3 DEF MenusTodoInv, ConvivenInv
  <2> QED BY <2>1, <2>2, <2>3
<1>4. Anunciado(D, ms, aviso')
  <2> SUFFICES ASSUME NEW p \in Menus, NEW d \in Siguen, ms[p].quien = d
               PROVE  Anuncia(D, p, ms[p], Pendientes(d), aviso'[d])
    BY DEF Anunciado
  <2>1. CASE d = c
    <3>1. <<p, d, ms[p].fase>> \notin D
      BY <2>1 DEF MenusTodoInv, Debidas, Activo
    <3> QED BY <3>1 DEF Anuncia
  <2>2. CASE d # c
    <3>1. aviso'[d] = aviso[d] /\ ms[p] = menu[p]
      BY <2>2, SiguenAssumption
    <3> QED BY <3>1 DEF MenusTodoInv, AnuncioInv
  <2> QED BY <2>1, <2>2
<1> QED BY <1>2, <1>3, <1>4, MismosTodo

(* All the menus of c become what f makes of them. *)
LEMMA DeMismos ==
  ASSUME NEW D, MenusTodoInv(D), NEW c \in Clientes, NEW ms,
         \A p \in Menus : IF menu[p].quien = c
                          THEN ms[p] = Tapado(menu[p]) \/ ms[p] = Parado(menu[p], "fin")
                          ELSE ms[p] = menu[p]
  PROVE  /\ Mismos(ms)
         /\ \A p \in Menus : IF ms[p].quien = c THEN ~Activo(ms[p]) ELSE ms[p] = menu[p]
<1> SUFFICES ASSUME NEW p \in Menus
             PROVE  /\ MenuBien(ms[p]) /\ ms[p].quien = menu[p].quien
                    /\ ms[p].jugadaId = menu[p].jugadaId
                    /\ ms[p].fase = "fuera" <=> menu[p].fase = "fuera"
                    /\ menu[p].fase = "fin" => ms[p].fase = "fin"
                    /\ Activo(ms[p]) => Activo(menu[p])
                    /\ IF ms[p].quien = c THEN ~Activo(ms[p]) ELSE ms[p] = menu[p]
  BY DEF Mismos
<1>1. MenuBien(menu[p])
  BY DEF MenusTodoInv, MenusInv
<1>2. CASE menu[p].quien # c
  BY <1>1, <1>2
<1>3. CASE menu[p].quien = c
  <2>1. menu[p].fase # "fuera"
    BY <1>1, <1>3, SinAbrirBien, NadaAssumption DEF MenuBien
  <2>2. CASE ms[p] = Tapado(menu[p])
    <3>1. /\ MenuBien(ms[p]) /\ ms[p].quien = menu[p].quien
          /\ ms[p].fase = IF Activo(menu[p]) THEN "detenida" ELSE menu[p].fase
          /\ ms[p].jugadaId = menu[p].jugadaId
      BY <1>1, <2>2, TapadoCampos
    <3> QED BY <1>3, <2>1, <3>1 DEF Activo
  <2>3. CASE ms[p] = Parado(menu[p], "fin")
    <3>1. /\ MenuBien(ms[p]) /\ ms[p].quien = menu[p].quien /\ ms[p].fase = "fin"
          /\ ms[p].jugadaId = menu[p].jugadaId
      BY <1>1, <2>1, <2>3, ParadoCampos
    <3> QED BY <1>3, <2>1, <3>1 DEF Activo
  <2> QED BY <1>3, <2>2, <2>3
<1> QED BY <1>2, <1>3

LEMMA AbreInvitadoPasa ==
  ASSUME NEW b \in Busquedas, NEW c \in Clientes, NEW j \in Partidas, AbreInvitado(b, c, j)
  PROVE  /\ \E a : Pasa(b, a) /\ a.quien = c /\ a.fase = "activa"
         /\ aviso' = [aviso EXCEPT ![c] = Nada]
<1> DEFINE z == Abierta(c)
           a == [z EXCEPT !.jugadaId = j]
<1>1. Pasa(b, a) /\ aviso' = [aviso EXCEPT ![c] = Nada]
  BY DEF AbreInvitado
<1>2. z \in Actividades /\ z.quien = c /\ z.fase = "activa"
  BY AbiertaTipo
<1> HIDE DEF z
<1>3. a.quien = c /\ a.fase = "activa"
  BY <1>2 DEF Actividades
<1> HIDE DEF a
<1> QED BY <1>1, <1>3

LEMMA SinAviso ==
  ASSUME NEW D, MenusTodoInv(D), NEW c \in Clientes, aviso' = [aviso EXCEPT ![c] = Nada]
  PROVE  /\ aviso' \in [Clientes -> Partidas \cup {Nada}]
         /\ \A d \in Clientes : aviso'[d] = aviso[d] \/ (d = c /\ aviso'[d] = Nada)
BY DEF MenusTodoInv, InvitadosInv

LEMMA AceptarTodo ==
  ASSUME NEW D, Entorno, MenusTodoInv(D), NEW p \in Menus, NEW b \in Busquedas, Aceptar(p, b)
  PROVE  MenusTodoInv(D)'
<1> DEFINE c == menu[p].quien
           j == menu[p].jugadaId
           z == Cierra(menu[p])
           m == Tapado(z)
           ms == [menu EXCEPT ![p] = m]
<1>1. /\ menu[p].fase = "activa" /\ Visibles(menu[p]) # {} /\ AbreInvitado(b, c, j)
      /\ Quedan(ms)
  BY DEF Aceptar, TocaDialogo, Queda
<1>2. /\ c \in Clientes /\ j \in Partidas
      /\ \A x \in De(c) : act[x].fase \in {"detenida", "fin"}
  BY AceptarEs DEF AbrirInvitado, PuedeAbrir
<1>3. ms[p] = m /\ \A q \in Menus : q # p => ms[q] = menu[q]
  BY DEF MenusTodoInv, MenusInv
<1> HIDE DEF ms
<1>4. MenuBien(menu[p])
  BY DEF MenusTodoInv, MenusInv
<1>5. /\ MenuBien(z) /\ z.fase = "activa" /\ z.quien = c /\ z.jugadaId = j
  BY <1>1, <1>4, CierraCampos
<1> HIDE DEF z
<1>6. /\ MenuBien(m) /\ m.fase = "detenida" /\ m.quien = c /\ m.jugadaId = j
  BY <1>5, TapadoCampos DEF Activo
<1> HIDE DEF m
<1>7. Mismos(ms)
  BY <1>1, <1>3, <1>6, UnoMismos DEF Activo
<1>8. ASSUME NEW q \in Menus
      PROVE  IF ms[q].quien = c THEN ~Activo(ms[q]) ELSE ms[q] = menu[q]
  <2>1. CASE q = p
    BY <1>3, <1>6, <2>1 DEF Activo
  <2>2. CASE q # p
    <3>1. p \in Nat /\ q \in Nat
      BY DEF Menus
    <3>2. Activo(menu[p])
      BY <1>1 DEF Activo
    <3>3. q < p => ~(Activo(menu[q]) /\ menu[q].quien = menu[p].quien)
      BY <1>1 DEF MenusTodoInv, Orden
    <3>4. p < q /\ menu[q].quien = menu[p].quien => menu[q].fase = "fin"
      BY <3>2 DEF MenusTodoInv, Orden
    <3> QED BY <1>3, <2>2, <3>1, <3>3, <3>4 DEF Activo
  <2> QED BY <2>1, <2>2
<1> HIDE DEF c, j
<1>9. PICK a : Pasa(b, a) /\ a.quien = c /\ a.fase = "activa"
  BY <1>1, <1>2, AbreInvitadoPasa
<1>10. /\ aviso' \in [Clientes -> Partidas \cup {Nada}]
       /\ \A d \in Clientes : aviso'[d] = aviso[d] \/ (d = c /\ aviso'[d] = Nada)
  BY <1>1, <1>2, AbreInvitadoPasa, SinAviso
<1> QED BY <1>1, <1>2, <1>7, <1>8, <1>9, <1>10, AbrenTodo

LEMMA AbrirAvisoTodo ==
  ASSUME NEW D, Entorno, MenusTodoInv(D), NEW b \in Busquedas, NEW c \in Siguen, AbrirAviso(b, c)
  PROVE  MenusTodoInv(D)'
<1> DEFINE ms == [p \in Menus |-> IF p \in MenusDe(c) THEN Parado(menu[p], "fin")
                                                     ELSE menu[p]]
           j == aviso[c]
<1>1. AbreInvitado(b, c, j) /\ Quedan(ms)
  BY DEF AbrirAviso
<1>2. /\ c \in Clientes /\ j \in Partidas
      /\ \A x \in De(c) : act[x].fase \in {"detenida", "fin"}
  BY AbrirAvisoEs DEF AbrirInvitado, PuedeAbrir
<1>3. \A p \in Menus : IF menu[p].quien = c
                       THEN ms[p] = Tapado(menu[p]) \/ ms[p] = Parado(menu[p], "fin")
                       ELSE ms[p] = menu[p]
  BY DEF MenusDe
<1> HIDE DEF ms, j
<1>4. /\ Mismos(ms)
      /\ \A p \in Menus : IF ms[p].quien = c THEN ~Activo(ms[p]) ELSE ms[p] = menu[p]
  BY <1>2, <1>3, DeMismos
<1>5. PICK a : Pasa(b, a) /\ a.quien = c /\ a.fase = "activa"
  BY <1>1, <1>2, AbreInvitadoPasa
<1>6. /\ aviso' \in [Clientes -> Partidas \cup {Nada}]
      /\ \A d \in Clientes : aviso'[d] = aviso[d] \/ (d = c /\ aviso'[d] = Nada)
  BY <1>1, <1>2, AbreInvitadoPasa, SinAviso
<1> QED BY <1>1, <1>2, <1>4, <1>5, <1>6, AbrenTodo

LEMMA BuscarTodo ==
  ASSUME NEW D, Entorno, MenusTodoInv(D), NEW b \in Busquedas, NEW c \in Clientes, Buscar(b, c)
  PROVE  MenusTodoInv(D)'
<1> DEFINE ms == [p \in Menus |-> IF p \in MenusDe(c) THEN Tapado(menu[p]) ELSE menu[p]]
           z == Abierta(c)
<1>1. Quedan(ms) /\ aviso' = aviso
  BY DEF Buscar
<1>2. \A p \in Menus : IF menu[p].quien = c
                       THEN ms[p] = Tapado(menu[p]) \/ ms[p] = Parado(menu[p], "fin")
                       ELSE ms[p] = menu[p]
  BY DEF MenusDe
<1> HIDE DEF ms
<1>3. /\ Mismos(ms)
      /\ \A p \in Menus : IF ms[p].quien = c THEN ~Activo(ms[p]) ELSE ms[p] = menu[p]
  BY <1>2, DeMismos
<1>4. \A x \in De(c) : act[x].fase \in {"detenida", "fin"}
  BY DEF Buscar, AbrirLibre, AbrirInvitando, PuedeAbrir
<1>5. z \in Actividades /\ z.quien = c /\ z.fase = "activa"
  BY AbiertaTipo
<1>6. \E a : Pasa(b, a) /\ a.quien = c /\ a.fase = "activa"
  <2>1. CASE AbrirLibre(b, c)
    <3> DEFINE a == [z EXCEPT !.consulta = TRUE]
    <3>1. Pasa(b, a)
      BY <2>1 DEF AbrirLibre
    <3> HIDE DEF z
    <3>2. a.quien = c /\ a.fase = "activa"
      BY <1>5 DEF Actividades
    <3> HIDE DEF a
    <3> QED BY <3>1, <3>2
  <2>2. ASSUME NEW inv, AbrirInvitando(b, c, inv)
        PROVE  \E a : Pasa(b, a) /\ a.quien = c /\ a.fase = "activa"
    <3> DEFINE v == (inv = c)
               a == [z EXCEPT !.crearInv = v]
    <3>1. Pasa(b, a)
      BY <2>2 DEF AbrirInvitando
    <3> HIDE DEF z, v
    <3>2. a.quien = c /\ a.fase = "activa"
      BY <1>5 DEF Actividades
    <3> HIDE DEF a
    <3> QED BY <3>1, <3>2
  <2> QED BY <2>1, <2>2 DEF Buscar
<1>7. PICK a : Pasa(b, a) /\ a.quien = c /\ a.fase = "activa"
  BY <1>6
<1>8. /\ aviso' \in [Clientes -> Partidas \cup {Nada}]
      /\ \A d \in Clientes : aviso'[d] = aviso[d] \/ (d = c /\ aviso'[d] = Nada)
  BY <1>1 DEF MenusTodoInv, InvitadosInv
<1> QED BY <1>1, <1>3, <1>4, <1>7, <1>8, AbrenTodo
-----------------------------------------------------------------------------
(* The rest of matchmaking.  No search changes hands, and none of those the   *)
(* player has left comes back to the screen.                                  *)
Quieta(z, a) == /\ a.quien = z.quien
                /\ z.fase # "fuera" => a.fase # "fuera"
                /\ z.fase \in {"detenida", "fin"} => a.fase \in {"detenida", "fin", "caida"}

LEMMA PasaQuietas ==
  ASSUME ActInv, NEW b \in Busquedas, NEW a, Pasa(b, a), Quieta(act[b], a)
  PROVE  Quietas
BY DEF ActInv, Pasa, Quieta, Quietas

LEMMA CaidaQuietas ==
  ASSUME ActInv, NEW b \in Busquedas, Caida(b)
  PROVE  Quietas
<1> SUFFICES ASSUME NEW x \in Busquedas PROVE Quieta(act[x], act'[x])
  BY DEF Quietas, Quieta
<1> DEFINE z == Cerrada
           q == act[b].quien
           v == act[x].abiertas
           y == [z EXCEPT !.fase = "caida", !.quien = q, !.abiertas = v]
<1>1. z \in Actividades
  BY CerradaTipo
<1>2. act'[x] = IF act[x].quien # q THEN act[x] ELSE y
  BY DEF Caida
<1> HIDE DEF z, q, v
<1>3. y.quien = q /\ y.fase = "caida"
  BY <1>1 DEF Actividades
<1> HIDE DEF y
<1> QED BY <1>2, <1>3 DEF Quieta

LEMMA StarGameQuietas ==
  ASSUME ActInv, NEW b \in Busquedas, NEW a \in Actividades, StarGame(b, a),
         Quieta(act[b], a)
  PROVE  Quietas
<1>1. CASE Pasa(b, Abre(a))
  <2> DEFINE v == a.abiertas \cup {a.jugadaId}
             n == [a EXCEPT !.oye = Nada, !.jugadaId = Nada, !.abiertas = v]
  <2>1. Pasa(b, n)
    BY <1>1 DEF Abre, Actividades
  <2> HIDE DEF v
  <2>2. n.quien = a.quien /\ n.fase = a.fase
    BY DEF Actividades
  <2> HIDE DEF n
  <2>3. Quieta(act[b], n)
    BY <2>2 DEF Quieta
  <2> QED BY <2>1, <2>3, PasaQuietas
<1> QED BY <1>1, CaidaQuietas DEF StarGame

LEMMA AvanzaQuietas ==
  ASSUME ActInv, NEW b \in Busquedas, Avanza(b)
  PROVE  Quietas
<1> DEFINE z == act[b]
<1>0. z \in Actividades
  BY DEF ActInv
<1>1. CASE Enlace(b)
  <2> DEFINE j == z.enlace
             a == [z EXCEPT !.enlace = Nada, !.jugadaId = j]
  <2>1. Pasa(b, a)
    BY <1>1 DEF Enlace
  <2> HIDE DEF j
  <2>2. Quieta(z, a)
    BY <1>0 DEF Actividades, Quieta
  <2> HIDE DEF a
  <2> QED BY <2>1, <2>2, PasaQuietas
<1>2. CASE NingunaSirve(b)
  <2> DEFINE a == [z EXCEPT !.consulta = FALSE]
  <2>1. Pasa(b, a)
    BY <1>2 DEF NingunaSirve
  <2>2. Quieta(z, a)
    BY <1>0 DEF Actividades, Quieta
  <2> HIDE DEF a
  <2> QED BY <2>1, <2>2, PasaQuietas
<1>3. ASSUME NEW j \in Partidas, NEW antes \in SUBSET Partidas, Encuentra(b, j, antes)
      PROVE  Quietas
  <2> DEFINE a == [z EXCEPT !.consulta = FALSE, !.jugadaId = j]
  <2>1. Pasa(b, a)
    BY <1>3 DEF Encuentra
  <2>2. Quieta(z, a)
    BY <1>0 DEF Actividades, Quieta
  <2> HIDE DEF a
  <2> QED BY <2>1, <2>2, PasaQuietas
<1>4. ASSUME NEW j \in Partidas, Evento(b, j) PROVE Quietas
  <2>1. CASE Caida(b)
    BY <2>1, CaidaQuietas
  <2>2. CASE UNCHANGED act
    BY <2>2 DEF Quietas
  <2>3. CASE Pasa(b, [z EXCEPT !.puestos = @ + 1])
    <3> DEFINE k == z.puestos + 1
               a == [z EXCEPT !.puestos = k]
    <3>1. Pasa(b, a)
      BY <1>0, <2>3 DEF Actividades
    <3> HIDE DEF k
    <3>2. Quieta(z, a)
      BY <1>0 DEF Actividades, Quieta
    <3> HIDE DEF a
    <3> QED BY <3>1, <3>2, PasaQuietas
  <2> QED BY <1>4, <2>1, <2>2, <2>3 DEF Evento
<1>5. CASE Empieza(b)
  <2> DEFINE k == z.puestos - 1
             a == [z EXCEPT !.puestos = k]
  <2>1. StarGame(b, a) /\ k \in Nat
    BY <1>0, <1>5 DEF Empieza, Actividades
  <2> HIDE DEF k
  <2>2. a \in Actividades /\ Quieta(z, a)
    BY <1>0, <2>1 DEF Actividades, Quieta
  <2> HIDE DEF a
  <2> QED BY <2>1, <2>2, StarGameQuietas
<1>6. ASSUME NEW atras \in BOOLEAN, Parar(b, atras) PROVE Quietas
  <2> DEFINE v == z.crearInv /\ ~atras
             f == IF z.fase = "activa" /\ ~atras THEN "detenida" ELSE "fin"
             o == IF v THEN z.oye ELSE Nada
             a == [z EXCEPT !.fase = f, !.crearInv = v, !.oye = o, !.enlace = Nada]
  <2>1. Pasa(b, a)
    BY <1>0, <1>6 DEF Parar, Actividades
  <2>2. f \in {"detenida", "fin"}
    OBVIOUS
  <2> HIDE DEF v, f, o
  <2>3. Quieta(z, a)
    BY <1>0, <2>2 DEF Actividades, Quieta
  <2> HIDE DEF a
  <2> QED BY <2>1, <2>3, PasaQuietas
<1> QED BY <1>1, <1>2, <1>3, <1>4, <1>5, <1>6 DEF Avanza

LEMMA AplicaQuietas ==
  ASSUME Inv, NEW c \in Clientes, Aplica(c)
  PROVE  Quietas
<1> DEFINE w == Head(pend[c])
           b == w.de
           z == act[b]
<1>1. pend[c] \in Seq(Escrituras) /\ pend[c] # <<>>
  BY DEF Inv, DatosInv, DatosTipo, Aplica
<1>2. w \in Escrituras
  BY <1>1, SeqCola
<1>3. b \in Busquedas \cup {Nada}
  BY <1>2 DEF Escrituras
<1>4. ActInv
  BY DEF Inv
<1>5. \/ SinRespuesta(w)
      \/ b # Nada /\ Viva(b) /\ (Creada(w) \/ Unida(w) \/ YaNoExiste(w) \/ Borrada(w))
  BY DEF Aplica
<1> HIDE DEF w
<1>6. CASE SinRespuesta(w)
  BY <1>6 DEF SinRespuesta, Quietas
<1>7. CASE b # Nada /\ Viva(b) /\ (Creada(w) \/ Unida(w) \/ YaNoExiste(w) \/ Borrada(w))
  <2>1. b \in Busquedas /\ z \in Actividades
    BY <1>3, <1>4, <1>7 DEF ActInv
  <2>2. CASE Creada(w)
    <3> DEFINE j == w.j
               o == Oye(b)
               a == [z EXCEPT !.jugadaId = j, !.oye = j, !.sueltas = o]
    <3>1. Pasa(b, a)
      BY <2>2 DEF Creada
    <3> HIDE DEF o, j
    <3>2. Quieta(z, a)
      BY <2>1 DEF Actividades, Quieta
    <3> HIDE DEF a
    <3> QED BY <1>4, <2>1, <3>1, <3>2, PasaQuietas
  <2>3. CASE Unida(w)
    <3>1. StarGame(b, z) /\ Quieta(z, z)
      BY <2>3 DEF Unida, Quieta
    <3> QED BY <1>4, <2>1, <3>1, StarGameQuietas
  <2>4. CASE YaNoExiste(w)
    <3> DEFINE f == CASE z.fase = "activa" -> "saliendo"
                      [] z.fase = "detenida" -> "fin"
                      [] OTHER -> z.fase
               a == [z EXCEPT !.fase = f]
    <3>1. Pasa(b, a)
      BY <2>1, <2>4 DEF YaNoExiste, Actividades
    <3>2. /\ z.fase # "fuera" => f # "fuera"
          /\ z.fase \in {"detenida", "fin"} => f = "fin"
      OBVIOUS
    <3> HIDE DEF f
    <3>3. Quieta(z, a)
      BY <2>1, <3>2 DEF Actividades, Quieta
    <3> HIDE DEF a
    <3> QED BY <1>4, <2>1, <3>1, <3>3, PasaQuietas
  <2>5. CASE Borrada(w)
    <3> DEFINE a == [z EXCEPT !.jugadaId = Nada]
    <3>1. Pasa(b, a)
      BY <2>5 DEF Borrada
    <3>2. Quieta(z, a)
      BY <2>1 DEF Actividades, Quieta
    <3> HIDE DEF a
    <3> QED BY <1>4, <2>1, <3>1, <3>2, PasaQuietas
  <2> QED BY <1>7, <2>2, <2>3, <2>4, <2>5
<1> QED BY <1>5, <1>6, <1>7

LEMMA Sala1Todo ==
  ASSUME NEW D, Entorno, MenusTodoInv(D), Sala1
  PROVE  MenusTodoInv(D)'
<1>1. Inv /\ ActInv
  BY DEF Entorno, Inv
<1>2. Quietas /\ Quedan(menu) /\ UNCHANGED aviso
  BY <1>1, AvanzaQuietas, AplicaQuietas DEF Sala1
<1>3. Mismos(menu)
  BY DEF MenusTodoInv, MenusInv, Mismos
<1>4. Conviven(menu) /\ CaenSuyas
  BY <1>2, <1>3, QuietasConviven
<1>5. Anunciado(D, menu, aviso')
  BY <1>2 DEF MenusTodoInv, AnuncioInv, Anunciado
<1>6. aviso' \in [Clientes -> Partidas \cup {Nada}] /\ \A c \in Clientes : aviso'[c] = aviso[c]
  BY <1>2 DEF MenusTodoInv, InvitadosInv
<1> QED BY <1>2, <1>3, <1>4, <1>5, <1>6, MismosTodo
-----------------------------------------------------------------------------
(* The invariant holds from the start, over every step.                       *)
LEMMA InitMenus ==
  ASSUME NEW D, Debidas(D), InitTransicion
  PROVE  AperturaInv /\ AtendidaInv /\ MenusTodoInv(D)
<1>1. AperturaInv /\ AtendidaInv
  BY InitApertura, InitAtendida DEF InitTransicion
<1>2. \A p \in Menus : menu[p] = SinAbrir
  BY DEF InitTransicion
<1>3. MenusInv /\ Orden(menu)
  <2>1. SinAbrir \in RegistrosMenu /\ ~Activo(SinAbrir)
    BY SinAbrirBien DEF MenuBien, Activo
  <2> QED BY <1>2, <2>1, SinAbrirBien DEF InitTransicion, MenusInv, Orden
<1>4. ConvivenInv
  BY <1>2, SinAbrirBien DEF ConvivenInv, Convive, Corre, Activo
<1>5. InvitadosInv
  BY <1>2, SinAbrirBien DEF InvitadosInv, InitTransicion
<1>6. AnuncioInv(D)
  BY <1>2, SinAbrirBien DEF AnuncioInv, Anuncia, Debidas
<1> QED BY <1>1, <1>3, <1>4, <1>5, <1>6 DEF MenusTodoInv

LEMMA NadaCambia ==
  ASSUME NEW D, MenusTodoInv(D), UNCHANGED varsTransicion
  PROVE  MenusTodoInv(D)'
<1>1. UNCHANGED <<vars, menu, aviso>>
  BY DEF varsTransicion
<1>2. MenusInv' /\ Orden(menu)' /\ ConvivenInv' /\ InvitadosInv'
  BY <1>1 DEF vars, MenusTodoInv, MenusInv, Orden, ConvivenInv, InvitadosInv
<1>3. ASSUME NEW p \in Menus
      PROVE  Anuncia(D, p, menu'[p], Pendientes(menu[p].quien)', aviso'[menu'[p].quien])
  <2> DEFINE c == menu[p].quien
  <2>1. \A j \in Partidas : Ve(c, j)' = Ve(c, j)
    BY <1>1 DEF vars, Ve, Base, Enteras, Propias
  <2>2. Pendientes(c)' = Pendientes(c)
    BY <1>1, <2>1 DEF Pendientes
  <2> QED BY <1>1, <2>2 DEF MenusTodoInv, AnuncioInv
<1>4. AnuncioInv(D)'
  BY <1>1, <1>3 DEF AnuncioInv
<1> QED BY <1>2, <1>4 DEF MenusTodoInv

(* A step keeps what D asks, if D asks nothing of a menu in a pause but on a  *)
(* phone that shows what is heard there.                                      *)
LEMMA NextMenus ==
  ASSUME NEW D, AperturaInv, AtendidaInv, MenusTodoInv(D),
         [NextTransicion]_varsTransicion,
         \A p \in Menus : /\ AlVolver(D, p)
                          /\ <<p, menu[p].quien, "pausada">> \in D =>
                                menu[p].quien \in antiguos
  PROVE  AperturaInv' /\ AtendidaInv' /\ MenusTodoInv(D)' /\ PasoDeEmparejamiento
<1>1. PasoDeEmparejamiento
  BY PasoBien DEF varsTransicion, PasoDeEmparejamiento
<1>2. Entorno /\ AperturaInv' /\ AtendidaInv'
  BY <1>1, HayEntorno
<1>3. ASSUME NEW p \in Menus, PasoMenu(p) PROVE MenusTodoInv(D)'
  BY <1>2, <1>3, AbrirMenuTodo, VidaTodo, RegresarTodo, OirTodo, AceptarTodo, CancelarTodo
     DEF PasoMenu
<1>4. ASSUME NextTransicion PROVE MenusTodoInv(D)'
  BY <1>2, <1>3, <1>4, AbrirAvisoTodo, BuscarTodo, Sala1Todo
     DEF NextTransicion, PasoTransicion
<1> QED BY <1>1, <1>2, <1>4, NadaCambia

(* The phones that show a notification are held to announce on the screen and *)
(* in a pause.                                                                *)
Viejas == Menus \X antiguos \X {"activa", "pausada"}
TodoInv == antiguos \subseteq Siguen /\ MenusTodoInv(Viejas)

LEMMA ViejasDebidas == antiguos \subseteq Siguen => Debidas(Viejas)
BY DEF Debidas, Viejas

LEMMA InitTodo == InitTransicion => AperturaInv /\ AtendidaInv /\ TodoInv
<1> SUFFICES ASSUME InitTransicion PROVE AperturaInv /\ AtendidaInv /\ TodoInv
  OBVIOUS
<1>1. antiguos \subseteq Siguen
  BY DEF InitTransicion
<1>2. PICK D : D = Viejas
  OBVIOUS
<1>3. AperturaInv /\ AtendidaInv /\ MenusTodoInv(D)
  BY <1>1, <1>2, ViejasDebidas, InitMenus
<1> QED BY <1>1, <1>2, <1>3 DEF TodoInv

LEMMA NextTodo ==
  AperturaInv /\ AtendidaInv /\ TodoInv /\ [NextTransicion]_varsTransicion =>
      AperturaInv' /\ AtendidaInv' /\ TodoInv' /\ PasoDeEmparejamiento
<1> SUFFICES ASSUME AperturaInv, AtendidaInv, TodoInv, [NextTransicion]_varsTransicion
             PROVE  AperturaInv' /\ AtendidaInv' /\ TodoInv' /\ PasoDeEmparejamiento
  OBVIOUS
<1>1. PICK D : D = Viejas
  OBVIOUS
<1>2. MenusTodoInv(D) /\ \A p \in Menus : /\ AlVolver(D, p)
                                          /\ <<p, menu[p].quien, "pausada">> \in D =>
                                                menu[p].quien \in antiguos
  BY <1>1 DEF TodoInv, Viejas, AlVolver
<1>3. AperturaInv' /\ AtendidaInv' /\ MenusTodoInv(D)' /\ PasoDeEmparejamiento
  BY <1>2, NextMenus
<1>4. antiguos' = antiguos
  BY DEF NextTransicion, varsTransicion
<1>5. Viejas' = D
  BY <1>1, <1>4 DEF Viejas
<1>6. MenusTodoInv(Viejas)'
  BY <1>3, <1>5
<1> QED BY <1>3, <1>4, <1>6 DEF TodoInv

LEMMA SpecMenus == SpecTransicion => [](AperturaInv /\ AtendidaInv /\ TodoInv)
BY InitTodo, NextTodo, PTL DEF SpecTransicion

-----------------------------------------------------------------------------
(* Type correctness of the menus, for any players and bounds: a dialog, or a  *)
(* clock left by one, always has a match to answer for when it is touched or  *)
(* runs out (jugadaId, TransisionActivity:520, 585, 623).                     *)
THEOREM TipoSiempreTransicion == SpecTransicion => []TipoTransicion
<1>1. TodoInv => TipoTransicion
  BY DEF TodoInv, MenusTodoInv, MenusInv, MenuBien, InvitadosInv, TipoTransicion
<1> QED BY SpecMenus, <1>1, PTL

(* One step: D is what the phones that show a notification owe, and what the  *)
(* others have announced on the screen, whose menus were not in a pause.      *)
LEMMA PasoAnuncia ==
  ASSUME AperturaInv, AtendidaInv, TodoInv, [NextTransicion]_varsTransicion,
         NEW p \in Menus, SinAnunciar(p)', ~SinAnunciar(p)
  PROVE  menu[p].fase = "pausada" /\ menu[p].quien \notin antiguos
<1> SUFFICES ASSUME ~(menu[p].fase = "pausada" /\ menu[p].quien \notin antiguos)
             PROVE  FALSE
  OBVIOUS
<1>1. PICK D : D = Viejas \cup {<<p, c, "activa">> : c \in Siguen}
  OBVIOUS
<1>2. \A q, c, f : <<q, c, f>> \in D <=>
          \/ q \in Menus /\ c \in antiguos /\ f \in {"activa", "pausada"}
          \/ q = p /\ c \in Siguen /\ f = "activa"
  BY <1>1 DEF Viejas
<1>3. Debidas(D)
  BY <1>2 DEF Debidas, TodoInv
<1>4. AnuncioInv(D)
  <2> SUFFICES ASSUME NEW q \in Menus, <<q, menu[q].quien, menu[q].fase>> \in D
               PROVE  Anuncia(D, q, menu[q], Pendientes(menu[q].quien), aviso[menu[q].quien])
    BY DEF AnuncioInv, Anuncia
  <2>1. CASE menu[q].quien \in antiguos
    <3>1. <<q, menu[q].quien, menu[q].fase>> \in Viejas
      BY <1>2, <2>1 DEF Viejas
    <3> QED BY <3>1 DEF TodoInv, MenusTodoInv, AnuncioInv, Anuncia
  <2>2. CASE menu[q].quien \notin antiguos
    BY <1>2, <2>2 DEF SinAnunciar, Anuncia
  <2> QED BY <2>1, <2>2
<1>5. MenusTodoInv(D)
  BY <1>3, <1>4 DEF TodoInv, MenusTodoInv
<1>6. \A q \in Menus : /\ AlVolver(D, q)
                       /\ <<q, menu[q].quien, "pausada">> \in D => menu[q].quien \in antiguos
  BY <1>2 DEF AlVolver
<1>7. MenusTodoInv(D)'
  BY <1>5, <1>6, NextMenus
<1>8. menu'[p].fase = "activa" /\ menu'[p].quien \in Siguen
  BY <1>7 DEF SinAnunciar, MenusTodoInv, MenusInv, MenuBien
<1> QED BY <1>2, <1>7, <1>8 DEF SinAnunciar, MenusTodoInv, AnuncioInv, Anuncia

(* No step leaves unannounced an invitation to a player who is at the menu    *)
(* and has heard of everything, whatever pauses, stops, returns and other     *)
(* invitations came between, but a return from a pause alone, on a phone that *)
(* shows no notification (DetectarJugada, crearNotificacionInterna and        *)
(* onPause to onRestart, TransisionActivity:409-455, 504-561).                *)
THEOREM SiempreAnunciada == SpecTransicion => InvitacionAnunciada
<1>1. AperturaInv /\ AtendidaInv /\ TodoInv /\ [NextTransicion]_varsTransicion =>
          [\A p \in Menus : SinAnunciar(p)' =>
              \/ SinAnunciar(p)
              \/ menu[p].fase = "pausada" /\ menu[p].quien \notin antiguos]_varsTransicion
  BY PasoAnuncia
<1> QED BY SpecMenus, <1>1, PTL DEF SpecTransicion, InvitacionAnunciada

(* On a phone that shows notifications it follows that nothing is ever left   *)
(* unannounced at the menu, also after a pause.                               *)
THEOREM AntiguosSiempreAnuncian ==
  SpecTransicion => [](\A p \in Menus : menu[p].quien \in antiguos => ~SinAnunciar(p))
<1>1. TodoInv => \A p \in Menus : menu[p].quien \in antiguos => ~SinAnunciar(p)
  BY DEF TodoInv, MenusTodoInv, AnuncioInv, Anuncia, Viejas, SinAnunciar
<1> QED BY SpecMenus, <1>1, PTL

(* No dialog stays without a clock that will close it, for any number of      *)
(* dialogs over one another and whichever clock countDownTimerDial refers to  *)
(* (dialogo_NotificacionJugada, TransisionActivity:562-620).                  *)
THEOREM SiempreConReloj == SpecTransicion => []DialogoConReloj
<1>1. TodoInv => DialogoConReloj
  BY DEF TodoInv, MenusTodoInv, MenusInv, MenuBien, Atendidos, Visibles, ConReloj, DialogoConReloj
<1> QED BY SpecMenus, <1>1, PTL

(* The menus ask of matchmaking only what it expects of them: what they       *)
(* accept or decline is an invitation of another player to this one, that     *)
(* reached the server, and no search opens over another (aceptar, cancelar    *)
(* and the notification, TransisionActivity:504-635).                         *)
THEOREM MenusEmparejan == SpecTransicion => EsEmparejamiento
BY SpecMenus, NextTodo, PTL DEF SpecTransicion, EsEmparejamiento

LEMMA PasoSala == Inv /\ PasoDeEmparejamiento => PasoDeSala
<1> SUFFICES ASSUME Inv, NEW c \in Clientes, NEW j \in Partidas, Declina(c, j)
             PROVE  PasoDeSala
  BY NextSala DEF PasoDeEmparejamiento
<1>1. UNCHANGED <<jugadas, sentados>> /\ CreaMas
  BY DEF Declina, Ajena, CreaMas
<1> QED BY <1>1, SalaQuieta DEF PasoDeSala

(* And so every match goes on being what Sala says, while the menus accept    *)
(* invitations late and decline as often as they like (aceptar,               *)
(* cancelarJugada and onFinish, TransisionActivity:578-635).                  *)
THEOREM MenusComoSala == SpecTransicion => EsSala
<1>1. InitTransicion => EmpiezaComoSala
  BY InitSala DEF InitTransicion
<1>2. AperturaInv /\ PasoDeEmparejamiento => PasoDeSala
  BY PasoSala DEF AperturaInv
<1> QED BY SpecMenus, NextTodo, <1>1, <1>2, PTL DEF SpecTransicion, EsSala

(* Nor does anything a menu accepts, declines or lets run out make a search   *)
(* open a match its player has no seat in, or leave a free match with nobody  *)
(* to answer for it (aceptar and cancelarJugada, TransisionActivity:578-635). *)
THEOREM MenusAtienden == SpecTransicion => [](AbreLoSuyo /\ LibreAtendida)
BY SpecMenus, SuyaAbre, AtendidaVale, PTL
=============================================================================
