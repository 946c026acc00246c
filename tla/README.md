# TócaTe: TLA+ models and proofs

TócaTe (`src/app`, package `com.lvmo.tocatef2`) is an Android game of two
players. Each player's screen shows two pictures, its own and the other's, and
a label that orders which one to touch; a match lasts 65 seconds. The phones
share one Firestore document per match, which each of them overwrites whole,
and one document per account. There is no code on the server. Everything that
keeps a match consistent is therefore in the order of the callbacks of two (or
more) phones, and that is what these modules are about.

The rest of `src/` (SDK emulators, SDK samples, build output, images) is vendored
or generated and is not the program.

Definitions keep the Java names where they have one; everything else is named
in Spanish, like the code.

## 1. Inventory

| Component | Code | State | Operations | What makes it correct |
|---|---|---|---|---|
| Match | `ui/MultPlayerActivity`, `model/Jugada`, `model/User` | field `jugada`, the counters `cont1`/`cont2`, the order `n`, the copies of the accounts, the clock, the dialog; document `jugadas/<id>`; documents `users/<uid>` | first and later snapshots, answers to the reads of accounts, taps, end of the clock, dialog, back, stop, start, rotation | the two phones end up agreeing; scores, winner and payments come from what the players did; the match ends |
| Single game | `ui/GameActivity` | `puntosUid`, `n`, `isPause`, three clocks, `userjUno` | load, 2 s start, taps, end of a clock, restart, ranking, pause and resume | one payment per round; a round on the screen has a clock; no clock of an earlier round ends a later one |
| Matchmaking | `ui/FindGameActivity` | `jugadaId`, `crearInv`, `listenerRegistration`; the collection `jugadas` | look for a free match, create, wait, start, accept an invitation or link, stop | a match has two different players; nobody waits in a match that is gone |
| Menu and invitations | `ui/Transision/TransisionActivity` | `jPausado`, `jugadaId`, `countDownTimerDial`; the listeners registered, the dialogs and their clocks; one notification | start, resume, pause, stop, invitation snapshot, accept, decline, 35 s clock | an invitation pending is announced; a dialog closes; only invitations received are answered |
| Layout | `moverImangen` in both games | positions of the two pictures | the two rejection loops | the pictures are apart and can be touched; the loops end, where the screen has room |
| Session | `ui/InicioSesion/*` | the signed-in user, the Facebook token and profile, the account documents, the stack of screens | sign in, register, read the account, sign out, leave and come back | a registered user has an account, which nothing starts again; nobody signed in stays at the first screen |
| Ranking, players online | `ui/Raking/*`, `UserOnlineFragment` | none of their own | show a query | read only |
| Test screen | `ui/PruebasActivity` | as the single game | as the single game | opened by no screen of the application |

How they interact: the menu starts matchmaking (a free match, an invitation, a
link), matchmaking starts the match with the document's id, the match and the
single game return to the menu or the ranking; all of them read and write the
same two collections. Within one phone everything runs on the main thread, so
a callback is atomic; between callbacks anything may happen.

The behaviours that are hard: whole-document writes from two phones, with
Firestore's local echo and its queue of pending writes; snapshots the code
ignores (`hasPendingWrites`); reads answered after the screen has moved on; a
field holding the only reference to a clock and being overwritten; life-cycle
callbacks (stop, return, rotation, back) that close and pay the match; joins
decided by a query and made by a later write.

## 2. Plan

1. `Marcador`, `Partida`: the rule and the match. **Done.**
2. `JuegoSolo`: the single game and its clocks. **Done.**
3. `Sala`, `Emparejamiento`: any number of phones over a collection of matches,
   in the order *query, write, answer*, and the life of one match (free, taken
   by two, or gone) that they implement. **Done.**
4. `Transicion`: the menu's listeners, dialogs and clocks, composed with
   `Emparejamiento`, which it extends. **Done.**
5. `Pantalla`: `moverImangen`. **Done.**
6. `Sesion`: sign-in, registration, the account and the screens. **Done.**
7. `Tocate`: matchmaking composed with the match, in place of the three initial
   situations of `Partida` and of the stand-in `Juega`. Not written: the two
   state spaces multiply (section 9), and what the second takes from the first
   is the three initial documents, which `Sala` allows.

Each module has its abstract promise or its inductive invariant next to it:
`Sala` for matchmaking, matchmaking itself for the menu, and the `*Proofs`
modules of section 11 for the rest.

## 3. The match: `Marcador`, `Partida`

`Marcador` holds the rule as pure operators: `TanteoUno`/`TanteoDos` are the two
picture listeners of `eventoClic`, `Rotulo` is `EtTocate`. `Partida` is the
activity on every phone together with the document and the accounts.

| Code | Model |
|---|---|
| `jugada`, `n`, `cont1`/`cont2`, `userjUno`/`userjDos`, `nombreJuno`/`nombreJdos` | `jug[c]`, `n[c]`, `cont[c]`, `copia[c]` (the one of the client's own side), `nombres[c]` |
| `countDownTimer`; clocks whose reference was overwritten | `reloj[c]`; `perdidos[c]` |
| `jugadaListener`, `recibirDBjugada`, `getnombresJugadores` | `Evento`, `Nombres` |
| `eventoClic`, `actualizarDBjugada` | `Toque` (and `SinPartida` when `jugada` is null) |
| `funcionGameover`, `actualizarDBuser` | `FuncionGameover`, `ConGanador`, `Paga`: part of every action that ends a match |
| `onFinish`, `onBackPressed`, the dialog, `onStop`, `onStart`, a rotation | `Expira`, `ExpiraPerdido`, `Atras`, `SalirDialogo`, `Parar`, `PararSinPartida`, `Volver`, `Girar` |
| Firestore | `pend[c]` (queued writes), `alDia[c]` (no event due), `Aplica` |

`Init` is what matchmaking and the menu leave (FindGameActivity:85-107,
TransisionActivity:621-635): a match *accepted*, one whose second client was
*displaced* by a concurrent join, one whose invitation was *declined*.

What is assumed of Firestore and Android: a set replaces the whole document; a
phone's writes form a first-in first-out queue and the phone shows them to
itself at once; a listener hears of the server only with nothing of its own
pending (the code ignores the other snapshots, :203), and an acknowledgement
raises no event, since the listener does not ask for metadata changes; a
listener registered while writes are pending gets a local event only. Reads of
`users` are answered at once and in any order, and not after `onStop`. One
client writes an account at a time. An exception (`"caida"`) stops the client
for good, leaving its queued writes to be sent. Older clocks end first.

Left out of the match: the system killing the process, listener errors, the
`online` field, where the pictures are. Taps after `onBackPressed` or after the
dialog are ignored; a second dialog over the first is one dialog. `Girar` is
taken with no dialog and no lost clock. Counters are integers: 65 seconds of
taps do not reach 2^31.

## 4. The single game: `JuegoSolo`

A record per activity, because the back key leaves the activity below a new
menu from which another may be opened: one is on the screen, the others may
still have clocks. `principal`, `reanuda` and `refDial` say that
`countDownTimer`, `countDownTimeronResume` and `countDownTimerDial` refer to a
running clock; `huerfanos` and `sueltos` count the clocks no field refers to.
`OnPause`, `OnResume`, `FuncionGameover`, `Cierra` are the methods and are part of every
action that calls them. `isParche` is always true when it is tested and is not
in the record. `Destruir` is a rotation, the system, or the "Cancel" of the
photo dialog. A process restart is not modelled; the account starts at zero.

## 5. Matchmaking: `Sala`, `Emparejamiento`

Each opening of FindGameActivity is a *search*, with a record of its fields
(`jugadaId`, `crearInv`, `listenerRegistration` as `oye`) and of the calls it
still waits for; it survives in the model as long as the process, because
nothing in the code cancels those calls.

| Code | Model |
|---|---|
| `optenerTipoJugada` | `AbrirLibre`, `AbrirInvitando` (also for a link), `AbrirInvitado`, `AbrirEnlace` |
| `buscarJugadaLibre` | the query is `consulta`; its answer `NingunaSirve` or `Encuentra`, with the creations the loop makes on its way to the match |
| `crearNuevaJugada`, `crearNuevaJugadaRef`, `buscarJugadaRef`, `linkReception` | `Adds`/`Crea`, `Acepta`, `Enlace` |
| `onSuccess`, `onFailure`, `onComplete` | `Creada`, `Unida`, `YaNoExiste`, `Borrada`: part of `Aplica`, which is the server's step |
| `esperarJugador`, its posted start, `starGame` | `Evento`, `Empieza`, `StarGame` |
| `onStop`, `onBackPressed`, return | `Parar`, `Volver` |
| other screens | `Juega` (a match being played sets its document) and `Declina` (the write of a declined invitation), coarse stand-ins; `Transicion` puts the menu itself in the place of the second |

A query sees the server's documents the phone has nothing pending on, and the
phone's own new ones; it is answered at its callback. A write is applied and
answered in one step. A destroyed activity is one that is never returned to. A
match opened with an empty id ends the application, as does a listener's event
for a document that is gone. Failures of the query or of a creation, which
change no state but the layout, are left out, and so is the restriction newer
Android versions put on starting activities from the background.

`LibreAtendida` says that a free match on the server always has somebody who
will answer for it: a search of its host listens to it or has opened it, or its
deletion is queued. It excuses a search that was stopped and returned to, and an
application that an exception has ended. `AbreLoSuyo` says that
a search only opens a match in which its player has had a seat, over joins
that overwrite one another and starts posted for a match that is gone.

`Sala` is the life of one match: created once, its host fixed; free until the
second seat is taken, and never free again, even over a deletion (a set from an
old copy brings a deleted match back, but always with a second player); nobody
against itself except in a match shared by link. `SalaDe(j)` is the refinement
mapping and `EsSala` says that every match of every behaviour implements `Sala`.

## 6. The menu: `Transicion`

Every opening of TransisionActivity is a *menu*, numbered as it happens, which
lives on after it is destroyed: nothing removes its listeners (every creation,
start, restart, pause and stop registers one more, `DetectarJugada`) nor
cancels its clocks. The module extends `Emparejamiento`, so the invitations, the
server, the queued writes and the searches a menu opens are the ones of section 5.

| Code | Model |
|---|---|
| `onCreate`, `onStart`, `onRestart`, `onResume`, `onPause`, `onStop` | `AbrirMenu`, `Pausar`, `Reanudar`, `Cubrir`, `Regresar`; `Parado` and `Tapado` are the callbacks of leaving the screen, part of every action that does |
| the listeners | `oyentes`, and `porOir`, those with an event due; `Oir(p, j)` finds invitation `j` first, `OirNada` none |
| `jPausado` | true in every phase but `"activa"`: a dialog is shown there, a notification elsewhere |
| `jugadaId` | one field for all dialogs: what the last event found (`Refiere`) |
| dialogs, `countDownTimerDial` | `dialogos`, each `visible` or not and with its clock running or not; the field refers to the last one's clock |
| `aceptar`, `cancelar`, `onFinish` | `Aceptar` (with `AbreInvitado`, the search that opens), `Cancelar`, `Expira` (with `CancelarJugada`) |
| the notification | `aviso[c]`: one per phone, that of the last invitation (`CrearNotificacion`), on the phones that show one (`antiguos`); `AbrirAviso` |

An event is due for every listener of a phone when what its query finds
changes; a step of matchmaking may also end the application (`Caen`) or open a
match over the menu (`AbrenPartida`), and `Quedan` says what that does to the
menus.

The notification names no channel (`TransisionActivity:537`), nothing in the
application creates one, and the target is 29 (`src/app/build.gradle:10`): Android 8 and later drop
it without a word. Phones of both kinds are in the model: `antiguos`, chosen
at the start, are those with an earlier Android, where `notify` shows it. On
the others `aviso` never holds anything and `AbrirAviso` never happens. It
matters for a menu that is only paused (a permission is asked for over it): an invitation
heard of then goes to the notification, `onResume` registers no listener, and the
player is back at the menu with an invitation that nothing announces until the next
change of the query. `InvitacionAnunciada` says that this is the only way: no
other step, on either kind of phone, takes a player at the menu who has heard all
events into a state with an invitation pending and none announced.

`Pendientes(c)` is what the query of a phone finds, over `Ve(c, j)`: a match as phone `c` sees
it, from the last document among its own queued writes (`Base`), or the server's
if there is none, with the second seat its later updates take.
`EsEmparejamiento` is a refinement of a kind: what the menu does to matchmaking
is a step that `Emparejamiento` has (an invitation accepted, or `Declina`), so what
is proved of `Emparejamiento` holds with the menu in it (`MenusComoSala` and
`MenusAtienden`, section 11).

A dialog that is closed and whose clock has ended is forgotten (`Olvida`), but for
the last one, since `countDownTimerDial` still refers to its clock and answering
another dialog cancels that one, which then does nothing.

Bounds: the menu is destroyed only with no dialog up; a notification is not
swiped away, and is tapped with no search on the screen; no link is followed;
players that are not followed do not decline. `Cota` stops counting listeners
at `MaxOyentes`, and there are at most two dialogs: a third does what the second does.

## 7. The layout: `Pantalla`

`moverImangen(imagen0, imagen1)` draws the column and the row of the second
picture until each is clear of the first. The model gives the set of places the
loops may end with (`SitiosX`, `SitiosY`); where it is empty the call never
returns, and the activity goes to the phase `"atascada"`, or to `"caida"` if
the range was empty and `nextInt` throws (`SinSalida`, in `Mueve`). `Medidas` is a
screen: its size, what is above and below the area, the
sides of the pictures. Two details of the code matter. Before the layout a view
has no size and no place, so in a match the first positions are drawn against
zeros (`SinMedir`) and pictures may overlap until the first touch or event. And
`setY` counts from the area while `getLocationOnScreen` counts from the screen, so
the rows of two pictures are compared in two scales (`LocY`); the columns are
not, and it is the columns that keep the pictures apart.

Of the screens only what the two layouts fix is assumed (`Proporcionada`): pictures of
about one size (104dp by 104 or 100) and less around their area than they leave free.
The orientation is not locked in the manifest, so the screens of the model are of any
height. `Amplia` is the room the loops need, three pictures in a row and four in a
column, which a phone held upright has; it is a condition of `HaySitio` and of
nothing else. On its side a phone of 360dp has three pictures and a half of
height: one that lies near the top leaves no row that the second loop would
take, and the main thread draws for ever. `SinSitio` proves that, and the run
`pantalla` has such a screen.

## 8. The session: `Sesion`

One phone: who is signed in, the Facebook token and profile, the users that
exist, their accounts on the server, the phone's queue of writes, the stack of
screens, and the calls not yet answered.

| Code | Model |
|---|---|
| `MainActivity.onStart`, `firebaseAuthListener`, `updateUI` | `OnStart`, `Avisa`, `UpdateUI` (with `AlMenu`), part of `Arriba`, `Entra` and `Crea` |
| the read of the account for a Facebook profile | `PerfilLeido`, `PerfilSinRed` |
| `handleFacebookAccessToken`, `fetchProfile...` | `HandleFacebookAccessToken`, `LlegaPerfil` |
| `LoginActivity` | `IniciarSesion`, then `Entra` or `Falla` |
| `RegistoActivity` | `CrearUsuario`, then `Crea` (the user is there, the account is queued) or `Falla`; its `onSuccess` is in `Aplica` |
| `TransisionActivity.onCreate`, `getnombrePuntos`, the two seconds, sign-out, back | `CreaMenu`, `CuentaLeida`, `Mostrar`, `Salir`, `Atras` |
| `UserOnlineFragment.onEvent` | `EnLinea` |
| a game's payment | `Paga` |
| Android | `Arriba` (the screen on top comes to the screen, and the others stop), `Cubrir`, `Descartar`, `Lanzar`, `Caida` |

A listener given to a call together with its activity is removed when the
activity stops (the call goes on, and its answer finds nobody: `dejados`); one
given without it is called whatever has happened since. A call that a screen
posts to itself is taken with what posts it, and a callback with its answer.

What the model does because the code does, which a reader may not expect:
starting signed in opens two menus (`onStart` and the listener it registers both
call `updateUI`), of which the lower is created only when it comes to the top;
signing out on the upper one and going back creates it with no user and ends
the application; so do the list of players online after signing out, and the two
seconds when the account is not there yet; a late answer of the account opens
one menu more; a registration left before its answer leaves a user without an
account, with whom every later start ends by an exception; a new user of Facebook
gets no account, since a document that is missing is not a failed read; and a
token left by a sign-in that Firebase refused makes an e-mail user take
Facebook's way, whose failed read starts the account again. `CuentaOEnCamino` and
`SoloFacebookReinicia` are what holds in spite of all this, and `InicioSinSesion`:
nobody signed in is left at the first screen.

Left out: rotations and restored screens, Facebook's button used to sign out,
a second phone.

## 9. Runs

| Run | Shows | Bounds |
|---|---|---|
| `partida_relojes` | `TypeOK`, `CopiaAlDia`, `SinPuntosInventados`, `GanadorDelMarcador`, `PagoRespaldado` | 2 clients; 1 tap each, order 1 (both pictures score); 1 lost clock; 1 rotation |
| `partida_intruso` | `CuentaDelAnfitrion` | 3 clients, of which the host and the displaced one play; 1 tap |
| `partida_termina` | `VistaFiel`, `Termina` | 2 clients; no taps; 1 lost clock; 1 return |
| `solo` | `TypeOK`, `SaldoPorPartida`, `RondaConReloj`, `PagosPorReloj`, `RondaTermina` | 2 activities, 3 rounds, 1 return, 1 tap each |
| `sala` | `TypeOK`, `LibreAtendida`, `AbreLoSuyo`, `EsSala` | 2 players, 3 searches, 2 matches, 1 return or write of another screen |
| `menu` | `TipoTransicion`, `InvitacionAnunciada`, `DialogoConReloj`, `EsEmparejamiento` | 2 players of which one has a menu, on either kind of phone, 2 searches, 2 matches, 2 dialogs, listeners taken as one, 1 declined at a time |
| `pantalla` | `TipoPantalla`, `SinTaparse`, `Tocables`, `HaySitio` | one screen of equal pictures and one of different ones, with just the room of `Amplia`; one on its side and a strip, without it |
| `sesion` | `TipoSesion`, `InicioSinSesion`, `CuentaOEnCamino`, `SoloFacebookReinicia` | 3 users (with an account, without, by Facebook), 4 screens, 2 requests at once, 1 end of the application |
| `hallazgo_*` | section 12 | the smallest that show them |

Why the bounds are enough to mean something. A tap per player already makes
each write the other's old score back, since there are also the writes at the
end of the match, at stop and at a rotation: four whole-document writes race. A
second lost clock behaves as the first. Three rounds are needed for a restart to
lose a clock that a return then runs beside; two activities, for a payment from
an old copy. In matchmaking three searches are a host and two that want its
seat; two matches, one a search creates and one it joins. In the menu a
listener hears again of every change, so two dialogs of one invitation come from it
too, and two invitations let the field refer to the other one; the run of
`hallazgo_invitacion` has the two listeners one opening registers. In the session four screens are
the first, a form and two menus, or a menu, a sign-out and what comes after; two
requests race; the end of the application falls on every queue and every call.
On a screen measured in pictures every place of the loops is enumerated. The
theorems of section 11 hold for every bound and take over where the runs stop.

`CHECK_DEADLOCK FALSE` is in every configuration: matches, rounds, searches and
numbered screens end. `Simetria` (`sala` and `hallazgo_comienza`, which check no
liveness) permutes the players of matchmaking, which the model never tells apart;
the two players of a match are not interchangeable.

## 10. Fairness

`Partida`: a clock that runs ends, a lost one too; the dialog leaves by its own
clock; an activity that was finished is stopped. `JuegoSolo`: the two-second start and the clocks
of rounds and returns. These are timers and life-cycle callbacks of the main
thread, which Android runs while the activity is there. Nothing is assumed of
taps, of the network or of the server. `Termina` is stated from a running clock, because
a rotation or an unanswered first event leaves a match that nothing ends.

## 11. Proofs

Everything below holds for any clients, activities and searches, any orders and
any bounds. The only assumptions are the named `ASSUME`s on the constants
(bounds are naturals, the two players differ, the null values are not players or
documents, a menu counts one listener at least; for the layout, the proportions of
the pictures and the margins of section 7, and no room). A bound is only a guard and
every finite behaviour fits some bounds, so these safety theorems lose nothing by
them. `MaxOyentes` is the exception, a cap on a count and not a guard; the proofs use only that a menu on the
screen has a listener, which no cap of one or more takes away.

| Module | Theorem | Says |
|---|---|---|
| `PartidaProofs` | `TipoCorrecto` | `TypeOK` |
| | `VistaSiempreFiel` | `VistaFiel` |
| | `GanadorSiempreDelMarcador` | `GanadorDelMarcador` |
| | `CuentaDelAnfitrionSegura` | `CuentaDelAnfitrion` |
| | `CopiaSiempreAlDia`, `PuntosNuncaInventados`, `PagoSiempreRespaldado` | `CopiaAlDia`, `SinPuntosInventados`, `PagoRespaldado`, for two clients |
| `JuegoSoloProofs` | `TipoSolo`, `SaldoSeguro`, `RondaSiempreConReloj`, `PagosSiemprePorReloj` | the types and the three properties of the single game |
| `EmparejamientoProofs` | `TipoEmparejamiento` | `TypeOK` |
| | `SiempreSala` | `EsSala` |
| | `ImplementaSala` | `Spec => S(j)!Spec`, the refinement, for every match `j` |
| `AperturaProofs` | `SoloAbreLoSuyo`, `LibreSiempreAtendida` | `AbreLoSuyo`, `LibreAtendida` |
| `TransicionProofs` | `TipoSiempreTransicion`, `SiempreAnunciada`, `SiempreConReloj` | `TipoTransicion`, `InvitacionAnunciada`, `DialogoConReloj` |
| | `AntiguosSiempreAnuncian` | on a phone that shows the notification, no invitation is ever unannounced at the menu |
| | `MenusEmparejan` | `EsEmparejamiento` |
| | `MenusComoSala`, `MenusAtienden` | `EsSala`, and `AbreLoSuyo` and `LibreAtendida`, of the menus composed with matchmaking |
| `PantallaProofs` | `TipoSiempre`, `NuncaSeTapan`, `SiempreTocables`, `SiempreHaySitio` | `TipoPantalla`, `SinTaparse`, `Tocables`, `HaySitio` |
| | `SinSitio` | on a low screen the next move never ends |
| `SesionProofs` | `TipoSiempreSesion`, `SiempreInicioSinSesion` | `TipoSesion`, `InicioSinSesion` |
| | `CuentaSiempreEnCamino`, `SoloFacebookReiniciaSiempre` | `CuentaOEnCamino`, `SoloFacebookReinicia` |
| `Mayores` | (lemmas) | a set of naturals has a least member, and a bounded one a greatest |

**The match.** None of the properties is inductive. `TInv` adds to the types
that a clock, referenced or lost, was started by an event that set `jugada`:
without it `onFinish` could find a null and the document would lose its type.
`VistaInv` adds what a *stopped* activity holds, since a return registers the
listener again from there. `GanadorInv` says that a phone whose activity is
closed has a consistent document at the end of its queue, and that unless the
server's document is consistent some phone is open or has something queued:
the last write to arrive, whosever it is, is then some phone's closing write.
`TitularInv` says that no document, shown, queued or stored, seats the host
second, so only the host reads the host's account for its own side. `PuntosInv`
follows every score through the three places it can be.

The last three theorems suppose `Clientes = {Uno, Dos}`, and they need it: a
displaced client believes it is player two, plays on, and writes the account it
read for that side. `CuentaDelAnfitrion` is the part that survives.

**The single game.** One invariant proves the four theorems. `Buena` is a
property of an activity by itself (it can be paid, it has its clock, its payments
are within its rounds and returns), so a step is examined only for the activity
that takes it and the account is the only thing shared. `Solvente` is the
strengthening: the copy of the account an activity holds satisfies the bound
however old it is, and `puntosUid` is never below -1.

**Matchmaking.** `Sala` speaks of the server's documents; what could break it
are the writes on their way. `DatosInv` says of the queues: every queued write
keeps the host and the invitation its match was created with (a set from an old
copy cannot change them), at most one creation of a match is pending, over all
phones, and nothing but a creation leaves a match with no second player.
`EnlaceInv` says that a link to be answered is of a match that was created.
Then only `Aplica` touches the documents and the proof goes over the four kinds of
write; every other step is a stutter of `Sala`, in which a match begins when its
creation reaches the server.

`AbreLoSuyo` is about one field. While `jugadaId` refers to a match its player
has had no seat in, the search has counted nobody as seated, posted no start and
listens to nothing; the join it still has queued, if any, is of that match, and an
unanswered query or link has no write queued at all. So when a start fires, or
a join is answered, the field refers to a match of the player's own.
`SuyaInv`, `FirmasInv` and `DebeInv` are those three parts, and quantify over
writes *in* a queue rather than over its places, so that the server taking the
first changes no number.

`LibreAtendida` follows the search that created the match. When `onStop` removes
the listener it deletes the match `jugadaId` refers to, and when a start fires it
opens that match: both must be the one listened to. `Atenta` says so of a search
still on the screen, and says that it has no deletion on its way, since the answer of
one makes the field refer to nothing. A query or a link that would move the field
is only pending while nothing is listened to (`SuyaInv` again). A search that was
stopped and came back breaks all this, which is why the property excuses it.

**The menu.** The four properties of `Transicion` are proved together, by
`MenusTodoInv` on top of the invariants of matchmaking. Its parts hold one
another up:

- `MenuBien`, of each menu by itself: on the screen it has a listener, with a dialog
  it refers to a match, and a dialog that is up has its clock. For the last, closing
  the dialog on top may cancel only the clock of the last of the list, and what is
  up and last *is* the one on top; the oldest clock ends its own dialog.
- `InvitadosInv`: every id a menu or the notification holds is an invitation of another
  player to this one that reached the server. `jugadaId` is one field for all dialogs, so
  what a button answers need not be what its dialog announced, but it is always such
  an invitation, and this is what `Declina` and `AbrirInvitado` require: it gives
  `EsEmparejamiento`. That a query finds nothing else is `VeInv`, which follows a match
  through the phone's queue with the invariants of section 5.
- `Orden` and `ConvivenInv`: a menu above one that is on the screen has ended, and no
  search is on the screen with a menu. They are what makes `InvitacionAnunciada`
  inductive: accepting an invitation removes the phone's notification, which another
  menu on the screen could still need, and a search opens only over searches that
  are stopped.
- `AnuncioInv(D)`: the announcement, for the menus, players and phases of `D`. With `D` the
  phones that show the notification, on the screen and paused (`Viejas`), it is
  invariant, and is `AntiguosSiempreAnuncian`. The other phones are not held to it in a
  pause, and so not after one; for them `SiempreAnunciada` is a property of steps: if a menu
  announces what is pending before a step, `D` may have it on the screen too, and every
  step but its own return from a pause (`AlVolver`) keeps that. What a player finds
  pending changes only when its query does (`PendientesSigue`), and then every listener
  has an event due; conversely an answer to an invitation that is pending changes the
  query (`RespuestaCambia`), so the dialog it closes is not missed. A dialog that
  closes with another left keeps `jugadaId`.

`Quedan` is taken apart once (`QuedaUno`, `QuedanTodo`), so each action is examined only
for the menus it gives to it. That a step of the menus keeps the invariants of
matchmaking is not proved again: it is a step of matchmaking (`PasoBien`), or a refusal.
Hence the last two theorems, of the composed system: refusals without the bound
of `Emparejamiento` break neither `Sala` nor what a search opens and answers for.

**The layout.** A move's place is clear of the other picture in the column by
the test of the loop, and the second move keeps the first; neither needs room. That
the loops have a place is the pigeon-hole argument from `Amplia`: one of the two sides of
a picture has room for the other. So a move that is caught is on a screen that is not
`Amplia`, which is the part of the invariant `SiempreHaySitio` needs; and `SinSitio` is the
same count the other way.

**The session.** `CuentaOEnCamino` is proved from the types of the queue and of
the calls, and from `creados`, `cuentas` and the queue changing together: only `Crea`
adds a user by e-mail (`Entra` adds none that is not there), the server takes a write only
to put it in the account, and the end of the application keeps the queue. Which
screens are where plays no part, so the stack is left alone by the proof.

`SoloFacebookReinicia` compares the account a phone sees before and after a step,
and what it sees is the last of its queued writes. `OrdenInv` says that a queued
write that is not Facebook's is no less than the account and no less than any
earlier write of the same user with none of Facebook's between them, and that a
user not yet created has no points, in the account or in a write. A payment adds to
what is seen, so it keeps the order; the write of a registration finds no points
before it. That a queue with a
write of the user's has a last one is `HayMayor` of `Mayores`, a set of naturals
with a bound has a largest member, proved from the library's well-founded induction
in a module of its own.

`TipoSesion` and `InicioSinSesion` are about the stack. `Puesta` says that it holds open
screens, each once, that at most one screen is active, and that it is not the first one
while somebody is signed in. Each operator on the screens (`Quita`, `Inicia`,
`Detiene`) has a lemma that it keeps this and makes no screen active that was
not (`Menos`), whatever the stack; the one step that makes a screen active is `Arriba`,
where the first screen goes on to the menu if somebody is signed in, and the steps
that sign somebody in (`Entra`, `Crea`) tell the first screen, if it
is there, by its listener.

**What the properties do not say.** Some hold around what the code does wrong, and
would not flag it:

- `PagoRespaldado` says that what is paid was scored, not that it is paid once:
  `onStop` pays again what the clock has paid.
- `PagosPorReloj` allows a payment for each return, since a return starts a clock
  that pays its round again; only a payment beyond rounds and returns breaks it.
- `SaldoPorPartida` bounds the account from below. A payment overwritten from an old
  copy is lost in the model as in the code, and shows only if it goes under the bound.
- `SoloFacebookReinicia` permits the account to be set to zero by a read that
  failed; it says that nothing else takes points away.
- `CuentaOEnCamino` excepts the registrations that were left before their answer.
- `LibreAtendida` excepts a search that was returned to. `AbreLoSuyo` and it cover any
  number of matches by their theorems; the runs have two.
- `Termina` starts from a clock that runs: a match without one is not ended by the code.
- The type invariants do not say that no null is dereferenced: the application then
  ends (`"caida"`), and the other properties are checked over it.
- `HaySitio` is about screens with room, and `InvitacionAnunciada` excepts the return
  from a pause where notifications are dropped.

**Only model-checked.** `Termina` and `RondaTermina`: they are liveness under
fairness, which the prover does not do. And the four disagreements of section 12,
which are counterexamples.

## 12. Findings

Each is a run that violates one property, stated from what the application tells
its user.

- `hallazgo_rechazo`. The guest that declines reads "Perdiste por rechazar la
  jugada." (`strings.xml:49`). `cancelarJugada` seats it second on a score of 0-0
  and the host's game over takes the last branch (`MultPlayerActivity:451`): the
  guest is written down as the winner.
- `hallazgo_tocarte`. The label says "TócaTe tu mismo" (`strings.xml:85`) to
  player two when the order is 1; the listener of its own picture takes a point
  from whoever is not player one at that order. It obeys and goes down.
- `hallazgo_invitacion`. The clock of an invitation is meant to end with the answer
  ("hay que ponerlo afuera del else", `TransisionActivity:590`). Two listeners open two
  dialogs, the field keeps the last clock, and that of the other declines the match
  (`:615`) that was accepted and is being played.
- `hallazgo_comienza`. "Comienza la partida" (`strings.xml:56`) is followed, a
  second later and without looking again, by opening whatever `jugadaId` refers to
  (`FindGameActivity:148-153`): a match that has been deleted, or one with no
  second player.

## 13. Not modelled

- Ranking only shows a query, and so does the list of players online but for the
  two things sections 6 and 8 take from it. Photos and adverts are calls to services with
  no effect on the game. `PruebasActivity` is opened by nothing.
- The `online` field that the menu and the games write: it is read by the list only.
- The dialog of leaving the menu (`TransisionActivity:428`): `contSalir` never
  reaches 2, since the second press leaves.
- The place of the label in the layout.
- Processes killed by the system and restored (`Sesion` has the end of the
  application and a new start, with no saved state), and listeners' errors.
- Firestore's rules, indexes and failures other than a missing document or,
  in `Sesion`, a read with no network: the repository has no server code.
- The match composed with matchmaking (section 2).

The configurations are run with `tlc -config <run>.cfg <module>` and the proofs
with `tlapm <module>Proofs.tla`.
