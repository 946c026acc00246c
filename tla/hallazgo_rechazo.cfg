CONSTANTS
    Uno = uno
    Dos = dos
    Nadie = Nadie
    SinJugada = SinJugada
    SinCuenta = SinCuenta
    Clientes = {uno, dos}
    Abren = {uno, dos}
    Ordenes = {1}
    Inicios = {"rechazada"}
    MaxToques = 1
    MaxPend = 1
    MaxPerdidos = 0
    MaxVueltas = 0
    MaxGiros = 0
SPECIFICATION Spec
INVARIANTS QuienRechazaPierde
CHECK_DEADLOCK FALSE
