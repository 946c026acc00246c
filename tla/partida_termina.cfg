CONSTANTS
    Uno = uno
    Dos = dos
    Nadie = Nadie
    SinJugada = SinJugada
    SinCuenta = SinCuenta
    Clientes = {uno, dos}
    Abren = {uno, dos}
    Ordenes = {1}
    Inicios = {"aceptada", "rechazada"}
    MaxToques = 0
    MaxPend = 1
    MaxPerdidos = 1
    MaxVueltas = 1
    MaxGiros = 0
SPECIFICATION SpecJusta
INVARIANTS VistaFiel
PROPERTY Termina
CHECK_DEADLOCK FALSE
