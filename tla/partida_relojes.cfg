CONSTANTS
    Uno = uno
    Dos = dos
    Nadie = Nadie
    SinJugada = SinJugada
    SinCuenta = SinCuenta
    Clientes = {uno, dos}
    Abren = {uno, dos}
    Ordenes = {1}
    Inicios = {"aceptada", "rechazada"}
    MaxToques = 1
    MaxPend = 1
    MaxPerdidos = 1
    MaxVueltas = 0
    MaxGiros = 1
SPECIFICATION Spec
INVARIANTS TypeOK  SinPuntosInventados GanadorDelMarcador
 
CHECK_DEADLOCK FALSE
