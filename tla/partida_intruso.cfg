CONSTANTS
    Uno = uno
    Dos = dos
    Nadie = Nadie
    SinJugada = SinJugada
    SinCuenta = SinCuenta
    Clientes = {uno, dos, tercero}
    Abren = {uno, tercero}
    Ordenes = {2}
    Inicios = {"desplazada"}
    MaxToques = 1
    MaxPend = 1
    MaxPerdidos = 0
    MaxVueltas = 0
    MaxGiros = 0
SPECIFICATION Spec
INVARIANTS CuentaDelAnfitrion
CHECK_DEADLOCK FALSE
