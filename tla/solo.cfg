CONSTANTS
    Pantallas = {p1, p2}
    SinCuenta = SinCuenta
    MaxToques = 1
    MaxRondas = 3
    MaxVueltas = 1
SPECIFICATION SpecJusta
INVARIANTS TypeOK SaldoPorPartida RondaConReloj PagosPorReloj
PROPERTY RondaTermina
CHECK_DEADLOCK FALSE
