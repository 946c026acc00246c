CONSTANTS
    Clientes = {c1, c2}
    Nada = Nada
    MaxBusquedas = 3
    MaxPartidas = 2
    MaxExtras = 1
SPECIFICATION Spec
INVARIANTS TypeOK LibreAtendida AbreLoSuyo
PROPERTY EsSala
SYMMETRY Simetria
CHECK_DEADLOCK FALSE
