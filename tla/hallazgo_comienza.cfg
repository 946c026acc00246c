CONSTANTS
    Clientes = {c1, c2}
    Nada = Nada
    MaxBusquedas = 3
    MaxPartidas = 3
    MaxExtras = 1
SPECIFICATION Spec
PROPERTY ComienzaConDos
SYMMETRY Simetria
CHECK_DEADLOCK FALSE
