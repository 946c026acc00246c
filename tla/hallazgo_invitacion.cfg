CONSTANTS
    Clientes = {c1, c2}
    Siguen = {c1}
    Nada = Nada
    Invitados = {c1}
    MaxBusquedas = 2
    MaxPartidas = 1
    MaxExtras = 0
    MaxRechazos = 1
    MaxMenus = 1
    MaxOyentes = 2
    MaxDialogos = 2
SPECIFICATION SpecTransicion
PROPERTY AceptadaNoSeRechaza
CHECK_DEADLOCK FALSE
