CONSTANTS
    Clientes = {c1, c2}
    Siguen = {c1}
    Nada = Nada
    Invitados = {c1}
    MaxBusquedas = 2
    MaxPartidas = 2
    MaxExtras = 0
    MaxRechazos = 1
    MaxMenus = 1
    MaxOyentes = 1
    MaxDialogos = 2
SPECIFICATION SpecTransicion
INVARIANTS TipoTransicion DialogoConReloj
PROPERTIES EsEmparejamiento InvitacionAnunciada
CHECK_DEADLOCK FALSE
