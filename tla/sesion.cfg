CONSTANTS
    ana = ana
    eva = eva
    fer = fer
    Nada = Nada
    Correo = {ana, eva}
    Facebook = {fer}
    ConCuenta = {ana, fer}
    MaxPantallas = 4
    MaxPuntos = 2
    MaxPedidos = 2
    MaxCola = 1
    MaxCaidas = 1
SPECIFICATION Spec
INVARIANTS
    TipoSesion
    InicioSinSesion
    CuentaOEnCamino
 
CHECK_DEADLOCK FALSE
